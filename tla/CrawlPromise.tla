---------------------------- MODULE CrawlPromise ----------------------------
(***************************************************************************)
(* What a crawl promises, whatever the number of its threads: the files it *)
(* has found and not left out are queued one at a time, in the order of    *)
(* the walk, each after its bytes have reached the archive or after the    *)
(* run has found that there is no regular file to store.                   *)
(***************************************************************************)
EXTENDS Naturals, Sequences

CONSTANTS
    Files,
    Walk,     \* the order a walk reaches them in
    Irregular \* files that may be no regular file

VARIABLES
    ahead,    \* the files of this run that are still to be queued
    archive,  \* files whose bytes are in the archive
    missing,  \* files this run has found to be no regular file
    queued    \* how often each file has been queued

vars == <<ahead, archive, missing, queued>>

Before(f, g) == \E i, j \in DOMAIN Walk : i < j /\ Walk[i] = f /\ Walk[j] = g

Begin ==
    /\ ahead = {}
    /\ ahead' \in SUBSET Files
    /\ missing' = {}
    /\ UNCHANGED <<archive, queued>>

Store ==
    /\ \E f \in Files : archive' = archive \union {f}
    /\ UNCHANGED <<ahead, missing, queued>>

Miss ==
    /\ \E f \in Irregular : missing' = missing \union {f}
    /\ UNCHANGED <<ahead, archive, queued>>

Queue ==
    /\ \E f \in ahead \intersect (archive \union missing) :
        /\ \A g \in ahead \ {f} : Before(f, g)
        /\ ahead' = ahead \ {f}
        /\ queued' = [queued EXCEPT ![f] = @ + 1]
    /\ UNCHANGED <<archive, missing>>

(* The run fails or is killed. *)
Abandon ==
    /\ ahead' = {}
    /\ UNCHANGED <<archive, missing, queued>>

Init ==
    /\ ahead = {}
    /\ archive = {}
    /\ missing = {}
    /\ queued = [f \in Files |-> 0]

Next == Begin \/ Store \/ Miss \/ Queue \/ Abandon

Spec == Init /\ [][Next]_vars
=============================================================================
