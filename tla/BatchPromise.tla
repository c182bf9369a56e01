---------------------------- MODULE BatchPromise ----------------------------
(***************************************************************************)
(* What a batch promises to whoever waits for it, whichever workers run    *)
(* its jobs, and however often they raise or are killed: work gets into a  *)
(* batch by a request to it or from work of the same batch that has not    *)
(* ended, a request is answered when its work is in the batch, and a file  *)
(* is handed on when all that was found inside of it is.  A batch without  *)
(* work is done.                                                           *)
(***************************************************************************)
EXTENDS Naturals

CONSTANTS
    Docs,      \* files
    Parts,     \* what else there is in files
    Contents,  \* the parts and the files inside of each
    Partial,   \* files that may be handed on before all inside of them is found
    Requests,  \* each for a file, to a batch
    NoParent

VARIABLES
    open,      \* the requests that no work has come of yet
    answered,  \* those that were answered
    work,      \* the work that has not ended
    ended,     \* the files whose work has ended
    handed     \* what was handed on, to which stage, in which batch

vars == <<open, answered, work, ended, handed>>

Stages == {"analyze", "index"}
Work(op, doc, parent, batch) == [op |-> op, doc |-> doc, parent |-> parent, batch |-> batch]
Asked(u) == Work("ingest", u.doc, NoParent, u.batch)
Inside(j) == {Work("ingest", c, j.doc, j.batch) : c \in Contents[j.doc] \intersect Docs}

Request ==
    /\ \E u \in open : open' = open \ {u} /\ work' = work \union {Asked(u)}
    /\ UNCHANGED <<answered, ended, handed>>

Refuse ==
    /\ \E u \in open : open' = open \ {u}
    /\ UNCHANGED <<answered, work, ended, handed>>

Answer ==
    /\ \E u \in Requests \ open : Asked(u) \in work \union ended /\ answered' = answered \union {u}
    /\ UNCHANGED <<open, work, ended, handed>>

Find ==
    /\ \E j \in work : j.op = "ingest" /\ \E i \in Inside(j) : work' = work \union {i}
    /\ UNCHANGED <<open, answered, ended, handed>>

HandOn ==
    /\ \E j \in work, stage \in Stages :
        /\ j.op = "ingest"
        /\ \E given \in SUBSET ({j.doc} \union (Contents[j.doc] \intersect Parts)) :
            /\ j.doc \in given \ Partial => Inside(j) \subseteq work \union ended
            /\ handed' = handed \union {<<stage, e, j.batch>> : e \in given}
        /\ work' = work \union {Work(stage, j.doc, j.parent, j.batch)}
    /\ UNCHANGED <<open, answered, ended>>

(* There may be more work like it. *)
End ==
    /\ \E j \in work :
        /\ work' \in {work, work \ {j}}
        /\ ended' = IF j.op = "ingest" THEN ended \union {j} ELSE ended
    /\ UNCHANGED <<open, answered, handed>>

Init ==
    /\ open = Requests /\ answered = {}
    /\ work = {} /\ ended = {} /\ handed = {}

Next == Request \/ Refuse \/ Answer \/ Find \/ HandOn \/ End

Spec == Init /\ [][Next]_vars
=============================================================================
