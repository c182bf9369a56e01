--------------------------- MODULE EmailThreading ---------------------------
(***************************************************************************)
(* How the emails of a dataset find the emails they reply to.  The jobs of *)
(* two emails run in any order, or at once, so each leaves a trace in the  *)
(* shared redis cache for the other: `mid-ent` maps a Message-ID to the    *)
(* emails that have it, `ent-mid` maps it to the emails that reply to it.  *)
(* Whichever comes second is to write the link: the reply into its own     *)
(* entity, the original into a fragment of the reply.                      *)
(***************************************************************************)
EXTENDS Naturals, FiniteSets

CONSTANTS
    Emails,     \* email entities
    Ids,        \* Message-IDs
    MessageId,  \* the Message-IDs of each email
    InReplyTo,  \* the Message-IDs each email replies to
    Copies,     \* how often each email is found, a job each
    Workers,    \* worker threads
    MaxFaults,  \* bound on jobs that raise and are run again
    NoEmail, NoId

ASSUME ThreadingAssumption ==
    /\ MessageId \in [Emails -> SUBSET Ids]
    /\ InReplyTo \in [Emails -> SUBSET Ids]
    /\ Copies \in [Emails -> Nat]
    /\ MaxFaults \in Nat
    /\ NoEmail \notin Emails /\ NoId \notin Ids

VARIABLES
    midEnt,  \* redis: the emails that have a Message-ID
    entMid,  \* redis: the emails that reply to a Message-ID
    own,     \* store: the links in an email's own fragment
    notes,   \* store: the fragments other emails left, one per reply and Message-ID
    todo,    \* how many jobs of each email are to run
    pc, email,  \* what each worker is doing, on which email
    ids, refs,  \* the Message-IDs it has not resolved yet
    current,    \* the Message-ID it is resolving
    links,      \* the links it has added to its own entity
    puts,       \* its writer's buffer: <<reply, Message-ID, email>>
    ended,      \* emails a job of which has succeeded
    saw,        \* `ended` as each worker's job found it
    known,      \* `ended` as the job found it that last wrote an email
    faults

cache == <<midEnt, entMid>>
store == <<own, notes>>
task == <<email, ids, refs, links>>
history == <<ended, saw, known>>
vars == <<cache, store, todo, pc, task, current, puts, history, faults>>

-----------------------------------------------------------------------------
Start(w) ==
    /\ pc[w] = "idle"
    /\ \E e \in Emails :
        /\ todo[e] > 0
        /\ todo' = [todo EXCEPT ![e] = @ - 1]
        /\ email' = [email EXCEPT ![w] = e]
        /\ ids' = [ids EXCEPT ![w] = MessageId[e]]
        /\ refs' = [refs EXCEPT ![w] = InReplyTo[e]]
        /\ saw' = [saw EXCEPT ![w] = ended]
    /\ links' = [links EXCEPT ![w] = {}]
    /\ pc' = [pc EXCEPT ![w] = "resolve"]
    /\ UNCHANGED <<cache, store, current, puts, ended, known, faults>>

(* for message_id in messageId: sadd mid-ent *)
Announce(w) ==
    /\ pc[w] = "resolve"
    /\ \E i \in ids[w] :
        /\ midEnt' = [midEnt EXCEPT ![i] = @ \union {email[w]}]
        /\ ids' = [ids EXCEPT ![w] = @ \ {i}]
        /\ current' = [current EXCEPT ![w] = i]
    /\ pc' = [pc EXCEPT ![w] = "notify"]
    /\ UNCHANGED <<entMid, store, todo, email, refs, links, puts, history, faults>>

(* Mutant: the email is looked up under its own Message-ID. *)
Notify_SwappedKeys(w) ==
    /\ pc[w] = "notify"
    /\ puts' = [puts EXCEPT ![w] = @ \union
                    {<<r, current[w], email[w]>> : r \in midEnt[current[w]] \ {email[w]}}]
    /\ pc' = [pc EXCEPT ![w] = "resolve"]
    /\ UNCHANGED <<cache, store, todo, task, current, history, faults>>

(* ... smembers ent-mid, and emit a fragment of each reply *)
Notify(w) ==
    /\ pc[w] = "notify"
    /\ puts' = [puts EXCEPT ![w] = @ \union
                    {<<r, current[w], email[w]>> : r \in entMid[current[w]] \ {email[w]}}]
    /\ pc' = [pc EXCEPT ![w] = "resolve"]
    /\ UNCHANGED <<cache, store, todo, task, current, history, faults>>

(* Mutant: the Message-ID itself is added as the link. *)
Resolve_WithoutLookup(w) ==
    /\ pc[w] = "resolve" /\ ids[w] = {}
    /\ \E i \in refs[w] :
        /\ links' = [links EXCEPT ![w] = @ \union {i}]
        /\ refs' = [refs EXCEPT ![w] = @ \ {i}]
        /\ current' = [current EXCEPT ![w] = i]
    /\ pc' = [pc EXCEPT ![w] = "await"]
    /\ UNCHANGED <<cache, store, todo, email, ids, puts, history, faults>>

(* for message_id in inReplyTo: smembers mid-ent, and add them as links *)
Resolve(w) ==
    /\ pc[w] = "resolve" /\ ids[w] = {}
    /\ \E i \in refs[w] :
        /\ links' = [links EXCEPT ![w] = @ \union (midEnt[i] \ {email[w]})]
        /\ refs' = [refs EXCEPT ![w] = @ \ {i}]
        /\ current' = [current EXCEPT ![w] = i]
    /\ pc' = [pc EXCEPT ![w] = "await"]
    /\ UNCHANGED <<cache, store, todo, email, ids, puts, history, faults>>

(* Mutant: the reply does not prepare for the message to come. *)
Await_Skipped(w) ==
    /\ pc[w] = "await"
    /\ pc' = [pc EXCEPT ![w] = "resolve"]
    /\ UNCHANGED <<cache, store, todo, task, current, puts, history, faults>>

(* ... sadd ent-mid *)
Await(w) ==
    /\ pc[w] = "await"
    /\ entMid' = [entMid EXCEPT ![current[w]] = @ \union {email[w]}]
    /\ pc' = [pc EXCEPT ![w] = "resolve"]
    /\ UNCHANGED <<midEnt, store, todo, task, current, puts, history, faults>>

(* Manager.finalize: both kinds of fragments supersede what was there. *)
Finalize(w) ==
    /\ own' = [own EXCEPT ![email[w]] = links[w]]
    /\ notes' = [r \in Emails |-> [i \in Ids |->
                    LET new == {p \in puts[w] : p[1] = r /\ p[2] = i}
                    IN IF new = {} THEN notes[r][i] ELSE {p[3] : p \in new}]]
    /\ puts' = [puts EXCEPT ![w] = {}]
    /\ known' = [known EXCEPT ![email[w]] = saw[w]]
    /\ pc' = [pc EXCEPT ![w] = "idle"]

Succeed(w) ==
    /\ pc[w] = "resolve" /\ ids[w] = {} /\ refs[w] = {}
    /\ Finalize(w)
    /\ ended' = ended \union {email[w]}
    /\ UNCHANGED <<cache, todo, task, current, saw, faults>>

(* The ingestor raises before it is through: what it has is written, and the *)
(* job runs again (the bound on faults stays below the retries of a job).    *)
Raise(w) ==
    /\ pc[w] # "idle" /\ faults < MaxFaults
    /\ faults' = faults + 1
    /\ Finalize(w)
    /\ todo' = [todo EXCEPT ![email[w]] = @ + 1]
    /\ UNCHANGED <<cache, task, current, ended, saw>>

Ended == (\A e \in Emails : todo[e] = 0) /\ (\A w \in Workers : pc[w] = "idle")

Init ==
    /\ midEnt = [i \in Ids |-> {}] /\ entMid = [i \in Ids |-> {}]
    /\ own = [e \in Emails |-> {}]
    /\ notes = [e \in Emails |-> [i \in Ids |-> {}]]
    /\ todo = Copies
    /\ pc = [w \in Workers |-> "idle"]
    /\ email = [w \in Workers |-> NoEmail]
    /\ ids = [w \in Workers |-> {}] /\ refs = [w \in Workers |-> {}]
    /\ current = [w \in Workers |-> NoId]
    /\ links = [w \in Workers |-> {}] /\ puts = [w \in Workers |-> {}]
    /\ ended = {} /\ saw = [w \in Workers |-> {}] /\ known = [e \in Emails |-> {}]
    /\ faults = 0

Next ==
    \/ \E w \in Workers :
        \/ Start(w) \/ Announce(w) \/ Notify(w) \/ Resolve(w) \/ Await(w)
        \/ Succeed(w) \/ Raise(w)
    \/ Ended /\ UNCHANGED vars

Spec == Init /\ [][Next]_vars

-----------------------------------------------------------------------------
(* Properties *)

TypeOK ==
    /\ midEnt \in [Ids -> SUBSET Emails] /\ entMid \in [Ids -> SUBSET Emails]
    /\ own \in [Emails -> SUBSET Emails]
    /\ notes \in [Emails -> [Ids -> SUBSET Emails]]
    /\ todo \in [Emails -> Nat]
    /\ pc \in [Workers -> {"idle", "resolve", "notify", "await"}]
    /\ email \in [Workers -> Emails \union {NoEmail}]
    /\ ids \in [Workers -> SUBSET Ids] /\ refs \in [Workers -> SUBSET Ids]
    /\ current \in [Workers -> Ids \union {NoId}]
    /\ links \in [Workers -> SUBSET Emails]
    /\ puts \in [Workers -> SUBSET (Emails \X Ids \X Emails)]
    /\ ended \subseteq Emails /\ saw \in [Workers -> SUBSET Emails]
    /\ known \in [Emails -> SUBSET Emails]
    /\ faults \in 0..MaxFaults

Answers(r, e) == r # e /\ InReplyTo[r] \intersect MessageId[e] # {}
Linked(r, e) == e \in own[r] \union UNION {notes[r][i] : i \in Ids}

(* The jobs of the email have ended, the last one well. *)
Settled(e) == e \in ended /\ todo[e] = 0 /\ \A w \in Workers : pc[w] # "idle" => email[w] # e

(* An email is only ever linked to an email it replies to, and never to     *)
(* itself, however the jobs that share the cache interleave                 *)
(* (email.py:228-251).                                                      *)
LinksAreReplies == \A r, e \in Emails : Linked(r, e) => Answers(r, e)

(* A reply that was last written by a job that started after a job of the   *)
(* original had ended is linked to it; so is one whose original came later, *)
(* if no other email claims the same Message-ID (email.py:243-251).         *)
LaterIsLinked ==
    \A r, e \in Emails : Answers(r, e) /\ Settled(r) /\ Settled(e) =>
        /\ e \in known[r] => Linked(r, e)
        /\ r \in known[e]
           /\ (\A x \in Emails \ {e} : MessageId[x] \intersect MessageId[e] = {}) =>
            Linked(r, e)

(* Every reply is linked to every email it replies to once their jobs have  *)
(* ended, whichever came first: forward, or backward for a message that is  *)
(* still to come (email.py:244, 250).                                       *)
RepliesAreLinked ==
    \A r, e \in Emails : Answers(r, e) /\ Settled(r) /\ Settled(e) => Linked(r, e)

=============================================================================
