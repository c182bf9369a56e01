-------------------------- MODULE MCEmailThreading --------------------------
(***************************************************************************)
(* Small mail folders: a thread of two replies, and a message that is in   *)
(* the dataset twice (an inbox and a sent folder), as two entities.        *)
(***************************************************************************)
EXTENDS EmailThreading, TLC

CONSTANTS first, second, third, m1, m2

MCEmails == {first, second, third}
MCIds == {m1, m2}

(* `second` answers `first`, `third` answers both and, oddly, itself. *)
ThreadMessageId == (first :> {m1}) @@ (second :> {m2}) @@ (third :> {m2})
ThreadInReplyTo == (first :> {}) @@ (second :> {m1}) @@ (third :> {m1, m2})
ThreadCopies == (first :> 1) @@ (second :> 2) @@ (third :> 1)

(* `third` answers a message found twice, as `first` and as `second`. *)
SentMessageId == (first :> {m1}) @@ (second :> {m1}) @@ (third :> {m2})
SentInReplyTo == (first :> {}) @@ (second :> {}) @@ (third :> {m1})
SentCopies == [e \in MCEmails |-> 1]

(* `second` answers `first`; `third` has nothing to do with them. *)
PairMessageId == (first :> {m1}) @@ (second :> {m2}) @@ (third :> {})
PairInReplyTo == (first :> {}) @@ (second :> {m1}) @@ (third :> {})

WorkerSymmetry == Permutations(Workers)
=============================================================================
