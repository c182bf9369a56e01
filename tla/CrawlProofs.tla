---------------------------- MODULE CrawlProofs ----------------------------
(***************************************************************************)
(* Proofs about Crawl: the types, with the bound of the pool; that a run   *)
(* which ends is complete; that a run loses at most one file; and that it  *)
(* implements CrawlPromise.                                                *)
(*                                                                         *)
(* All rest on InOrder: the file at hand, those of the pool and those      *)
(* ahead of the walk follow one another in the order of the walk, so that  *)
(* each file is at one place and is queued once per run.                   *)
(***************************************************************************)
EXTENDS Crawl, FiniteSetTheorems, TLAPS

USE CrawlAssumption

-----------------------------------------------------------------------------
(* Sequences in the order of the walk *)

(* The walk reaches `f` first; so it goes for a sequence of files.          *)
Before(f, g) == Promise!Before(f, g)
Ordered(s) == \A i, j \in DOMAIN s : i < j => Before(s[i], s[j])

(* The walk reaches an entry once. *)
LEMMA WalkIsOrdered == Ordered(Walk) /\ \A f : ~Before(f, f)
  BY DEF Ordered, Before, Promise!Before, IsInjective

(* What is left of a sequence in order is in order, and after its head. *)
LEMMA TailIsOrdered ==
    ASSUME NEW S, NEW s \in Seq(S), s # <<>>, Ordered(s)
    PROVE  /\ Tail(s) \in Seq(S) /\ Len(Tail(s)) = Len(s) - 1
           /\ Head(s) \in S /\ Head(s) \notin ToSet(Tail(s))
           /\ ToSet(s) = {Head(s)} \union ToSet(Tail(s))
           /\ Ordered(Tail(s))
           /\ \A g \in ToSet(Tail(s)) : Before(Head(s), g)
<1>1. /\ Tail(s) \in Seq(S) /\ Len(Tail(s)) = Len(s) - 1 /\ Head(s) \in S /\ Len(s) > 0
      /\ Head(s) = s[1]
      /\ \A i \in 1..(Len(s) - 1) : Tail(s)[i] = s[i + 1]
  OBVIOUS
<1>2. ToSet(s) = {Head(s)} \union ToSet(Tail(s))
  <2>1. ASSUME NEW i \in 1..Len(s), i # 1 PROVE s[i] \in ToSet(Tail(s))
    <3>1. i - 1 \in 1..(Len(s) - 1) /\ (i - 1) + 1 = i
      BY <1>1, <2>1
    <3>2. Tail(s)[i - 1] = s[i]
      BY <1>1, <3>1
    <3>3. i - 1 \in DOMAIN Tail(s)
      BY <1>1, <3>1
    <3> QED BY <3>2, <3>3 DEF ToSet
  <2>2. ToSet(Tail(s)) \subseteq ToSet(s)
    BY <1>1 DEF ToSet
  <2>3. Head(s) \in ToSet(s)
    BY <1>1 DEF ToSet
  <2>4. ASSUME NEW x \in ToSet(s) PROVE x \in {Head(s)} \union ToSet(Tail(s))
    <3>1. PICK i \in 1..Len(s) : x = s[i]
      BY <2>4 DEF ToSet
    <3> QED BY <1>1, <2>1, <3>1
  <2> QED BY <2>2, <2>3, <2>4
<1>3. Ordered(Tail(s))
  BY <1>1 DEF Ordered
<1>4. \A g \in ToSet(Tail(s)) : Before(Head(s), g)
  BY <1>1 DEF Ordered, ToSet
<1> QED BY <1>1, <1>2, <1>3, <1>4, WalkIsOrdered

(* What is appended to a sequence is in it.                                 *)
LEMMA AppendAdds ==
    ASSUME NEW S, NEW s \in Seq(S), NEW e \in S
    PROVE  ToSet(Append(s, e)) = ToSet(s) \union {e}
<1>1. /\ \A i \in 1..Len(s) : Append(s, e)[i] = s[i]
      /\ Append(s, e)[Len(s) + 1] = e
      /\ DOMAIN s = 1..Len(s) /\ DOMAIN Append(s, e) = 1..(Len(s) + 1)
      /\ Len(s) \in Nat
  OBVIOUS
<1>2. ToSet(Append(s, e)) \subseteq ToSet(s) \union {e}
  BY <1>1 DEF ToSet
<1>3. ToSet(s) \union {e} \subseteq ToSet(Append(s, e))
  BY <1>1 DEF ToSet
<1> QED BY <1>2, <1>3

(* A sequence in order stays so when what follows it is appended. *)
LEMMA AppendIsOrdered ==
    ASSUME NEW S, NEW s \in Seq(S), NEW e \in S, Ordered(s), \A g \in ToSet(s) : Before(g, e)
    PROVE  /\ Append(s, e) \in Seq(S) /\ Len(Append(s, e)) = Len(s) + 1
           /\ ToSet(Append(s, e)) = ToSet(s) \union {e}
           /\ Ordered(Append(s, e))
<1>1. /\ Append(s, e) \in Seq(S) /\ Len(Append(s, e)) = Len(s) + 1
      /\ \A i \in 1..Len(s) : Append(s, e)[i] = s[i]
      /\ Append(s, e)[Len(s) + 1] = e
      /\ DOMAIN s = 1..Len(s) /\ DOMAIN Append(s, e) = 1..(Len(s) + 1)
      /\ Len(s) \in Nat
  OBVIOUS
<1>2. ToSet(Append(s, e)) = ToSet(s) \union {e}
  BY AppendAdds
<1>3. Ordered(Append(s, e))
  BY <1>1 DEF Ordered, ToSet
<1> QED BY <1>1, <1>2, <1>3

(* Removing one place of a sequence leaves the elements of the others. *)
LEMMA RemovalKeeps ==
    ASSUME NEW S, NEW s \in Seq(S), NEW i \in 1..Len(s)
    PROVE  RemoveAt(s, i) \in Seq(S) /\ ToSet(s) \ {s[i]} \subseteq ToSet(RemoveAt(s, i))
<1> DEFINE before == SubSeq(s, 1, i - 1)
           after == SubSeq(s, i + 1, Len(s))
<1>1. /\ before \in Seq(S) /\ Len(before) = i - 1
      /\ \A k \in 1..(i - 1) : before[k] = s[k]
  OBVIOUS
<1>2. /\ after \in Seq(S) /\ Len(after) = Len(s) - i
      /\ \A k \in 1..(Len(s) - i) : after[k] = s[i + k]
  OBVIOUS
<1> HIDE DEF before, after
<1>3. /\ before \o after \in Seq(S) /\ Len(before \o after) = Len(s) - 1
      /\ \A k \in 1..(i - 1) : (before \o after)[k] = s[k]
      /\ \A k \in 1..(Len(s) - i) : (before \o after)[i - 1 + k] = s[i + k]
  <2> DEFINE joined == before \o after
  <2>1. joined \in Seq(S) /\ Len(joined) = Len(before) + Len(after)
    <3>1. before \in Seq(S) /\ after \in Seq(S)
      BY <1>1, <1>2
    <3>2. \A a, b \in Seq(S) : a \o b \in Seq(S) /\ Len(a \o b) = Len(a) + Len(b)
      OBVIOUS
    <3> QED BY <3>1, <3>2, Zenon
  <2>2. Len(joined) = Len(s) - 1
    BY <1>1, <1>2, <2>1
  <2>3. ASSUME NEW k \in 1..(i - 1) PROVE joined[k] = s[k]
    <3>1. joined[k] = before[k]
      BY <1>1, <1>2
    <3> QED BY <1>1, <3>1
  <2>4. ASSUME NEW k \in 1..(Len(s) - i) PROVE joined[i - 1 + k] = s[i + k]
    <3>1. joined[Len(before) + k] = after[k]
      BY <1>1, <1>2
    <3> QED BY <1>1, <1>2, <3>1
  <2> QED BY <2>1, <2>2, <2>3, <2>4
<1>4. RemoveAt(s, i) = before \o after
  BY DEF RemoveAt, before, after
<1>5. ASSUME NEW k \in 1..Len(s), k # i PROVE s[k] \in ToSet(before \o after)
  <2>1. CASE k < i
    <3>1. k \in 1..(i - 1) /\ k \in DOMAIN (before \o after)
      BY <1>3, <2>1
    <3>2. (before \o after)[k] = s[k]
      BY <1>3, <3>1
    <3> QED BY <3>1, <3>2 DEF ToSet
  <2>2. CASE k > i
    <3>1. PICK n \in 1..(Len(s) - i) : k = i + n
      <4>1. k - i \in 1..(Len(s) - i) /\ k = i + (k - i)
        BY <2>2
      <4> QED BY <4>1
    <3>2. (before \o after)[i - 1 + n] = s[k]
      BY <1>3, <3>1
    <3>3. i - 1 + n \in DOMAIN (before \o after)
      BY <1>3
    <3> QED BY <3>2, <3>3 DEF ToSet
  <2> QED BY <1>5, <2>1, <2>2
<1>6. ToSet(s) = {s[k] : k \in 1..Len(s)}
  BY DEF ToSet
<1> QED BY <1>3, <1>4, <1>5, <1>6

(* What a sequence holds is of its type. *)
LEMMA ElementsTyped == ASSUME NEW S, NEW s \in Seq(S) PROVE ToSet(s) \subseteq S
  BY DEF ToSet

(* The empty sequence is in order.                                         *)
LEMMA EmptyHoldsNothing == ToSet(<<>>) = {} /\ Ordered(<<>>) /\ Len(<<>>) = 0
  BY DEF ToSet, Ordered

-----------------------------------------------------------------------------
(* Types *)

(* A run at work, and the files it has before it.                          *)
Running == {"walk", "await", "record", "defer"}
Waiting == {child} \union ToSet(pending) \union ToSet(rest)

(* The file at hand comes before the pool's, these before the walk's.      *)
InOrder ==
    /\ Ordered(pending) /\ Ordered(rest)
    /\ \A f \in ToSet(pending), g \in ToSet(rest) : Before(f, g)
    /\ child # NoFile => \A g \in ToSet(pending) \union ToSet(rest) : Before(child, g)

(* A run that is over waits for nothing, and one thread fills no pool.     *)
AtRest ==
    /\ pc = "off" => rest = <<>>
    /\ pc = "off" \/ threads < 2 => pending = <<>>
    /\ pc \in {"off", "walk"} => child = NoFile
    /\ pc \in {"await", "record", "defer"} => child \in Files

(* A file is queued and a failure counted at most once per run.            *)
OncePerRun ==
    /\ \A f \in Files : queued[f] <= runs /\ (f \in Waiting => queued[f] < runs)
    /\ failures <= runs /\ (pc # "off" => failures < runs)

TypeInv == TypeOK /\ InOrder /\ AtRest /\ OncePerRun

(* What the walk and the pool have at their head, and what follows it.      *)
LEMMA RestTail ==
    ASSUME TypeInv, rest # <<>>
    PROVE  /\ Tail(rest) \in Seq(Files \union Folders)
           /\ Head(rest) \in Files \union Folders /\ Head(rest) \notin ToSet(Tail(rest))
           /\ ToSet(rest) = {Head(rest)} \union ToSet(Tail(rest))
           /\ Ordered(Tail(rest))
           /\ \A g \in ToSet(Tail(rest)) : Before(Head(rest), g)
<1>1. rest \in Seq(Files \union Folders) /\ Ordered(rest)
  BY DEF TypeInv, TypeOK, InOrder
<1> QED BY <1>1, TailIsOrdered

(* The same of the pool.                                                   *)
LEMMA PendingTail ==
    ASSUME TypeInv, pending # <<>>
    PROVE  /\ Tail(pending) \in Seq(Files) /\ Len(Tail(pending)) = Len(pending) - 1
           /\ Head(pending) \in Files /\ Head(pending) \notin ToSet(Tail(pending))
           /\ ToSet(pending) = {Head(pending)} \union ToSet(Tail(pending))
           /\ Ordered(Tail(pending))
           /\ \A g \in ToSet(Tail(pending)) : Before(Head(pending), g)
<1>1. pending \in Seq(Files) /\ Ordered(pending)
  BY DEF TypeInv, TypeOK, InOrder
<1> QED BY <1>1, TailIsOrdered

(* What is emitted is recorded or to be flushed, and nothing is dropped.    *)
LEMMA EmitKeeps ==
    ASSUME TypeOK, NEW records \in SUBSET Files, Emit(records)
    PROVE  /\ recorded' \subseteq Files /\ unwritten' \subseteq Files
           /\ count' \in 0..(FlushSize - 1)
           /\ recorded' \union unwritten' = recorded \union unwritten \union records
<1>1. \A n \in Nat : (n + 1) % FlushSize \in 0..(FlushSize - 1)
  OBVIOUS
<1>2. count \in Nat
  BY DEF TypeOK
<1>3. count' \in 0..(FlushSize - 1)
  BY <1>1, <1>2 DEF Emit
<1> QED BY <1>3 DEF TypeOK, Emit

(* The types hold before the first run.                                    *)
LEMMA TypeInit == Init => TypeInv
<1> SUFFICES ASSUME Init PROVE TypeInv
  OBVIOUS
<1>1. TypeOK
  <2>1. 0 <= 2 * threads + 1 /\ 0 \in 0..(FlushSize - 1)
    BY DEF Init
  <2>2. pending = <<>> => Len(pending) <= 2 * threads + 1
    BY <2>1, EmptyHoldsNothing
  <2>3. queued \in [Files -> 0..MaxRuns] /\ runs \in 0..MaxRuns /\ failures \in 0..MaxRuns
       /\ faults \in 0..MaxFaults /\ crashes \in 0..MaxCrashes
    BY DEF Init
  <2>5. /\ recorded \subseteq Files /\ archive \subseteq Files /\ skip \subseteq Files
        /\ broken \subseteq Files /\ unwritten \subseteq Files /\ mine \subseteq Files
        /\ pc \in Steps /\ child \in Files \union {NoFile} /\ complete \in BOOLEAN
        /\ threads \in ThreadCounts /\ count \in 0..(FlushSize - 1)
    BY <2>1 DEF Init, Steps
  <2>4. rest \in Seq(Files \union Folders) /\ pending \in Seq(Files) /\ storing \in Seq(Files)
    BY DEF Init
  <2> QED BY <2>2, <2>3, <2>4, <2>5 DEF Init, TypeOK
<1>2. InOrder /\ AtRest
  BY EmptyHoldsNothing DEF Init, InOrder, AtRest
<1>3. OncePerRun
  BY EmptyHoldsNothing DEF Init, OncePerRun, Waiting
<1> QED BY <1>1, <1>2, <1>3 DEF TypeInv

(* Every step keeps the types and the order: one lemma per kind of step.   *)

(* A run begins at the head of the walk, with nothing in its pool.         *)
LEMMA StartTypes == ASSUME TypeInv, Start PROVE TypeInv'
<1>1. rest' = Walk /\ pending' = <<>> /\ storing' = <<>> /\ child' = NoFile
  BY DEF Start, TypeInv, AtRest
<1>2. Ordered(rest') /\ Ordered(pending') /\ ToSet(pending') = {} /\ Len(pending') = 0
  BY <1>1, WalkIsOrdered, EmptyHoldsNothing
<1>3. threads' \in ThreadCounts /\ threads' \in Nat
  BY DEF Start
<1>4. runs' \in 0..MaxRuns
  BY DEF Start, TypeInv, TypeOK
<1>5. \A n \in Nat : 0 <= 2 * n + 1
  OBVIOUS
<1>6. Len(pending') <= 2 * threads' + 1
  BY <1>2, <1>3, <1>5
<1>7. 0 \in 0..(FlushSize - 1)
  OBVIOUS
<1>8. pending' \in Seq(Files) /\ storing' \in Seq(Files) /\ rest' \in Seq(Files \union Folders)
  BY <1>1
<1>9. TypeOK'
  BY <1>4, <1>6, <1>7, <1>8 DEF Start, outcome, stored, losses, TypeInv, TypeOK, Steps
<1>10. InOrder'
  BY <1>2 DEF Start, TypeInv, InOrder, AtRest
<1>11. AtRest'
  BY DEF Start, TypeInv, AtRest
<1>12. OncePerRun'
  BY DEF Start, outcome, stored, TypeInv, OncePerRun, Waiting, TypeOK
<1> QED BY <1>9, <1>10, <1>11, <1>12 DEF TypeInv

(* The walk goes past a folder.                                            *)
LEMMA FolderTypes == ASSUME TypeInv, WalkFolder PROVE TypeInv'
<1>1. rest # <<>> /\ rest' = Tail(rest)
  BY DEF WalkFolder, Advance
<1>2. /\ rest' \in Seq(Files \union Folders) /\ Ordered(rest')
      /\ Head(rest) \notin ToSet(rest') /\ ToSet(rest) = {Head(rest)} \union ToSet(rest')
      /\ \A g \in ToSet(rest') : Before(Head(rest), g)
  BY <1>1, RestTail
<1>3. recorded' \subseteq Files /\ unwritten' \subseteq Files /\ count' \in 0..(FlushSize - 1)
  BY EmitKeeps DEF WalkFolder, TypeInv
<1>4. TypeOK'
  BY <1>2, <1>3 DEF WalkFolder, run, stored, pool, history, losses, TypeInv, TypeOK
<1>5. InOrder'
  BY <1>2 DEF WalkFolder, pool, TypeInv, InOrder
<1>6. AtRest'
  BY DEF WalkFolder, run, pool, TypeInv, AtRest
<1>7. OncePerRun'
  BY <1>2 DEF WalkFolder, pool, history, TypeInv, OncePerRun, Waiting
<1> QED BY <1>4, <1>5, <1>6, <1>7 DEF TypeInv

(* The walk goes past a file it leaves out.                                *)
LEMMA SkippedTypes == ASSUME TypeInv, WalkSkipped PROVE TypeInv'
<1>1. rest # <<>> /\ rest' = Tail(rest)
  BY DEF WalkSkipped, Advance
<1>2. /\ rest' \in Seq(Files \union Folders) /\ Ordered(rest')
      /\ Head(rest) \notin ToSet(rest') /\ ToSet(rest) = {Head(rest)} \union ToSet(rest')
      /\ \A g \in ToSet(rest') : Before(Head(rest), g)
  BY <1>1, RestTail
<1>3. TypeOK'
  BY <1>2 DEF WalkSkipped, outcome, stored, run, pool, history, losses, TypeInv, TypeOK
<1>4. InOrder'
  BY <1>2 DEF WalkSkipped, pool, TypeInv, InOrder
<1>5. AtRest'
  BY DEF WalkSkipped, run, pool, TypeInv, AtRest
<1>6. OncePerRun'
  BY <1>2 DEF WalkSkipped, outcome, stored, pool, history, TypeInv, OncePerRun, Waiting
<1> QED BY <1>3, <1>4, <1>5, <1>6 DEF TypeInv

(* The file that is stored is the one the walk has reached.                *)
LEMMA StoreTypes == ASSUME TypeInv, StoreFile PROVE TypeInv'
<1>1. rest # <<>> /\ rest' = Tail(rest)
  BY DEF StoreFile, Advance
<1>2. /\ rest' \in Seq(Files \union Folders) /\ Ordered(rest')
      /\ Head(rest) \notin ToSet(rest') /\ ToSet(rest) = {Head(rest)} \union ToSet(rest')
      /\ \A g \in ToSet(rest') : Before(Head(rest), g)
  BY <1>1, RestTail
<1>3. pending = <<>> /\ ToSet(pending) = {} /\ Head(rest) \in Files
  BY EmptyHoldsNothing DEF StoreFile, TypeInv, AtRest
<1>4. TypeOK'
  BY <1>2 DEF StoreFile, Store, run, pool, history, losses, TypeInv, TypeOK, Steps
<1>5. InOrder'
  BY <1>2, <1>3 DEF StoreFile, pool, TypeInv, InOrder
<1>6. AtRest'
  BY DEF StoreFile, pool, TypeInv, AtRest
<1>7. OncePerRun'
  BY <1>2 DEF StoreFile, pool, history, TypeInv, OncePerRun, Waiting
<1> QED BY <1>4, <1>5, <1>6, <1>7 DEF TypeInv

(* A file that is submitted goes from the walk to the end of the pool.     *)
LEMMA SubmitTypes == ASSUME TypeInv, SubmitFile PROVE TypeInv'
<1>1. rest # <<>> /\ rest' = Tail(rest)
  BY DEF SubmitFile, Advance
<1>2. /\ rest' \in Seq(Files \union Folders) /\ Ordered(rest')
      /\ Head(rest) \notin ToSet(rest') /\ ToSet(rest) = {Head(rest)} \union ToSet(rest')
      /\ \A g \in ToSet(rest') : Before(Head(rest), g)
  BY <1>1, RestTail
<1>3. /\ pending \in Seq(Files) /\ storing \in Seq(Files)
      /\ Head(rest) \in Files /\ Head(rest) \in ToSet(rest)
  BY <1>2 DEF SubmitFile, TypeInv, TypeOK
<1>4. /\ pending' \in Seq(Files) /\ Len(pending') = Len(pending) + 1 /\ Ordered(pending')
      /\ ToSet(pending') = ToSet(pending) \union {Head(rest)}
  BY <1>3, AppendIsOrdered DEF SubmitFile, TypeInv, InOrder
<1>5. threads' = threads /\ threads \in Nat /\ Len(pending) <= 2 * threads
  BY DEF SubmitFile, Drained, run, TypeInv, TypeOK
<1>6. storing' \in Seq(Files)
  BY <1>3 DEF SubmitFile
<1>7. Len(pending') <= 2 * threads' + 1
  BY <1>3, <1>4, <1>5
<1>8. TypeOK'
  BY <1>2, <1>4, <1>6, <1>7 DEF SubmitFile, outcome, stored, run, history, losses, TypeInv, TypeOK
<1>9. InOrder'
  BY <1>2, <1>4 DEF SubmitFile, TypeInv, InOrder
<1>10. AtRest'
  BY DEF SubmitFile, run, TypeInv, AtRest, TypeOK
<1>11. OncePerRun'
  BY <1>2, <1>4 DEF SubmitFile, outcome, stored, history, TypeInv, OncePerRun, Waiting
<1> QED BY <1>8, <1>9, <1>10, <1>11 DEF TypeInv

(* The oldest file of the pool becomes the one at hand.                    *)
LEMMA TakeTypes == ASSUME TypeInv, Take PROVE TypeInv'
<1>1. threads \in Nat /\ Keep \in Nat /\ Len(pending) > Keep /\ pending # <<>>
  BY DEF Take, Keep, TypeInv, TypeOK
<1>2. /\ pending' \in Seq(Files) /\ Len(pending') = Len(pending) - 1 /\ Ordered(pending')
      /\ child' \in Files /\ child' \notin ToSet(pending')
      /\ ToSet(pending) = {child'} \union ToSet(pending')
      /\ \A g \in ToSet(pending') : Before(child', g)
  BY <1>1, PendingTail DEF Take
<1>3. TypeOK'
  BY <1>1, <1>2 DEF Take, outcome, stored, run, history, losses, TypeInv, TypeOK, Steps
<1>4. InOrder'
  BY <1>2 DEF Take, TypeInv, InOrder
<1>5. AtRest'
  BY <1>2 DEF Take, run, TypeInv, AtRest
<1>6. OncePerRun'
  BY <1>2 DEF Take, outcome, stored, history, TypeInv, OncePerRun, Waiting
<1> QED BY <1>3, <1>4, <1>5, <1>6 DEF TypeInv

(* The store of the file at hand is over.                                  *)
LEMMA AwaitTypes == ASSUME TypeInv, Await PROVE TypeInv'
<1>1. TypeOK'
  BY DEF Await, outcome, stored, run, pool, history, losses, TypeInv, TypeOK, Steps
<1>2. InOrder'
  BY DEF Await, pool, TypeInv, InOrder
<1>3. AtRest'
  BY DEF Await, run, pool, TypeInv, AtRest
<1>4. OncePerRun'
  BY DEF Await, outcome, stored, pool, history, TypeInv, OncePerRun, Waiting
<1> QED BY <1>1, <1>2, <1>3, <1>4 DEF TypeInv

(* The file at hand is recorded.                                           *)
LEMMA RecordTypes == ASSUME TypeInv, Record PROVE TypeInv'
<1>1. child \in Files
  BY DEF Record, TypeInv, AtRest
<1>2. recorded' \subseteq Files /\ unwritten' \subseteq Files /\ count' \in 0..(FlushSize - 1)
  BY <1>1, EmitKeeps DEF Record, TypeInv
<1>3. TypeOK'
  BY <1>2 DEF Record, run, stored, pool, history, losses, TypeInv, TypeOK, Steps
<1>4. InOrder'
  BY DEF Record, pool, TypeInv, InOrder
<1>5. AtRest'
  BY DEF Record, run, pool, TypeInv, AtRest
<1>6. OncePerRun'
  BY DEF Record, pool, history, TypeInv, OncePerRun, Waiting
<1> QED BY <1>3, <1>4, <1>5, <1>6 DEF TypeInv

(* The file at hand, which comes before all others, is queued.             *)
LEMMA DeferTypes == ASSUME TypeInv, Defer PROVE TypeInv'
<1>1. child \in Files /\ child # NoFile /\ child' = NoFile /\ pending' = pending /\ rest' = rest
  BY DEF Defer, TypeInv, AtRest, pool
<1>2. child \notin ToSet(pending) \union ToSet(rest)
  BY <1>1, WalkIsOrdered DEF TypeInv, InOrder
<1>3. queued[child] + 1 <= runs /\ queued[child] \in Nat /\ runs <= MaxRuns
  BY <1>1 DEF TypeInv, OncePerRun, Waiting, TypeOK
<1>4. /\ \A f \in Files \ {child} : queued'[f] = queued[f]
      /\ queued'[child] = queued[child] + 1
      /\ queued' \in [Files -> 0..MaxRuns]
  BY <1>1, <1>3 DEF Defer, TypeInv, TypeOK
<1>5. TypeOK'
  BY <1>4 DEF Defer, run, stored, pool, losses, TypeInv, TypeOK, Steps
<1>6. InOrder'
  BY DEF Defer, pool, TypeInv, InOrder
<1>7. AtRest'
  BY DEF Defer, run, pool, TypeInv, AtRest
<1>8. OncePerRun'
  BY <1>1, <1>2 DEF Defer, TypeInv, OncePerRun, Waiting, TypeOK
<1> QED BY <1>5, <1>6, <1>7, <1>8 DEF TypeInv

(* A run ends when the walk and the pool are through.                      *)
LEMMA CloseTypes == ASSUME TypeInv, Close PROVE TypeInv'
<1>1. TypeOK'
  BY DEF Close, Flush, run, stored, pool, losses, TypeInv, TypeOK, Steps
<1>2. InOrder'
  BY DEF Close, Flush, pool, TypeInv, InOrder
<1>3. AtRest'
  BY DEF Close, Flush, pool, TypeInv, AtRest
<1>4. OncePerRun'
  BY DEF Close, Flush, pool, TypeInv, OncePerRun, Waiting
<1> QED BY <1>1, <1>2, <1>3, <1>4 DEF TypeInv

(* A file leaves the threads of the pool, stored or not.                   *)
LEMMA PoolTypes == ASSUME TypeInv, PoolStore \/ PoolRaise PROVE TypeInv'
<1>1. PICK i \in 1..Len(storing) : /\ storing' = RemoveAt(storing, i)
                                /\ archive' \subseteq archive \union {storing[i]}
                                /\ missing' \subseteq missing \union Irregular
                                /\ broken' \subseteq broken \union {storing[i]}
  BY DEF PoolStore, Store, PoolRaise, InFlight, outcome, stored, pool
<1>2. storing \in Seq(Files) /\ storing[i] \in Files
  BY <1>1 DEF TypeInv, TypeOK
<1>3. storing' \in Seq(Files)
  BY <1>1, <1>2, RemovalKeeps
<1>4. archive' \subseteq Files /\ missing' \subseteq Irregular /\ broken' \subseteq Files
  BY <1>1, <1>2 DEF TypeInv, TypeOK
<1>5. faults' \in 0..MaxFaults
  <2>1. MaxFaults \in Nat /\ faults \in 0..MaxFaults
    BY DEF TypeInv, TypeOK
  <2>2. faults' = faults \/ (faults < MaxFaults /\ faults' = faults + 1)
    BY DEF PoolStore, PoolRaise, losses
  <2> QED BY <2>1, <2>2
<1>6. TypeOK'
  BY <1>3, <1>4, <1>5 DEF PoolStore, PoolRaise, outcome, stored, run, history, losses, TypeInv, TypeOK
<1>7. InOrder'
  BY DEF PoolStore, PoolRaise, TypeInv, InOrder
<1>8. AtRest'
  BY DEF PoolStore, PoolRaise, run, TypeInv, AtRest
<1>9. OncePerRun'
  BY DEF PoolStore, PoolRaise, outcome, stored, history, TypeInv, OncePerRun, Waiting
<1> QED BY <1>6, <1>7, <1>8, <1>9 DEF TypeInv

(* An exception is on its way out of the run.                              *)
LEMMA RaiseTypes == ASSUME TypeInv, Raise PROVE TypeInv'
<1>1. TypeOK'
  BY DEF Raise, outcome, stored, run, pool, history, TypeInv, TypeOK, Steps
<1>2. InOrder'
  BY DEF Raise, pool, TypeInv, InOrder
<1>3. AtRest'
  BY DEF Raise, run, pool, TypeInv, AtRest
<1>4. OncePerRun'
  BY DEF Raise, outcome, stored, pool, history, TypeInv, OncePerRun, Waiting
<1> QED BY <1>1, <1>2, <1>3, <1>4 DEF TypeInv

(* A run that fails or is killed waits for nothing.                        *)
LEMMA LoseTypes == ASSUME TypeInv, Fail \/ Crash PROVE TypeInv'
<1>1. failures' = failures + 1 /\ failures + 1 \in 0..MaxRuns /\ failures + 1 <= runs
  BY DEF Fail, Crash, Lose, TypeInv, TypeOK, OncePerRun
<1>2. /\ rest' = <<>> /\ pending' = <<>> /\ storing' = <<>> /\ child' = NoFile /\ ToSet(<<>>) = {}
      /\ threads' \in Nat /\ Ordered(<<>>) /\ Len(<<>>) = 0
  BY EmptyHoldsNothing DEF Fail, Crash, Lose, TypeInv, TypeOK, run
<1>3. crashes' \in 0..MaxCrashes /\ faults' \in 0..MaxFaults
  <2>1. crashes \in 0..MaxCrashes /\ faults \in 0..MaxFaults
    BY DEF TypeInv, TypeOK
  <2>2. CASE Fail
    BY <2>1, <2>2 DEF Fail, losses
  <2>3. CASE Crash
    <3>1. crashes < MaxCrashes /\ crashes' = crashes + 1 /\ faults' = faults
      BY <2>3 DEF Crash
    <3> QED BY <2>1, <3>1
  <2> QED BY <2>2, <2>3
<1>4. pending' \in Seq(Files) /\ storing' \in Seq(Files) /\ rest' \in Seq(Files \union Folders)
  BY <1>2
<1>5. \A n \in Nat : 0 <= 2 * n + 1
  OBVIOUS
<1>6. Len(pending') <= 2 * threads' + 1
  BY <1>2, <1>5
<1>7. TypeOK'
  BY <1>1, <1>3, <1>4, <1>6 DEF Fail, Crash, Lose, run, stored, TypeInv, TypeOK, Steps
<1>8. InOrder'
  BY <1>2 DEF Fail, Crash, Lose, InOrder
<1>9. AtRest'
  BY DEF Fail, Crash, Lose, AtRest
<1>10. OncePerRun'
  BY <1>1, <1>2 DEF Fail, Crash, Lose, TypeInv, OncePerRun, Waiting
<1> QED BY <1>7, <1>8, <1>9, <1>10 DEF TypeInv

(* The types and the order are inductive.                                  *)
LEMMA TypeStep == TypeInv /\ [Next]_vars => TypeInv'
<1> SUFFICES ASSUME TypeInv, [Next]_vars PROVE TypeInv'
  OBVIOUS
<1>1. CASE UNCHANGED vars
  BY <1>1 DEF vars, outcome, stored, run, pool, history, losses, TypeInv, TypeOK, InOrder, AtRest,
     OncePerRun,
     Waiting
<1> QED BY <1>1, StartTypes, FolderTypes, SkippedTypes, StoreTypes, SubmitTypes, TakeTypes,
   AwaitTypes,
       RecordTypes, DeferTypes, CloseTypes, PoolTypes, RaiseTypes, LoseTypes DEF Next, Main

(* The crawl keeps at most two files per thread in its pool, and one that   *)
(* it is about to drain, and queues a file at most once per run             *)
(* (directory.py:104-112).                                                 *)
THEOREM TypeCorrect == Spec => []TypeOK
<1>1. TypeInv => TypeOK
  BY DEF TypeInv
<1> QED BY <1>1, TypeInit, TypeStep, PTL DEF Spec

-----------------------------------------------------------------------------
(* A run that ends is complete *)

(* Every file is queued, left out or waiting, until the run ends or fails. *)
Dealt ==
    /\ pc \in Running => Files \subseteq mine \union skip \union Waiting
    /\ pc # "off" => ~complete
    /\ EndsComplete

(* The walk moves on: what it has passed is no longer ahead of it.          *)
LEMMA AdvanceTakes ==
    ASSUME TypeInv, rest # <<>>, Advance
    PROVE  ToSet(rest) = {Head(rest)} \union ToSet(rest')
  BY RestTail DEF Advance

(* A file that is submitted waits in the pool instead of the walk.          *)
LEMMA SubmitMoves ==
    ASSUME TypeInv, SubmitFile
    PROVE  ToSet(pending') = ToSet(pending) \union {Head(rest)}
<1>1. pending \in Seq(Files) /\ Ordered(pending) /\ Head(rest) \in Files
  BY DEF SubmitFile, TypeInv, TypeOK, InOrder
<1>2. \A g \in ToSet(pending) : Before(g, Head(rest))
  BY RestTail DEF SubmitFile, TypeInv, InOrder
<1> QED BY <1>1, <1>2, AppendIsOrdered DEF SubmitFile

(* The oldest file of the pool becomes the one at hand.                     *)
LEMMA TakeMoves == ASSUME TypeInv, Take PROVE ToSet(pending) = {child'} \union ToSet(pending')
<1>1. pending # <<>>
  BY EmptyHoldsNothing DEF Take, Keep, TypeInv, TypeOK
<1> QED BY <1>1, PendingTail DEF Take

(* No step loses sight of a file.                                          *)
LEMMA DealtStep == TypeInv /\ Dealt /\ [Next]_vars => Dealt'
<1> SUFFICES ASSUME TypeInv, Dealt, [Next]_vars PROVE Dealt'
  OBVIOUS
<1> USE DEF Dealt, EndsComplete, Waiting, Running, outcome, stored, run, pool, history, losses
<1>1. CASE Start
  <2>1. ToSet(rest') = ToSet(Walk) /\ ~complete' /\ pc' # "off"
    BY <1>1 DEF Start
  <2> QED BY <2>1
<1>2. CASE WalkFolder
  <2>1. ToSet(rest) = {Head(rest)} \union ToSet(rest') /\ Head(rest) \notin Files
    BY <1>2, AdvanceTakes DEF WalkFolder
  <2> QED BY <1>2, <2>1 DEF WalkFolder
<1>3. CASE WalkSkipped
  <2>1. ToSet(rest) = {Head(rest)} \union ToSet(rest')
    BY <1>3, AdvanceTakes DEF WalkSkipped
  <2> QED BY <1>3, <2>1 DEF WalkSkipped
<1>4. CASE StoreFile
  <2>1. ToSet(rest) = {child'} \union ToSet(rest') /\ child = NoFile
    BY <1>4, AdvanceTakes DEF StoreFile, TypeInv, AtRest
  <2> QED BY <1>4, <2>1 DEF StoreFile
<1>5. CASE SubmitFile
  <2>1. /\ ToSet(rest) = {Head(rest)} \union ToSet(rest')
        /\ ToSet(pending') = ToSet(pending) \union {Head(rest)}
    BY <1>5, AdvanceTakes, SubmitMoves DEF SubmitFile
  <2> QED BY <1>5, <2>1 DEF SubmitFile
<1>6. CASE Take
  <2>1. ToSet(pending) = {child'} \union ToSet(pending') /\ child = NoFile
    BY <1>6, TakeMoves DEF Take, TypeInv, AtRest
  <2> QED BY <1>6, <2>1 DEF Take
<1>7. CASE Await
  BY <1>7 DEF Await
<1>8. CASE Record
  BY <1>8 DEF Record
<1>9. CASE Defer
  BY <1>9 DEF Defer
<1>10. CASE Close
  <2>1. ToSet(rest) = {} /\ ToSet(pending) = {} /\ child = NoFile
    BY <1>10, EmptyHoldsNothing DEF Close, TypeInv, AtRest
  <2>2. Files = mine \union skip
    BY <1>10, <2>1 DEF Close, TypeInv, TypeOK
  <2> QED BY <1>10, <2>2 DEF Close, Flush
<1>11. CASE PoolStore \/ PoolRaise
  BY <1>11 DEF PoolStore, PoolRaise
<1>12. CASE Raise
  BY <1>12 DEF Raise
<1>13. CASE Fail \/ Crash
  BY <1>13 DEF Fail, Crash, Lose
<1>14. CASE UNCHANGED vars
  BY <1>14 DEF vars
<1> QED BY <1>1, <1>2, <1>3, <1>4, <1>5, <1>6, <1>7, <1>8, <1>9, <1>10, <1>11, <1>12, <1>13, <1>14
     DEF Next, Main

(* A run that reaches its end has queued every file it did not leave out,   *)
(* whichever number of threads stored them (directory.py:109-113,           *)
(* tasks.py:170).                                                          *)
THEOREM EndComplete == Spec => []EndsComplete
<1>1. Init => Dealt
  BY DEF Init, Dealt, EndsComplete, Running
<1>2. Dealt => EndsComplete
  BY DEF Dealt
<1> QED BY <1>1, <1>2, TypeInit, TypeStep, DealtStep, PTL DEF Spec

-----------------------------------------------------------------------------
(* A run loses at most one file *)

(* Files that are recorded, or about to be, and were never queued.         *)
Lost == {f \in recorded \union unwritten : queued[f] = 0}

(* The one file that may be recorded and not queued is the one at hand.     *)
LossInv ==
    /\ pc = "defer" => Cardinality(Lost \ {child}) <= failures
    /\ pc = "failing" => Cardinality(Lost) <= failures + 1
    /\ pc \notin {"defer", "failing"} => Cardinality(Lost) <= failures

(* A set of files is no smaller than one it holds, but for one file.        *)
LEMMA Counted ==
    ASSUME NEW A \in SUBSET Files, NEW B \in SUBSET Files, NEW f
    PROVE  /\ Cardinality(A) \in Nat
           /\ A \subseteq B => Cardinality(A) <= Cardinality(B)
           /\ Cardinality(A) <= Cardinality(A \ {f}) + 1
<1>1. IsFiniteSet(A) /\ IsFiniteSet(B)
  BY FS_Subset
<1>2. Cardinality(A) \in Nat /\ (A \subseteq B => Cardinality(A) <= Cardinality(B))
  BY <1>1, FS_Subset, FS_CardinalityType
<1>3. Cardinality(A \ {f}) = IF f \in A THEN Cardinality(A) - 1 ELSE Cardinality(A)
  BY <1>1, FS_RemoveElement
<1> QED BY <1>2, <1>3

(* What is lost only grows by the file at hand, when it is recorded.        *)
LEMMA LossStep == TypeInv /\ TypeInv' /\ LossInv /\ [Next]_vars => LossInv'
<1> SUFFICES ASSUME TypeInv, TypeInv', LossInv, [Next]_vars PROVE LossInv'
  OBVIOUS
<1>1. Lost \subseteq Files /\ Lost' \subseteq Files /\ failures \in Nat
  <2>1. recorded \union unwritten \subseteq Files /\ recorded' \union unwritten' \subseteq Files
    BY DEF TypeInv, TypeOK
  <2>2. failures \in Nat
    BY DEF TypeInv, TypeOK
  <2> QED BY <2>1, <2>2 DEF Lost
<1>2. CASE Record
  <2>1. child \in Files
    BY <1>2 DEF Record, TypeInv, AtRest
  <2>2. Lost' \ {child} \subseteq Lost
    BY <1>2, <2>1, EmitKeeps DEF Record, Lost, TypeInv
  <2>3. Cardinality(Lost' \ {child}) <= Cardinality(Lost)
    BY <1>1, <2>2, Counted
  <2>4. /\ Cardinality(Lost) <= failures /\ Cardinality(Lost) \in Nat
        /\ Cardinality(Lost' \ {child}) \in Nat
    BY <1>1, <1>2, Counted DEF LossInv, Record
  <2>5. pc' = "defer" /\ child' = child /\ failures' = failures
    BY <1>2 DEF Record, history
  <2> QED BY <1>1, <2>3, <2>4, <2>5 DEF LossInv
<1>3. CASE Defer
  <2>1. child \in Files /\ pc = "defer" /\ pc' = "walk" /\ failures' = failures
    BY <1>3 DEF Defer, TypeInv, AtRest
  <2>2. Lost' \subseteq Lost \ {child}
    <3>1. queued \in [Files -> Nat] /\ queued' = [queued EXCEPT ![child] = @ + 1]
      BY <1>3 DEF Defer, TypeInv, TypeOK
    <3>2. queued'[child] # 0 /\ \A f \in Files \ {child} : queued'[f] = queued[f]
      BY <2>1, <3>1
    <3>3. recorded' = recorded /\ unwritten' = unwritten
      BY <1>3 DEF Defer
    <3> QED BY <1>1, <3>2, <3>3 DEF Lost
  <2>3. /\ Cardinality(Lost') <= Cardinality(Lost \ {child})
        /\ Cardinality(Lost') \in Nat /\ Cardinality(Lost \ {child}) \in Nat
    BY <1>1, <2>2, Counted
  <2> QED BY <1>1, <2>1, <2>3 DEF LossInv
<1>4. CASE Raise
  <2>1. Lost' = Lost /\ failures' = failures /\ pc' = "failing" /\ pc # "failing"
    BY <1>4 DEF Raise, Lost, outcome, stored, history
  <2>2. /\ Cardinality(Lost) \in Nat /\ Cardinality(Lost \ {child}) \in Nat
        /\ Cardinality(Lost) <= Cardinality(Lost \ {child}) + 1
    BY <1>1, Counted
  <2> QED BY <1>1, <2>1, <2>2 DEF LossInv
<1>5. CASE Fail \/ Crash
  <2>1. Lost' \subseteq Lost /\ failures' = failures + 1 /\ pc' = "off"
    BY <1>5 DEF Fail, Crash, Lose, Lost, TypeInv, TypeOK
  <2>2. /\ Cardinality(Lost') \in Nat /\ Cardinality(Lost) \in Nat
        /\ Cardinality(Lost \ {child}) \in Nat
        /\ Cardinality(Lost') <= Cardinality(Lost)
        /\ Cardinality(Lost) <= Cardinality(Lost \ {child}) + 1
    BY <1>1, <2>1, Counted
  <2>3. Cardinality(Lost) <= failures + 1
    BY <1>1, <2>2 DEF LossInv
  <2> QED BY <1>1, <2>1, <2>2, <2>3 DEF LossInv
<1>6. ASSUME Lost' = Lost, failures' = failures, pc \notin {"defer", "failing"}, pc' # "defer"
      PROVE  LossInv'
  <2>1. Cardinality(Lost) \in Nat
    BY <1>1, Counted
  <2> QED BY <1>1, <1>6, <2>1 DEF LossInv
<1>7. CASE Await \/ Take \/ WalkSkipped \/ StoreFile \/ SubmitFile
  BY <1>6, <1>7 DEF Await, Take, WalkSkipped, StoreFile, SubmitFile, Lost, outcome, stored, history
<1>8. CASE Close
  BY <1>6, <1>8 DEF Close, Flush, Lost
<1>9. CASE WalkFolder
  <2>1. recorded' \union unwritten' = recorded \union unwritten
    BY <1>9, EmitKeeps DEF WalkFolder, TypeInv
  <2> QED BY <1>6, <1>9, <2>1 DEF WalkFolder, Lost, history
<1>10. CASE Start
  <2>1. Lost' \subseteq Lost /\ failures' = failures /\ pc = "off" /\ pc' = "walk"
    BY <1>10 DEF Start, Lost, outcome, stored, TypeInv, TypeOK
  <2>2. /\ Cardinality(Lost') <= Cardinality(Lost)
        /\ Cardinality(Lost') \in Nat /\ Cardinality(Lost) \in Nat
    BY <1>1, <2>1, Counted
  <2> QED BY <1>1, <2>1, <2>2 DEF LossInv
<1>11. CASE PoolStore \/ PoolRaise \/ UNCHANGED vars
  <2>1. Lost' = Lost /\ failures' = failures /\ pc' = pc /\ child' = child
    BY <1>11 DEF PoolStore, PoolRaise, vars, Lost, outcome, stored, history
  <2> QED BY <2>1 DEF LossInv
<1> QED BY <1>2, <1>3, <1>4, <1>5, <1>7, <1>8, <1>9, <1>10, <1>11 DEF Next, Main

(* A run that fails may record one file that is not queued, and no more:   *)
(* a file is recorded right before it is queued (directory.py:77-81).      *)
THEOREM LossBounded == Spec => []LossIsBounded
<1>1. Init => LossInv
  <2> SUFFICES ASSUME Init PROVE LossInv
    OBVIOUS
  <2>1. Lost = {}
    BY DEF Init, Lost
  <2> QED BY <2>1, FS_EmptySet DEF Init, LossInv
<1>2. TypeInv /\ LossInv => LossIsBounded
  <2> SUFFICES ASSUME TypeInv, LossInv PROVE LossIsBounded
    OBVIOUS
  <2>1. Lost \subseteq Files /\ failures \in Nat
    BY DEF Lost, TypeInv, TypeOK
  <2>2. /\ Cardinality(Lost) \in Nat /\ Cardinality(Lost \ {child}) \in Nat
        /\ Cardinality(Lost) <= Cardinality(Lost \ {child}) + 1
    BY <2>1, Counted
  <2> QED BY <2>1, <2>2 DEF LossInv, LossIsBounded, Lost
<1> QED BY <1>1, <1>2, TypeInit, TypeStep, LossStep, PTL DEF Spec

-----------------------------------------------------------------------------
(* Crawl implements CrawlPromise *)

(* What the archive has answered for: a checksum, or that there is none.   *)
Answered == archive \union missing

(* A file waits until its store is over, and is recorded only if the        *)
(* archive has answered for it.                                            *)
StoredFirst ==
    /\ ToSet(pending) \subseteq ToSet(storing) \union broken \union Answered
    /\ pc = "await" => child \in ToSet(storing) \union broken \union Answered
    /\ pc \in {"record", "defer"} => child \in Answered

(* No step takes a file on before its store is over.                       *)
LEMMA StoredStep == TypeInv /\ StoredFirst /\ [Next]_vars => StoredFirst'
<1> SUFFICES ASSUME TypeInv, StoredFirst, [Next]_vars PROVE StoredFirst'
  OBVIOUS
<1> USE DEF StoredFirst, Answered, stored, outcome, stored, run, pool, history, losses
<1>1. CASE Start \/ Fail \/ Crash
  BY <1>1, EmptyHoldsNothing DEF Start, Fail, Crash, Lose, TypeInv, AtRest
<1>2. CASE WalkFolder \/ WalkSkipped \/ StoreFile
  BY <1>2 DEF WalkFolder, WalkSkipped, StoreFile, Store
<1>3. CASE SubmitFile
  <2>1. storing \in Seq(Files) /\ Head(rest) \in Files /\ storing' = Append(storing, Head(rest))
    BY <1>3 DEF SubmitFile, TypeInv, TypeOK
  <2>2. ToSet(storing') = ToSet(storing) \union {Head(rest)}
    BY <2>1, AppendAdds
  <2>3. ToSet(pending') = ToSet(pending) \union {Head(rest)}
    BY <1>3, SubmitMoves
  <2> QED BY <1>3, <2>2, <2>3 DEF SubmitFile
<1>4. CASE Take
  <2>1. ToSet(pending) = {child'} \union ToSet(pending')
    BY <1>4, TakeMoves
  <2> QED BY <1>4, <2>1 DEF Take
<1>5. CASE Await
  <2>1. child \notin ToSet(storing)
    BY <1>5 DEF Await, Contains, ToSet, TypeInv, TypeOK
  <2> QED BY <1>5, <2>1 DEF Await
<1>6. CASE Record \/ Defer \/ Raise \/ UNCHANGED vars
  BY <1>6 DEF Record, Defer, Raise, vars
<1>7. CASE Close
  BY <1>7 DEF Close, Flush
<1>8. CASE PoolStore \/ PoolRaise
  <2>1. PICK i \in 1..Len(storing) :
            /\ storing' = RemoveAt(storing, i)
            /\ storing[i] \in Answered' \union broken'
            /\ Answered \subseteq Answered' /\ broken \subseteq broken'
    BY <1>8 DEF PoolStore, Store, PoolRaise, InFlight
  <2>2. storing \in Seq(Files)
    BY DEF TypeInv, TypeOK
  <2>3. ToSet(storing) \ {storing[i]} \subseteq ToSet(storing')
    BY <2>1, <2>2, RemovalKeeps
  <2>4. pending' = pending /\ child' = child /\ pc' = pc
    BY <1>8 DEF PoolStore, PoolRaise
  <2> QED BY <2>1, <2>3, <2>4
<1> QED BY <1>1, <1>2, <1>3, <1>4, <1>5, <1>6, <1>7, <1>8 DEF Next, Main

(* A store that answers is a step of the promise.                          *)
LEMMA StoreAnswers ==
    ASSUME NEW f \in Files, Store(f), Ahead' = Ahead, queued' = queued
    PROVE  Promise!Next
<1>1. CASE archive' = archive \union {f} /\ UNCHANGED missing
  BY <1>1 DEF Promise!Next, Promise!Store
<1>2. CASE f \in Irregular /\ missing' = missing \union {f} /\ UNCHANGED archive
  BY <1>2 DEF Promise!Next, Promise!Miss
<1> QED BY <1>1, <1>2 DEF Store

(* Every step of the crawl is one of the promise, or none.                  *)
LEMMA PromiseStep == TypeInv /\ StoredFirst /\ [Next]_vars => [Promise!Next]_(Promise!vars)
<1> SUFFICES ASSUME TypeInv, StoredFirst, [Next]_vars PROVE [Promise!Next]_(Promise!vars)
  OBVIOUS
<1> USE DEF stored, outcome, stored, run, pool, history, losses
<1>0. Files \intersect {NoFile} = {} /\ Files \intersect Folders = {}
  OBVIOUS
<1>1. ASSUME Ahead' = Ahead, archive' = archive, missing' = missing, queued' = queued
      PROVE  Promise!vars' = Promise!vars
  BY <1>1 DEF Promise!vars
<1>2. ASSUME Ahead' = {}, archive' = archive, missing' = missing, queued' = queued PROVE Promise!Next
  BY <1>2 DEF Promise!Next, Promise!Abandon
<1>3. CASE Start
  <2>1. Ahead = {} /\ Ahead' \in SUBSET Files /\ archive' = archive /\ queued' = queued
    BY <1>3 DEF Start, Ahead
  <2>2. missing' = {}
    BY <1>3 DEF Start
  <2> QED BY <2>1, <2>2 DEF Promise!Next, Promise!Begin
<1>4. CASE WalkFolder
  <2>1. ToSet(rest) = {Head(rest)} \union ToSet(rest') /\ Head(rest) \notin Files
    BY <1>4, AdvanceTakes DEF WalkFolder
  <2>2. Ahead' = Ahead
    BY <1>4, <2>1 DEF WalkFolder, Ahead
  <2> QED BY <1>1, <1>4, <2>2 DEF WalkFolder
<1>5. CASE WalkSkipped
  <2>1. ToSet(rest) = {Head(rest)} \union ToSet(rest') /\ Head(rest) \in skip
    BY <1>5, AdvanceTakes DEF WalkSkipped
  <2>2. Ahead' = Ahead
    BY <1>5, <2>1 DEF WalkSkipped, Ahead
  <2> QED BY <1>1, <1>5, <2>2 DEF WalkSkipped
<1>6. CASE StoreFile
  <2>1. /\ ToSet(rest) = {child'} \union ToSet(rest') /\ child = NoFile
        /\ child' \in Files \ skip /\ Store(child') /\ queued' = queued
    BY <1>6, AdvanceTakes DEF StoreFile, TypeInv, AtRest
  <2>2. Ahead' = Ahead
    BY <1>0, <1>6, <2>1 DEF StoreFile, Ahead
  <2> QED BY <2>1, <2>2, StoreAnswers
<1>7. CASE SubmitFile
  <2>1. /\ ToSet(rest) = {Head(rest)} \union ToSet(rest') /\ Head(rest) \in Files \ skip
        /\ ToSet(pending') = ToSet(pending) \union {Head(rest)}
    BY <1>7, AdvanceTakes, SubmitMoves DEF SubmitFile
  <2>2. Ahead' = Ahead
    BY <1>7, <2>1 DEF SubmitFile, Ahead
  <2> QED BY <1>1, <1>7, <2>2 DEF SubmitFile
<1>8. CASE Take
  <2>1. ToSet(pending) = {child'} \union ToSet(pending') /\ child = NoFile
    BY <1>8, TakeMoves DEF Take, TypeInv, AtRest
  <2>2. Ahead' = Ahead
    BY <1>0, <1>8, <2>1 DEF Take, Ahead
  <2> QED BY <1>1, <1>8, <2>2 DEF Take
<1>9. CASE Await \/ Record
  <2>1. pc' = "failing" \/ Ahead' = Ahead
    BY <1>9 DEF Await, Record, Ahead
  <2>2. archive' = archive /\ missing' = missing /\ queued' = queued
    BY <1>9 DEF Await, Record
  <2>3. pc' = "failing" => Ahead' = {}
    BY DEF Ahead
  <2> QED BY <1>1, <1>2, <2>1, <2>2, <2>3
<1>10. CASE Defer
  <2>1. child \in Files /\ child \in Answered /\ pc = "defer" /\ child' = NoFile
    BY <1>10 DEF Defer, TypeInv, AtRest, StoredFirst, Answered
  <2>2. /\ \A g \in ToSet(pending) \union ToSet(rest) : Before(child, g)
        /\ child \notin ToSet(pending) \union ToSet(rest)
    BY <1>0, <2>1, WalkIsOrdered DEF TypeInv, InOrder
  <2>3. Ahead = Files \intersect ({child} \union ToSet(pending) \union (ToSet(rest) \ skip))
    BY <2>1 DEF Ahead
  <2>4. Ahead' = Ahead \ {child}
    BY <1>0, <1>10, <2>1, <2>2 DEF Defer, Ahead
  <2>5. child \in Ahead /\ \A g \in Ahead \ {child} : Promise!Before(child, g)
    BY <2>1, <2>2, <2>3 DEF Before
  <2>6. /\ queued' = [queued EXCEPT ![child] = @ + 1]
        /\ archive' = archive /\ missing' = missing
    BY <1>10 DEF Defer
  <2>7. Promise!Queue
    BY <2>1, <2>4, <2>5, <2>6 DEF Answered, Promise!Queue
  <2> QED BY <2>7 DEF Promise!Next
<1>11. CASE Close \/ Fail \/ Crash \/ Raise
  <2>1. Ahead' = {} /\ archive' = archive /\ missing' = missing /\ queued' = queued
    BY <1>11 DEF Close, Flush, Fail, Crash, Raise, Lose, Ahead
  <2> QED BY <1>2, <2>1
<1>12. CASE PoolStore
  <2>1. PICK i \in 1..Len(storing) : Store(storing[i])
    BY <1>12 DEF PoolStore, InFlight
  <2>2. storing[i] \in Files
    BY DEF TypeInv, TypeOK
  <2>3. Ahead' = Ahead /\ queued' = queued
    BY <1>12 DEF PoolStore, Ahead
  <2> QED BY <2>1, <2>2, <2>3, StoreAnswers
<1>13. CASE PoolRaise \/ UNCHANGED vars
  <2>1. Ahead' = Ahead /\ archive' = archive /\ missing' = missing /\ queued' = queued
    BY <1>13 DEF PoolRaise, vars, Ahead
  <2> QED BY <1>1, <2>1
<1> QED BY <1>3, <1>4, <1>5, <1>6, <1>7, <1>8, <1>9, <1>10, <1>11, <1>12, <1>13 DEF Next, Main

(* Stored ahead of time in a pool or one after the other, the files a run   *)
(* has found are queued one at a time, in the order of the walk, each after *)
(* its bytes have reached the archive or this run has found no regular file *)
(* to store (directory.py:98-113, manager.py:219-223).                      *)
THEOREM PromiseKept == Spec => KeepsPromise
<1>1. Init => Promise!Init
  BY DEF Init, Promise!Init, Ahead
<1>2. Init => StoredFirst
  BY EmptyHoldsNothing DEF Init, StoredFirst
<1> QED BY <1>1, <1>2, TypeInit, TypeStep, StoredStep, PromiseStep, PTL
     DEF Spec, KeepsPromise, Promise!Spec

=============================================================================
