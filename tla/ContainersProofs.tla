-------------------------- MODULE ContainersProofs --------------------------
(***************************************************************************)
(* Proofs about Containers: the types; that the ingestor of a file is the  *)
(* one for what the file is; and that all that was unpacked of an archive  *)
(* is queued, whatever fails and however often it is run again.  What they *)
(* share with the proofs about members and about tables is here too.       *)
(***************************************************************************)
EXTENDS Containers, TLAPS

-----------------------------------------------------------------------------
(* Types *)

(* The jobs and the items that were ever queued are bags. *)
BagsTyped ==
    /\ IsABag(todo) /\ BagToSet(todo) \subseteq Jobs
    /\ IsABag(queued) /\ BagToSet(queued) \subseteq ItemType

(* The store, and what is known of earlier passes. *)
StoreTyped ==
    /\ status \in [Files -> {"absent", "success", "failure"}]
    /\ nested \union held \subseteq Files
    /\ passes \in [Files -> Nat]
    /\ unpacked \in [Files -> SUBSET ItemType]
    /\ logged \subseteq Files \X (Files \union Tables)
    /\ failed \union unanswered \subseteq Jobs

(* The fragments, of the store and of the writer.                          *)
FragmentTyped(x) == IsFragment(x) /\ (x.kind = "text" => Len(x.rows) \in 1..FragmentRows)
FragmentsTyped == \A x \in fragments \union buffer : FragmentTyped(x)

(* The members that are left, and the messages they are in. *)
MembersTyped ==
    /\ left \subseteq ItemType
    /\ item \in ItemType \/ (item = NoFile /\ pc # "queue")
    /\ again \in BOOLEAN /\ seen \subseteq Files /\ open \in Seq(Files)

(* A table is read while one is open, and never past what is readable; its  *)
(* chunk is below its bounds.                                              *)
ReadingTyped ==
    /\ sheets \in Seq(Tables)
    /\ table \in Tables \/ (table = NoTable /\ pc \notin {"rows", "emit"})
    /\ row \in Nat /\ csv \in Seq(Nat)
    /\ chunk \in Seq(Nat) /\ Len(chunk) < FragmentRows
    /\ chars \in 0..(FragmentChars - 1)

(* A worker that is not idle has a job. *)
JobTyped ==
    /\ pc \in {"idle", "reject", "unpack", "members", "queue", "sheets", "rows", "emit"}
    /\ IF pc = "idle" THEN file = NoFile ELSE file \in Jobs
    /\ ingestor \in Ingestors \union {"none"}
    /\ faults \in 0..MaxFaults

(* All types.                                                              *)
TypeInv ==
    BagsTyped /\ StoreTyped /\ FragmentsTyped /\ MembersTyped /\ ReadingTyped /\ JobTyped

(* Adding to a bag, and taking from it. *)
LEMMA BagAddSet ==
    ASSUME NEW B, NEW x
    PROVE  /\ BagToSet(BagAdd(B, x)) = BagToSet(B) \union {x}
           /\ IsABag(B) => IsABag(BagAdd(B, x))
BY DEF BagToSet, BagAdd, IsABag

(* Taking one from a bag.                                                  *)
LEMMA BagRemoveSet ==
    ASSUME NEW B, NEW x
    PROVE  /\ BagToSet(BagRemove(B, x)) \subseteq BagToSet(B)
           /\ BagToSet(B) \subseteq BagToSet(BagRemove(B, x)) \union {x}
           /\ IsABag(B) => IsABag(BagRemove(B, x))
BY DEF BagToSet, BagRemove, IsABag

(* What can be a job is a file, and no file is none.                       *)
LEMMA JobsAreFiles == Jobs \subseteq Files /\ NoFile \notin Files /\ Loads \subseteq Jobs
BY ContainersAssumption DEF Jobs, ContainersAssumption

(* What a file holds are items. *)
LEMMA ItemsTyped ==
    ASSUME NEW f \in Files
    PROVE  /\ Items(f) \subseteq ItemType
           /\ \A i \in Items(f) : i.holder = f /\ i.member \in Holds[f] /\ i.whole = TRUE
<1>1. Holds[f] \subseteq Files
  BY ContainersAssumption DEF ContainersAssumption
<1>2. \A m \in Holds[f] : Item(f, m, TRUE) \in ItemType
  BY <1>1 DEF Item, ItemType
<1> QED  BY <1>2 DEF Items, Item

(* What is kept of what was found.                                         *)
LEMMA KeptOf ==
    ASSUME NEW found
    PROVE  Kept(found) \subseteq found /\ \A i \in Kept(found) : <<i.holder, i.member>> \notin Ignored
BY DEF Kept

(* What UnpackMembers crawls are items of its archive, whole or truncated. *)
LEMMA UnpackMembersFind ==
    ASSUME UnpackMembers, file \in Files, logged \subseteq Files \X (Files \union Tables)
    PROVE  /\ again' = again
           /\ logged' \subseteq Files \X (Files \union Tables)
           /\ \E failing \in SUBSET Items(file), rest \in SUBSET ItemType :
                /\ logged' = logged \union {<<i.holder, i.member>> : i \in failing}
                /\ \A i \in rest : i.holder = file /\ i.member \in Holds[file]
                /\ Crawl((Items(file) \ failing) \union rest)
<1>1. PICK failing \in SUBSET Items(file) :
        /\ logged' = logged \union {<<i.holder, i.member>> : i \in failing}
        /\ \E rest \in [failing -> {TRUE, FALSE}] :
                Crawl((Items(file) \ failing)
                        \union {[i EXCEPT !.whole = FALSE] : i \in {j \in failing : rest[j]}})
  BY DEF UnpackMembers
<1>2. PICK broken \in SUBSET failing :
        Crawl((Items(file) \ failing) \union {[i EXCEPT !.whole = FALSE] : i \in broken})
  BY <1>1
<1> DEFINE rest == {[i EXCEPT !.whole = FALSE] : i \in broken}
<1>3. ASSUME NEW i \in Items(file)
      PROVE  LET t == [i EXCEPT !.whole = FALSE]
             IN  t \in ItemType /\ t.holder = file /\ t.member \in Holds[file]
  <2>1. i \in ItemType /\ i.holder = file /\ i.member \in Holds[file]
    BY ItemsTyped
  <2> QED  BY <2>1 DEF ItemType
<1>4. rest \in SUBSET ItemType /\ \A i \in rest : i.holder = file /\ i.member \in Holds[file]
  BY <1>3
<1>5. logged' \subseteq Files \X (Files \union Tables)
  <2>1. \A i \in failing : i.holder \in Files /\ i.member \in Files
    BY ItemsTyped DEF ItemType
  <2> QED  BY <1>1, <2>1
<1>6. again' = again
  BY DEF UnpackMembers
<1> HIDE DEF rest
<1> QED  BY <1>1, <1>2, <1>4, <1>5, <1>6 DEF rest

(* An auction is won by an ingestor.                                       *)
LEMMA WinnerTyped == ASSUME NEW f, NEW declared PROVE Winner(f, declared) \in Ingestors
<1> DEFINE bid(n) == Bid(Classes[n], f, Types(f, declared))
           best == {n \in DOMAIN Classes :
                        bid(n) > 0 /\ \A k \in DOMAIN Classes :
                            bid(k) < bid(n) \/ (bid(k) = bid(n) /\ n <= k)}
<1>1. Winner(f, declared) = IF best = {} THEN "tika" ELSE Classes[CHOOSE n \in best : TRUE]
  BY DEF Winner
<1> HIDE DEF bid
<1>2. best # {} => (CHOOSE n \in best : TRUE) \in DOMAIN Classes
  OBVIOUS
<1> HIDE DEF best
<1> QED  BY <1>1, <1>2 DEF Ingestors

(* The types, of the initial states and of the steps.                      *)
LEMMA TypesInit == Init => TypeInv
<1> SUFFICES ASSUME Init PROVE TypeInv
  OBVIOUS
<1>1. BagsTyped
  <2>1. PICK f \in Loads : todo = SetToBag({f})
    BY DEF Init
  <2>2. IsABag(SetToBag({f})) /\ BagToSet(SetToBag({f})) = {f}
    BY DEF SetToBag, IsABag, BagToSet
  <2>3. IsABag(EmptyBag) /\ BagToSet(EmptyBag) = {}
    BY DEF EmptyBag, SetToBag, IsABag, BagToSet
  <2> QED  BY <2>1, <2>2, <2>3, JobsAreFiles DEF Init, BagsTyped
<1>2. StoreTyped
  BY DEF Init, StoreTyped
<1>3. FragmentsTyped /\ MembersTyped /\ JobTyped
  <2>1. FragmentsTyped
    BY DEF Init, FragmentsTyped
  <2>2. MembersTyped
    <3>1. /\ left = {} /\ item = NoFile /\ pc = "idle" /\ again = FALSE /\ seen = {} /\ open = <<>>
      BY DEF Init
    <3>2. <<>> \in Seq(Files)
      OBVIOUS
    <3> QED  BY <3>1, <3>2 DEF MembersTyped
  <2>3. MaxFaults \in Nat
    BY ContainersAssumption DEF ContainersAssumption
  <2> QED  BY <2>1, <2>2, <2>3 DEF Init, JobTyped
<1>4. ReadingTyped
  BY ContainersAssumption DEF Init, ReadingTyped, ContainersAssumption
<1> QED  BY <1>1, <1>2, <1>3, <1>4 DEF TypeInv

(* Bags: one step adds or takes one element. *)
LEMMA BagsTypedStep == ASSUME TypeInv, [Next]_vars PROVE BagsTyped'
<1> USE DEF vars, store, history, taken, members, writer, reading, job
<1>1. CASE Start
  <2>1. \E f : todo' = BagRemove(todo, f)
    BY <1>1 DEF Start
  <2>2. queued' = queued
    BY <1>1 DEF Start
  <2> QED  BY <2>1, <2>2, BagRemoveSet DEF TypeInv, BagsTyped
<1>2. CASE QueueMember
  <2>1. queued' = BagAdd(queued, item) /\ item \in ItemType
    BY <1>2 DEF QueueMember, TypeInv, MembersTyped
  <2>2. todo' = todo \/ \E f \in Jobs : todo' = BagAdd(todo, f)
    BY <1>2 DEF QueueMember
  <2> QED  BY <2>1, <2>2, BagAddSet DEF TypeInv, BagsTyped
<1>3. CASE \E st : Finalize(st) /\ (todo' = todo \/ (pc # "idle" /\ todo' = BagAdd(todo, file)))
  <2>1. queued' = queued /\ (todo' = todo \/ (file \in Jobs /\ todo' = BagAdd(todo, file)))
    BY <1>3 DEF Finalize, TypeInv, JobTyped
  <2> QED  BY <2>1, BagAddSet DEF TypeInv, BagsTyped
<1>4. CASE UNCHANGED <<todo, queued>>
  BY <1>4 DEF TypeInv, BagsTyped
<1>5. CASE Reject \/ Succeed \/ RejectEmail \/ RejectSheet \/ RejectDbf \/ RejectTable \/ RejectPst
           \/ RaiseAfterCrawl \/ Raise
  BY <1>3, <1>5 DEF Reject, Succeed, RejectEmail, RejectSheet, RejectDbf, RejectTable, RejectPst,
                    RaiseAfterCrawl, Raise, Raises, RunsAgain, GivesUp, Ends
<1>6. CASE Decompress
  BY <1>3, <1>4, <1>6 DEF Decompress, Raises, RunsAgain, GivesUp, Ends, Crawl
<1>7. CASE UnpackAll \/ UnpackZip \/ UnpackTar \/ UnpackRar \/ ReadPst \/ ReadPstFails \/ CrawlAgain
  BY <1>4, <1>7
  DEF UnpackAll, UnpackZip, UnpackTar, UnpackRar, UnpackMembers, ReadPst, ReadPstFails, CrawlAgain, Crawl
<1>8. CASE StoreMember \/ OpenMessage \/ CloseMessage \/ PassOverMember \/ Sweep
  BY <1>4, <1>8 DEF StoreMember, OpenMessage, CloseMessage, PassOverMember, PassOver, Sweep
<1>9. CASE OpenSheet \/ OpenTable \/ LeaveOut \/ OpenOwn \/ SkipRow \/ PassOverRow \/ ReadRow
           \/ CloseSheet \/ CursorRaises \/ CutShort \/ ExportEnds \/ EmitTable \/ FindEmbedded
  BY <1>4, <1>9
  DEF OpenSheet, OpenTable, LeaveOut, OpenOwn, Open, SkipRow, PassOverRow, ReadRow, CloseSheet,
      CursorRaises, CutShort, ExportEnds, Close, EmitTable, FindEmbedded
<1>10. CASE UNCHANGED vars
  BY <1>4, <1>10
<1> QED
  BY <1>1, <1>2, <1>5, <1>6, <1>7, <1>8, <1>9, <1>10 DEF Next

(* The store and the history.                                              *)
LEMMA StoreTypedStep == ASSUME TypeInv, [Next]_vars PROVE StoreTyped'
<1> USE DEF vars, store, history, taken, members, writer, reading, job
<1>1. CASE Start
  <2>1. PICK f \in Files : /\ passes' = [passes EXCEPT ![f] = passes[f] + 1]
                          /\ unpacked' = [unpacked EXCEPT ![f] = {}]
                          /\ failed' = failed \ {f}
    BY <1>1, JobsAreFiles DEF Start, TypeInv, BagsTyped
  <2>2. UNCHANGED <<status, nested, held, logged, unanswered>> /\ failed' \subseteq failed
    BY <1>1, <2>1 DEF Start
  <2>3. passes' \in [Files -> Nat]
    <3>1. passes \in [Files -> Nat]
      BY DEF TypeInv, StoreTyped
    <3> QED  BY <2>1, <3>1
  <2>4. unpacked' \in [Files -> SUBSET ItemType]
    BY <2>1 DEF TypeInv, StoreTyped
  <2> QED  BY <2>2, <2>3, <2>4 DEF TypeInv, StoreTyped
<1>2. CASE /\ \E st \in {"success", "failure"} : Finalize(st)
           /\ failed' = failed \/ (pc # "idle" /\ failed' = failed \union {file})
  <2>1. \E st \in {"success", "failure"} : status' = [status EXCEPT ![file] = st]
    BY <1>2 DEF Finalize
  <2>2. nested' = nested \union held /\ held' = {} /\ UNCHANGED <<passes, unpacked, logged, unanswered>>
    BY <1>2 DEF Finalize
  <2>3. failed' \subseteq Jobs
    BY <1>2 DEF TypeInv, StoreTyped, JobTyped
  <2> QED  BY <2>1, <2>2, <2>3 DEF TypeInv, StoreTyped
<1>3. CASE UNCHANGED <<status, nested, held, passes, unpacked, logged, failed, unanswered>>
  BY <1>3 DEF TypeInv, StoreTyped
<1>4. CASE Reject \/ Succeed \/ RejectEmail \/ RejectSheet \/ RejectDbf \/ RejectTable \/ RejectPst
           \/ RaiseAfterCrawl \/ Raise
  BY <1>2, <1>4 DEF Reject, Succeed, RejectEmail, RejectSheet, RejectDbf, RejectTable, RejectPst,
                    RaiseAfterCrawl, Raise, Raises, RunsAgain, GivesUp, Ends
<1>5. ASSUME NEW found, found \subseteq ItemType, Crawl(found), logged' \subseteq Files \X (Files \union Tables)
      PROVE  StoreTyped'
  <2>1. /\ unpacked' = [unpacked EXCEPT ![file] = found]
        /\ UNCHANGED <<status, nested, held, passes, failed, unanswered>>
    BY <1>5 DEF Crawl
  <2> QED  BY <1>5, <2>1 DEF TypeInv, StoreTyped
<1>6. ASSUME pc # "idle" PROVE file \in Files /\ Items(file) \subseteq ItemType
  BY <1>6, JobsAreFiles, ItemsTyped DEF TypeInv, JobTyped
<1>7. CASE Decompress
  <2>1. CASE file \notin Damaged
    <3>1. Crawl(Items(file)) /\ logged' = logged /\ pc # "idle"
      BY <1>7, <2>1 DEF Decompress
    <3> QED  BY <1>5, <1>6, <3>1 DEF TypeInv, StoreTyped
  <2>2. CASE file \in Damaged
    BY <1>2, <1>7, <2>2 DEF Decompress, Raises, RunsAgain, GivesUp, Ends
  <2> QED  BY <2>1, <2>2
<1>8. CASE UnpackAll \/ ReadPst \/ ReadPstFails
  <2>1. logged' = logged /\ pc # "idle" /\ \E found \in SUBSET Items(file) : Crawl(found)
    BY <1>8 DEF UnpackAll, ReadPst, ReadPstFails
  <2> QED  BY <1>5, <1>6, <2>1 DEF TypeInv, StoreTyped
<1>9. CASE UnpackZip \/ UnpackTar \/ UnpackRar
  <2>1. pc # "idle" /\ UnpackMembers
    BY <1>9 DEF UnpackZip, UnpackTar, UnpackRar
  <2> QED  BY <1>5, <1>6, <2>1, UnpackMembersFind DEF TypeInv, StoreTyped
<1>10. CASE CrawlAgain
  <2>1. /\ passes' = [passes EXCEPT ![file] = @ + 1]
        /\ UNCHANGED <<status, nested, held, unpacked, logged, failed, unanswered>>
    BY <1>10 DEF CrawlAgain
  <2>2. passes' \in [Files -> Nat]
    <3>1. passes \in [Files -> Nat]
      BY DEF TypeInv, StoreTyped
    <3>2. file \in Files /\ passes' = [passes EXCEPT ![file] = passes[file] + 1]
      BY <1>10, <2>1, JobsAreFiles DEF CrawlAgain, TypeInv, JobTyped
    <3> QED  BY <3>1, <3>2
  <2> QED  BY <2>1, <2>2 DEF TypeInv, StoreTyped
<1>11. CASE StoreMember \/ QueueMember \/ OpenMessage \/ Sweep
  BY <1>3, <1>11 DEF StoreMember, QueueMember, OpenMessage, Sweep
<1>12. CASE CloseMessage
  <2>1. held' = held \union {open[Len(open)]} /\ open # <<>>
        /\ UNCHANGED <<status, nested, passes, unpacked, logged, failed, unanswered>>
    BY <1>12 DEF CloseMessage, EndOfMessage
  <2>2. open[Len(open)] \in Files
    BY <2>1 DEF TypeInv, MembersTyped
  <2> QED  BY <2>1, <2>2 DEF TypeInv, StoreTyped
<1>13. CASE PassOverMember
  <2>1. PICK i \in left \union {item} :
            /\ pc = "queue" \/ i \in left
            /\ logged' = logged \union {<<i.holder, i.member>>}
            /\ UNCHANGED <<status, nested, held, passes, unpacked, failed, unanswered>>
    BY <1>13 DEF PassOverMember, PassOver
  <2>2. i \in ItemType
    BY <2>1 DEF TypeInv, MembersTyped
  <2> QED  BY <2>1, <2>2 DEF TypeInv, StoreTyped, ItemType
<1>14. CASE OpenSheet \/ OpenTable \/ LeaveOut \/ OpenOwn \/ SkipRow \/ ReadRow \/ CloseSheet
            \/ ExportEnds \/ EmitTable
  BY <1>3, <1>14
  DEF OpenSheet, OpenTable, LeaveOut, OpenOwn, Open, SkipRow, ReadRow, CloseSheet, ExportEnds,
      Close, EmitTable
<1>15. CASE PassOverRow \/ CursorRaises \/ CutShort
  <2>1. /\ logged' = logged \union {<<file, table>>} /\ pc = "rows"
        /\ UNCHANGED <<status, nested, held, passes, unpacked, failed, unanswered>>
    BY <1>15 DEF PassOverRow, CursorRaises, CutShort, AtRow, BreaksOff, Close
  <2>2. file \in Files /\ table \in Tables
    BY <2>1, JobsAreFiles DEF TypeInv, JobTyped, ReadingTyped
  <2> QED  BY <2>1, <2>2 DEF TypeInv, StoreTyped
<1>16. CASE FindEmbedded
  <2>1. /\ logged' = logged \/ logged' = logged \union (({file} \X Holds[file]) \intersect Ignored)
        /\ unanswered' \subseteq unanswered \union {file}
        /\ UNCHANGED <<status, nested, held, passes, unpacked, failed>>
    BY <1>16 DEF FindEmbedded
  <2>2. file \in Jobs /\ file \in Files
    BY <1>16, JobsAreFiles DEF FindEmbedded, TypeInv, JobTyped
  <2>3. ({file} \X Holds[file]) \intersect Ignored \subseteq Files \X (Files \union Tables)
    <3>1. Holds[file] \subseteq Files
      BY <2>2, ContainersAssumption DEF ContainersAssumption
    <3> QED  BY <2>2, <3>1
  <2>4. logged' \subseteq Files \X (Files \union Tables)
    BY <2>1, <2>3 DEF TypeInv, StoreTyped
  <2>5. failed' \union unanswered' \subseteq Jobs
    BY <2>1, <2>2 DEF TypeInv, StoreTyped
  <2> QED  BY <2>1, <2>4, <2>5 DEF TypeInv, StoreTyped
<1>17. CASE UNCHANGED vars
  BY <1>3, <1>17
<1> QED
  BY <1>1, <1>4, <1>7, <1>8, <1>9, <1>10, <1>11, <1>12, <1>13, <1>14, <1>15, <1>16, <1>17 DEF Next

(* A fragment of a table that is read. *)
LEMMA PutTyped ==
    ASSUME NEW kind \in {"initial", "text", "table"}, NEW t \in Tables, NEW key \in Nat,
           NEW rows \in Seq(Nat), kind = "text" => Len(rows) \in 1..FragmentRows
    PROVE  FragmentTyped(Put(kind, t, key, rows))
BY DEF Put, FragmentTyped, IsFragment

(* A fragment is of one table, and a text has at most FragmentRows rows.   *)
LEMMA FragmentsTypedStep == ASSUME TypeInv, [Next]_vars PROVE FragmentsTyped'
<1> USE DEF vars, store, history, taken, members, writer, reading, job
<1>0. FragmentRows \in Nat \ {0}
  BY ContainersAssumption DEF ContainersAssumption
<1>1. CASE UNCHANGED <<fragments, buffer>>
  BY <1>1 DEF TypeInv, FragmentsTyped, FragmentTyped, IsFragment
<1>2. CASE \E st : Finalize(st)
  <2>1. fragments' \subseteq fragments \union buffer /\ buffer' = {}
    BY <1>2 DEF Finalize
  <2> QED  BY <2>1 DEF TypeInv, FragmentsTyped, FragmentTyped, IsFragment
<1>3. ASSUME NEW x, FragmentTyped(x), buffer' = buffer \union {x}, fragments' = fragments
      PROVE  FragmentsTyped'
  BY <1>3 DEF TypeInv, FragmentsTyped, FragmentTyped, IsFragment
<1>4. CASE OpenSheet \/ OpenTable \/ OpenOwn
  <2>1. /\ sheets # <<>> /\ fragments' = fragments
        /\ buffer' = buffer \union {Put("initial", Head(sheets), 0, <<>>)}
    BY <1>4 DEF OpenSheet, OpenTable, OpenOwn, Open
  <2>2. Head(sheets) \in Tables
    BY <2>1 DEF TypeInv, ReadingTyped
  <2>3. FragmentTyped(Put("initial", Head(sheets), 0, <<>>))
    BY <2>2 DEF Put, FragmentTyped, IsFragment
  <2> QED  BY <1>3, <2>1, <2>3
<1>5. CASE ReadRow
  <2>1. /\ table \in Tables /\ row' \in Nat /\ csv' \in Seq(Nat)
        /\ Append(chunk, row') \in Seq(Nat) /\ Len(Append(chunk, row')) \in 1..FragmentRows
    BY <1>0, <1>5 DEF ReadRow, AtRow, TypeInv, ReadingTyped
  <2>2. /\ fragments' = fragments
        /\ buffer' = buffer \/ buffer' = buffer \union {Put("text", table, Len(csv'), Append(chunk, row'))}
    BY <1>5 DEF ReadRow, FlushChunk
  <2>3. FragmentTyped(Put("text", table, Len(csv'), Append(chunk, row')))
    <3>1. Len(csv') \in Nat
      BY <2>1
    <3> QED  BY <2>1, <3>1, PutTyped
  <2> QED  BY <1>1, <1>3, <2>2, <2>3
<1>6. CASE CloseSheet \/ CutShort \/ ExportEnds
  <2>1. pc = "rows" /\ Close
    BY <1>6 DEF CloseSheet, CutShort, ExportEnds, BreaksOff
  <2>2. CASE chunk = <<>>
    BY <1>1, <2>1, <2>2 DEF Close
  <2>3. CASE chunk # <<>>
    <3>1. /\ table \in Tables /\ csv \in Seq(Nat) /\ chunk \in Seq(Nat)
          /\ Len(chunk) \in 1..FragmentRows
      BY <1>0, <2>1, <2>3 DEF TypeInv, ReadingTyped
    <3>2. FragmentTyped(Put("text", table, Len(csv), chunk))
      BY <3>1, PutTyped
    <3>3. fragments' = fragments /\ buffer' = buffer \union {Put("text", table, Len(csv), chunk)}
      BY <2>1, <2>3 DEF Close, FlushChunk
    <3> QED  BY <1>3, <3>2, <3>3
  <2> QED  BY <2>2, <2>3
<1>7. CASE EmitTable
  <2>1. table \in Tables /\ csv \in Seq(Nat)
    BY <1>7 DEF EmitTable, TypeInv, ReadingTyped
  <2>2. FragmentTyped(Put("table", table, 0, csv))
    BY <2>1, PutTyped
  <2> QED  BY <1>3, <1>7, <2>2 DEF EmitTable
<1>8. CASE Reject \/ Succeed \/ RejectEmail \/ RejectSheet \/ RejectDbf \/ RejectTable \/ RejectPst
           \/ RaiseAfterCrawl \/ Raise
  BY <1>2, <1>8 DEF Reject, Succeed, RejectEmail, RejectSheet, RejectDbf, RejectTable, RejectPst,
                    RaiseAfterCrawl, Raise, Raises, RunsAgain, GivesUp, Ends
<1>9. CASE Decompress
  BY <1>1, <1>2, <1>9 DEF Decompress, Raises, RunsAgain, GivesUp, Ends, Crawl
<1>10. CASE UnpackAll \/ UnpackZip \/ UnpackTar \/ UnpackRar \/ ReadPst \/ ReadPstFails \/ CrawlAgain
  BY <1>1, <1>10
  DEF UnpackAll, UnpackZip, UnpackTar, UnpackRar, UnpackMembers, ReadPst, ReadPstFails, CrawlAgain, Crawl
<1>11. CASE Start \/ StoreMember \/ QueueMember \/ OpenMessage \/ CloseMessage \/ PassOverMember \/ Sweep
  BY <1>1, <1>11
  DEF Start, StoreMember, QueueMember, OpenMessage, CloseMessage, PassOverMember, PassOver, Sweep
<1>12. CASE LeaveOut \/ SkipRow \/ PassOverRow \/ CursorRaises \/ FindEmbedded
  BY <1>1, <1>12 DEF LeaveOut, SkipRow, PassOverRow, CursorRaises, FindEmbedded
<1>13. CASE UNCHANGED vars
  BY <1>1, <1>13
<1> QED
  BY <1>4, <1>5, <1>6, <1>7, <1>8, <1>9, <1>10, <1>11, <1>12, <1>13 DEF Next

(* What is found in a message, or is attached to one, are items. *)
LEMMA FoundTyped ==
    ASSUME NEW i, NEW f \in Files PROVE Found(i, f) \subseteq Items(f) /\ Found(i, f) \subseteq ItemType
BY ItemsTyped, KeptOf DEF Found

(* The members that are left are items.                                    *)
LEMMA MembersTypedStep == ASSUME TypeInv, [Next]_vars PROVE MembersTyped'
<1> USE DEF vars, store, history, taken, members, writer, reading, job
<1>1. CASE UNCHANGED members /\ (pc' # "queue" \/ pc' = pc)
  BY <1>1 DEF TypeInv, MembersTyped
<1>2. CASE \E st : Finalize(st)
  <2>1. /\ left' = {} /\ item' = NoFile /\ pc' = "idle" /\ again' = FALSE /\ seen' = {} /\ open' = <<>>
    BY <1>2 DEF Finalize
  <2>2. <<>> \in Seq(Files)
    OBVIOUS
  <2> QED  BY <2>1, <2>2 DEF MembersTyped
<1>3. ASSUME pc # "idle" PROVE file \in Files /\ Items(file) \subseteq ItemType
  BY <1>3, JobsAreFiles, ItemsTyped DEF TypeInv, JobTyped
<1>4. CASE Start
  <2>1. /\ pc' # "queue" /\ UNCHANGED <<item, again, seen, open>>
        /\ \E f \in BagToSet(todo) : \E i : left' = Found(i, f)
    BY <1>4 DEF Start, First
  <2> QED  BY <2>1, FoundTyped, JobsAreFiles DEF TypeInv, BagsTyped, MembersTyped
<1>5. ASSUME NEW found, found \subseteq ItemType, Crawl(found), again' \in BOOLEAN PROVE MembersTyped'
  <2>1. left' \subseteq found /\ pc' = "members" /\ UNCHANGED <<item, seen, open>>
    BY <1>5, KeptOf DEF Crawl
  <2> QED  BY <1>5, <2>1 DEF TypeInv, MembersTyped
<1>6. CASE UnpackAll \/ ReadPst \/ ReadPstFails
  <2>1. again' \in BOOLEAN /\ pc # "idle" /\ \E found \in SUBSET Items(file) : Crawl(found)
    BY <1>6 DEF UnpackAll, ReadPst, ReadPstFails, TypeInv, MembersTyped
  <2> QED  BY <1>3, <1>5, <2>1
<1>7. CASE UnpackZip \/ UnpackTar \/ UnpackRar
  <2>1. pc # "idle" /\ UnpackMembers
    BY <1>7 DEF UnpackZip, UnpackTar, UnpackRar
  <2>2. again' \in BOOLEAN /\ \E found \in SUBSET ItemType : Crawl(found)
    BY <1>3, <2>1, UnpackMembersFind DEF TypeInv, MembersTyped, StoreTyped
  <2> QED  BY <1>5, <2>2
<1>8. CASE Decompress
  <2>1. CASE file \notin Damaged
    <3>1. Crawl(Items(file)) /\ again' = again /\ pc # "idle"
      BY <1>8, <2>1 DEF Decompress
    <3> QED  BY <1>3, <1>5, <3>1 DEF TypeInv, MembersTyped
  <2>2. CASE file \in Damaged
    BY <1>2, <1>8, <2>2 DEF Decompress, Raises, RunsAgain, GivesUp, Ends
  <2> QED  BY <2>1, <2>2
<1>9. CASE CrawlAgain
  <2>1. /\ again' = TRUE /\ left' \subseteq unpacked[file] /\ item' = NoFile /\ pc' = "members"
        /\ UNCHANGED <<seen, open>> /\ file \in Files
    BY <1>3, <1>9, KeptOf DEF CrawlAgain
  <2>2. unpacked[file] \subseteq ItemType
    BY <2>1 DEF TypeInv, StoreTyped
  <2> QED  BY <2>1, <2>2 DEF TypeInv, MembersTyped
<1>10. CASE StoreMember
  <2>1. \E i \in left :
            /\ left' = left \ {i} /\ item' = i /\ UNCHANGED <<again, open>>
            /\ seen' = seen \/ seen' = seen \union {i.member}
    BY <1>10 DEF StoreMember
  <2> QED  BY <2>1 DEF TypeInv, MembersTyped, ItemType
<1>11. CASE QueueMember
  <2>1. /\ left' = left \union Attachments(item) /\ item' = NoFile /\ pc' = "members"
        /\ UNCHANGED <<again, seen, open>>
    BY <1>11 DEF QueueMember
  <2>2. item.member \in Files
    BY <1>11 DEF QueueMember, TypeInv, MembersTyped, ItemType
  <2>3. Attachments(item) \subseteq ItemType
    BY <2>2, ItemsTyped, KeptOf DEF Attachments
  <2> QED  BY <2>1, <2>3 DEF TypeInv, MembersTyped
<1>12. CASE OpenMessage
  <2>1. PICK i \in left :
            left' = (left \ {i}) \union Kept(Items(i.member)) /\ open' = Append(open, i.member)
    BY <1>12 DEF OpenMessage
  <2>2. i.member \in Files
    BY <2>1 DEF TypeInv, MembersTyped, ItemType
  <2>3. Kept(Items(i.member)) \subseteq ItemType
    BY <2>2, ItemsTyped, KeptOf
  <2>4. open' \in Seq(Files)
    BY <2>1, <2>2 DEF TypeInv, MembersTyped
  <2>5. UNCHANGED <<pc, item, again, seen>>
    BY <1>12 DEF OpenMessage
  <2> QED  BY <2>1, <2>3, <2>4, <2>5 DEF TypeInv, MembersTyped
<1>13. CASE CloseMessage
  <2>1. open' = SubSeq(open, 1, Len(open) - 1) /\ open # <<>> /\ UNCHANGED <<pc, left, item, again, seen>>
    BY <1>13 DEF CloseMessage, EndOfMessage
  <2>2. open' \in Seq(Files)
    BY <2>1 DEF TypeInv, MembersTyped
  <2> QED  BY <2>1, <2>2 DEF TypeInv, MembersTyped
<1>14. CASE PassOverMember
  <2>1. left' \subseteq left /\ item' = NoFile /\ pc' = "members" /\ UNCHANGED <<again, seen, open>>
    BY <1>14 DEF PassOverMember, PassOver
  <2> QED  BY <2>1 DEF TypeInv, MembersTyped
<1>15. CASE Sweep \/ FindEmbedded
  <2>1. /\ left' \subseteq Items(file) /\ again' \in BOOLEAN /\ pc # "idle" /\ pc' = "members"
        /\ UNCHANGED <<item, seen, open>>
    BY <1>15, KeptOf DEF Sweep, Sweepable, FindEmbedded, TypeInv, MembersTyped
  <2> QED  BY <1>3, <2>1 DEF TypeInv, MembersTyped
<1>16. CASE OpenSheet \/ OpenTable \/ LeaveOut \/ OpenOwn \/ SkipRow \/ PassOverRow \/ ReadRow
            \/ CloseSheet \/ CursorRaises \/ CutShort \/ ExportEnds \/ EmitTable
  BY <1>1, <1>16
  DEF OpenSheet, OpenTable, LeaveOut, OpenOwn, Open, SkipRow, PassOverRow, ReadRow, CloseSheet,
      CursorRaises, CutShort, ExportEnds, Close, EmitTable
<1>17. CASE Reject \/ Succeed \/ RejectEmail \/ RejectSheet \/ RejectDbf \/ RejectTable \/ RejectPst
           \/ RaiseAfterCrawl \/ Raise
  BY <1>2, <1>17 DEF Reject, Succeed, RejectEmail, RejectSheet, RejectDbf, RejectTable, RejectPst,
                    RaiseAfterCrawl, Raise, Raises, RunsAgain, GivesUp, Ends
<1>18. CASE UNCHANGED vars
  BY <1>1, <1>18
<1> QED
  BY <1>4, <1>6, <1>7, <1>8, <1>9, <1>10, <1>11, <1>12, <1>13, <1>14, <1>15, <1>16, <1>17, <1>18
  DEF Next

(* The chunk of a table in hand is below its bounds.                       *)
LEMMA ReadingTypedStep == ASSUME TypeInv, [Next]_vars PROVE ReadingTyped'
<1> USE DEF vars, store, history, taken, members, writer, reading, job
<1>0. FragmentRows \in Nat \ {0} /\ FragmentChars \in Nat \ {0}
  BY ContainersAssumption DEF ContainersAssumption
<1>1. CASE UNCHANGED <<sheets, reading>> /\ (pc' \notin {"rows", "emit"} \/ pc' = pc)
  BY <1>1 DEF TypeInv, ReadingTyped
<1>2. CASE \E st : Finalize(st)
  <2>1. /\ sheets' = <<>> /\ table' = NoTable /\ row' = 0 /\ csv' = <<>> /\ chunk' = <<>>
        /\ chars' = 0 /\ pc' = "idle"
    BY <1>2 DEF Finalize
  <2> QED  BY <1>0, <2>1 DEF ReadingTyped
<1>3. CASE Start
  <2>1. /\ UNCHANGED reading /\ pc' \notin {"rows", "emit"}
        /\ \E f \in BagToSet(todo) : sheets' = Sheets[f]
    BY <1>3 DEF Start, First
  <2>2. sheets' \in Seq(Tables)
    BY <2>1, JobsAreFiles, ContainersAssumption DEF TypeInv, BagsTyped, ContainersAssumption
  <2> QED  BY <2>1, <2>2 DEF TypeInv, ReadingTyped
<1>4. CASE OpenSheet \/ OpenTable \/ OpenOwn
  <2>1. /\ sheets # <<>> /\ table' = Head(sheets) /\ sheets' = Tail(sheets)
        /\ row' = 0 /\ csv' = <<>> /\ chunk' = <<>> /\ chars' = 0
    BY <1>4 DEF OpenSheet, OpenTable, OpenOwn, Open
  <2>2. table' \in Tables /\ sheets' \in Seq(Tables)
    BY <2>1 DEF TypeInv, ReadingTyped
  <2> QED  BY <1>0, <2>1, <2>2 DEF ReadingTyped
<1>5. CASE SkipRow \/ PassOverRow \/ CursorRaises
  <2>1. row' \in {row, row + 1} /\ UNCHANGED <<pc, sheets, table, csv, chunk, chars>>
    BY <1>5 DEF SkipRow, PassOverRow, CursorRaises
  <2> QED  BY <2>1 DEF TypeInv, ReadingTyped
<1>6. CASE ReadRow
  <2>1. /\ pc = "rows" /\ row < ReadableRows[table] /\ row' = row + 1 /\ csv' = Append(csv, row')
        /\ UNCHANGED <<pc, sheets, table>>
    BY <1>6 DEF ReadRow, AtRow
  <2>2. table \in Tables /\ row' \in Nat /\ csv' \in Seq(Nat)
    BY <2>1 DEF TypeInv, ReadingTyped
  <2>3. Rows[table][row'] \in Nat
    <3>1. /\ ReadableRows[table] \in Nat /\ Rows[table] \in Seq(Nat)
          /\ ReadableRows[table] <= Len(Rows[table])
      BY <2>2, ContainersAssumption DEF ContainersAssumption
    <3>2. row' \in 1..Len(Rows[table])
      BY <2>1, <3>1 DEF TypeInv, ReadingTyped
    <3> QED  BY <3>1, <3>2
  <2>4. CASE chunk' = <<>> /\ chars' = 0
    BY <1>0, <2>1, <2>2, <2>4 DEF TypeInv, ReadingTyped
  <2>5. CASE /\ chunk' = Append(chunk, row') /\ chars' = chars + Rows[table][row']
             /\ ~(Len(Append(chunk, row')) >= FragmentRows)
             /\ ~(chars + Rows[table][row'] >= FragmentChars)
    <3>0. chunk \in Seq(Nat) /\ chars \in 0..(FragmentChars - 1)
      BY DEF TypeInv, ReadingTyped
    <3>1. chunk' \in Seq(Nat) /\ Len(chunk') < FragmentRows
      BY <1>0, <2>2, <2>5, <3>0
    <3>2. chars' \in 0..(FragmentChars - 1)
      BY <1>0, <2>3, <2>5, <3>0
    <3> QED  BY <2>1, <2>2, <3>1, <3>2 DEF TypeInv, ReadingTyped
  <2> QED  BY <1>6, <2>4, <2>5 DEF ReadRow
<1>7. CASE CloseSheet \/ CutShort \/ ExportEnds
  <2>1. pc = "rows" /\ chunk' = <<>> /\ chars' = 0 /\ UNCHANGED <<sheets, table, row, csv>>
    BY <1>7 DEF CloseSheet, CutShort, ExportEnds, BreaksOff, Close
  <2> QED  BY <1>0, <2>1 DEF TypeInv, ReadingTyped
<1>8. CASE EmitTable \/ FindEmbedded \/ LeaveOut
  <2>1. CASE EmitTable \/ FindEmbedded
    BY <1>1, <2>1 DEF EmitTable, FindEmbedded
  <2>2. CASE LeaveOut
    <3>1. /\ sheets # <<>> /\ sheets' = Tail(sheets)
          /\ UNCHANGED <<pc, table, row, csv, chunk, chars>>
      BY <2>2 DEF LeaveOut
    <3>2. sheets' \in Seq(Tables)
      BY <3>1 DEF TypeInv, ReadingTyped
    <3> QED  BY <3>1, <3>2 DEF TypeInv, ReadingTyped
  <2> QED  BY <1>8, <2>1, <2>2
<1>9. CASE UnpackAll \/ UnpackZip \/ UnpackTar \/ UnpackRar \/ ReadPst \/ ReadPstFails \/ CrawlAgain
  BY <1>1, <1>9
  DEF UnpackAll, UnpackZip, UnpackTar, UnpackRar, UnpackMembers, ReadPst, ReadPstFails, CrawlAgain, Crawl
<1>10. CASE Decompress
  BY <1>1, <1>2, <1>10 DEF Decompress, Raises, RunsAgain, GivesUp, Ends, Crawl
<1>11. CASE StoreMember \/ QueueMember \/ OpenMessage \/ CloseMessage \/ PassOverMember \/ Sweep
  BY <1>1, <1>11
  DEF StoreMember, QueueMember, OpenMessage, CloseMessage, PassOverMember, PassOver, Sweep
<1>12. CASE Reject \/ Succeed \/ RejectEmail \/ RejectSheet \/ RejectDbf \/ RejectTable \/ RejectPst
           \/ RaiseAfterCrawl \/ Raise
  BY <1>2, <1>12 DEF Reject, Succeed, RejectEmail, RejectSheet, RejectDbf, RejectTable, RejectPst,
                    RaiseAfterCrawl, Raise, Raises, RunsAgain, GivesUp, Ends
<1>13. CASE UNCHANGED vars
  BY <1>1, <1>13
<1> QED
  BY <1>3, <1>4, <1>5, <1>6, <1>7, <1>8, <1>9, <1>10, <1>11, <1>12, <1>13 DEF Next

(* The worker has a job unless it is idle.                                 *)
LEMMA JobTypedStep == ASSUME TypeInv, [Next]_vars PROVE JobTyped'
<1> USE DEF vars, store, history, taken, members, writer, reading, job
<1>1. CASE Start
  <2>1. PICK f \in BagToSet(todo) : \E declared :
            /\ file' = f
            /\ ingestor' = "none" \/ ingestor' = Winner(f, declared)
            /\ pc' \in {"reject", "unpack", "sheets", "members"}
            /\ faults' = faults
    BY <1>1 DEF Start, First
  <2>2. f \in Jobs /\ f # NoFile
    BY JobsAreFiles DEF TypeInv, BagsTyped
  <2> QED  BY <2>1, <2>2, WinnerTyped DEF TypeInv, JobTyped
<1>2. ASSUME Fault \/ faults' = faults PROVE faults' \in 0..MaxFaults
  <2>1. MaxFaults \in Nat
    BY ContainersAssumption DEF ContainersAssumption
  <2> QED  BY <1>2, <2>1 DEF Fault, TypeInv, JobTyped
<1>3. CASE (\E st : Finalize(st)) /\ (Fault \/ faults' = faults)
  <2>1. pc' = "idle" /\ file' = NoFile /\ ingestor' = "none"
    BY <1>3 DEF Finalize
  <2> QED  BY <1>2, <1>3, <2>1 DEF JobTyped
<1>4. CASE /\ UNCHANGED taken /\ pc # "idle" /\ (Fault \/ faults' = faults)
           /\ pc' \in {"unpack", "members", "queue", "sheets", "rows", "emit"}
  BY <1>2, <1>4 DEF TypeInv, JobTyped
<1>5. CASE UnpackAll \/ ReadPst \/ ReadPstFails \/ CrawlAgain
  BY <1>4, <1>5 DEF UnpackAll, ReadPst, ReadPstFails, CrawlAgain, Crawl
<1>6. CASE UnpackZip \/ UnpackTar \/ UnpackRar
  <2>1. pc = "unpack" /\ UnpackMembers
    BY <1>6 DEF UnpackZip, UnpackTar, UnpackRar
  <2>2. (Fault \/ faults' = faults) /\ \E found : Crawl(found)
    BY <2>1 DEF UnpackMembers
  <2> QED  BY <1>4, <2>1, <2>2 DEF Crawl
<1>7. CASE Decompress
  BY <1>3, <1>4, <1>7 DEF Decompress, Raises, RunsAgain, GivesUp, Ends, Crawl
<1>8. CASE StoreMember \/ QueueMember \/ OpenMessage \/ CloseMessage \/ PassOverMember \/ Sweep
  BY <1>4, <1>8
  DEF StoreMember, QueueMember, OpenMessage, CloseMessage, EndOfMessage, PassOverMember, PassOver, Sweep
<1>9. CASE OpenSheet \/ OpenTable \/ LeaveOut \/ OpenOwn \/ SkipRow \/ PassOverRow \/ ReadRow
            \/ CloseSheet \/ CursorRaises \/ CutShort \/ ExportEnds \/ EmitTable \/ FindEmbedded
  BY <1>4, <1>9
  DEF OpenSheet, OpenTable, LeaveOut, OpenOwn, Open, SkipRow, PassOverRow, ReadRow, AtRow, CloseSheet,
      CursorRaises, CutShort, ExportEnds, BreaksOff, Close, EmitTable, FindEmbedded
<1>10. CASE Reject \/ Succeed \/ RejectEmail \/ RejectSheet \/ RejectDbf \/ RejectTable \/ RejectPst
           \/ RaiseAfterCrawl \/ Raise
  BY <1>3, <1>10 DEF Reject, Succeed, RejectEmail, RejectSheet, RejectDbf, RejectTable, RejectPst,
                    RaiseAfterCrawl, Raise, Raises, RunsAgain, GivesUp, Ends
<1>11. CASE UNCHANGED vars
  BY <1>11 DEF TypeInv, JobTyped
<1> QED
  BY <1>1, <1>5, <1>6, <1>7, <1>8, <1>9, <1>10, <1>11 DEF Next

(* Each step keeps the types.                                              *)
LEMMA TypesStep == TypeInv /\ [Next]_vars => TypeInv'
BY BagsTypedStep, StoreTypedStep, FragmentsTypedStep, MembersTypedStep, ReadingTypedStep, JobTypedStep
DEF TypeInv

(* The types hold.                                                         *)
LEMMA TypesHold == Spec => []TypeInv
BY TypesInit, TypesStep, PTL DEF Spec

(* Every variable has its type, for all files and tables, and no fragment   *)
(* of a text holds more rows than it may (table.py:51-90).                 *)
THEOREM TypeCorrect == Spec => []TypeOK
<1>1. TypeInv => TypeOK
  BY DEF TypeInv, TypeOK, BagsTyped, StoreTyped, FragmentsTyped, FragmentTyped, MembersTyped,
         ReadingTyped, JobTyped
<1> QED  BY <1>1, TypesHold, PTL

-----------------------------------------------------------------------------
(* Routing: the class for what a file is bids more than all others. *)

(* The classes, in their order. *)
LEMMA ClassesAre ==
    /\ DOMAIN Classes = 1..20
    /\ Classes[1] = "xml" /\ Classes[2] = "plain" /\ Classes[3] = "pdf" /\ Classes[4] = "rar"
    /\ Classes[5] = "zip" /\ Classes[6] = "tar" /\ Classes[7] = "7z" /\ Classes[8] = "gz"
    /\ Classes[9] = "pst" /\ Classes[10] = "olm" /\ Classes[11] = "opfmsg" /\ Classes[12] = "olemsg"
    /\ Classes[13] = "msg" /\ Classes[14] = "emlx" /\ Classes[15] = "csv" /\ Classes[16] = "access"
    /\ Classes[17] = "sqlite" /\ Classes[18] = "xlsx" /\ Classes[19] = "mbox" /\ Classes[20] = "dbf"
BY DEF Classes

(* The bids of all classes for a file of one type, with this extension and *)
(* these looks.                                                            *)
BidTable(bid, s, e, l) ==
    /\ bid["xml"] = IF s = "text/xml" \/ e = "xml" THEN 1 ELSE -1
    /\ bid["plain"] = IF s = "text/plain" \/ e = "txt" THEN 1 ELSE -1
    /\ bid["pdf"] = IF s = "application/pdf" \/ e = "pdf" THEN 6 ELSE -1
    /\ bid["rar"] = IF "rar" \in l \/ e = "rar" THEN 4 ELSE -1
    /\ bid["zip"] = IF "zip" \in l \/ s = "application/zip" \/ e = "zip" THEN 3 ELSE -1
    /\ bid["tar"] = IF "tar" \in l \/ s = "application/x-tar" \/ e = "tar" THEN 4 ELSE -1
    /\ bid["7z"] = IF s = "application/x-7z-compressed" \/ e = "7z" THEN 4 ELSE -1
    /\ bid["gz"] = IF "tar" \notin l /\ (s = "application/gzip" \/ e \in {"gz", "tgz"})
        THEN 2 ELSE -1
    /\ bid["pst"] = IF s = "application/vnd.ms-outlook" \/ e \in {"pst", "ost", "pab"}
        THEN 3 ELSE -1
    /\ bid["olm"] = IF e = "olm" THEN 10 ELSE -1
    /\ bid["opfmsg"] = IF s = "application/xml+opfmessage" THEN 15 ELSE -1
    /\ bid["olemsg"] = IF "ole" \in l /\ (s = "application/vnd.ms-outlook" \/ e = "msg")
        THEN 10 ELSE -1
    /\ bid["msg"] = IF s = "message/rfc822" \/ e \in {"eml", "msg"} THEN 7 ELSE -1
    /\ bid["emlx"] = IF e = "emlx" THEN 8 ELSE -1
    /\ bid["csv"] = IF s = "text/csv" \/ e = "csv" THEN 7 ELSE -1
    /\ bid["access"] = IF s = "application/x-msaccess" \/ e = "mdb" THEN 8 ELSE -1
    /\ bid["sqlite"] = IF "sqlite" \in l /\ (s = "application/x-sqlite3" \/ e \in {"sqlite3", "sqlite", "db"})
        THEN 8 ELSE -1
    /\ bid["xlsx"] = IF "sheets" \in l /\ (s = SheetType \/ e = "xlsx") THEN 7 ELSE -1
    /\ bid["mbox"] = IF s = "application/mbox" \/ e = "mbox" THEN 10 ELSE -1
    /\ bid["dbf"] = IF s = "application/x-dbf" \/ e = "dbf" THEN 3 ELSE -1

(* A class whose bid is positive, and beats the one of every class.        *)
Leads(bid, n) ==
    /\ bid[Classes[n]] > 0
    /\ \A k \in 1..20 :
        /\ bid[Classes[k]] \in Int /\ bid[Classes[k]] <= bid[Classes[n]]
        /\ k < n => bid[Classes[k]] < bid[Classes[n]]

(* What each class bids.                                                   *)
Bids(f, types) == [class \in {Classes[n] : n \in 1..20} |-> Bid(class, f, types)]

(* Who leads is the winner.                                                *)
LEMMA LeaderWins ==
    ASSUME NEW f, NEW declared, NEW n \in 1..20, Leads(Bids(f, Types(f, declared)), n)
    PROVE  Winner(f, declared) = Classes[n]
<1> DEFINE bid(k) == Bid(Classes[k], f, Types(f, declared))
           best == {i \in DOMAIN Classes :
                        bid(i) > 0 /\ \A k \in DOMAIN Classes :
                            bid(k) < bid(i) \/ (bid(k) = bid(i) /\ i <= k)}
<1>1. Winner(f, declared) = IF best = {} THEN "tika" ELSE Classes[CHOOSE i \in best : TRUE]
  BY DEF Winner
<1>2. \A k \in 1..20 : Bids(f, Types(f, declared))[Classes[k]] = bid(k)
  BY DEF Bids
<1>3. /\ bid(n) > 0
      /\ \A k \in 1..20 : bid(k) \in Int /\ bid(k) <= bid(n) /\ (k < n => bid(k) < bid(n))
  BY <1>2 DEF Leads
<1>4. DOMAIN Classes = 1..20
  BY ClassesAre
<1> HIDE DEF bid
<1>5. n \in best
  BY <1>3, <1>4
<1>6. ASSUME NEW i \in best PROVE i = n
  BY <1>3, <1>4
<1>7. (CHOOSE i \in best : TRUE) \in best
  BY <1>5
<1> HIDE DEF best
<1> QED  BY <1>1, <1>5, <1>6, <1>7

(* The bids on a file, by its one type, its extension and its looks.       *)
LEMMA BidsOfType ==
    ASSUME NEW f, NEW s
    PROVE  BidTable(Bids(f, {s}), s, Extension[f], Looks[f])
<1> DEFINE b == Bids(f, {s})
           e == Extension[f]
           l == Looks[f]
<1>0. \A n \in 1..20 : b[Classes[n]] = Bid(Classes[n], f, {s})
  BY DEF Bids
<1>1. b["xml"] = IF s = "text/xml" \/ e = "xml" THEN 1 ELSE -1
  <2>1. Bid("xml", f, {s}) = IF s = "text/xml" \/ e = "xml" THEN 1 ELSE -1
    BY DEF Bid, Match
  <2> QED  BY <1>0, <2>1, ClassesAre
<1>2. b["plain"] = IF s = "text/plain" \/ e = "txt" THEN 1 ELSE -1
  <2>1. Bid("plain", f, {s}) = IF s = "text/plain" \/ e = "txt" THEN 1 ELSE -1
    BY DEF Bid, Match
  <2> QED  BY <1>0, <2>1, ClassesAre
<1>3. b["pdf"] = IF s = "application/pdf" \/ e = "pdf" THEN 6 ELSE -1
  <2>1. Bid("pdf", f, {s}) = IF s = "application/pdf" \/ e = "pdf" THEN 6 ELSE -1
    BY DEF Bid, Match, PdfBid
  <2> QED  BY <1>0, <2>1, ClassesAre
<1>4. b["rar"] = IF "rar" \in l \/ e = "rar" THEN 4 ELSE -1
  <2>1. Bid("rar", f, {s}) = IF "rar" \in l \/ e = "rar" THEN 4 ELSE -1
    BY DEF Bid, Match, RarBid
  <2> QED  BY <1>0, <2>1, ClassesAre
<1>5. b["zip"] = IF "zip" \in l \/ s = "application/zip" \/ e = "zip" THEN 3 ELSE -1
  <2>1. Bid("zip", f, {s}) = IF "zip" \in l \/ s = "application/zip" \/ e = "zip" THEN 3 ELSE -1
    BY DEF Bid, Match, ZipBid
  <2> QED  BY <1>0, <2>1, ClassesAre
<1>6. b["tar"] = IF "tar" \in l \/ s = "application/x-tar" \/ e = "tar" THEN 4 ELSE -1
  <2>1. Bid("tar", f, {s}) = IF "tar" \in l \/ s = "application/x-tar" \/ e = "tar" THEN 4 ELSE -1
    BY DEF Bid, Match, TarBid
  <2> QED  BY <1>0, <2>1, ClassesAre
<1>7. b["7z"] = IF s = "application/x-7z-compressed" \/ e = "7z" THEN 4 ELSE -1
  <2>1. Bid("7z", f, {s}) = IF s = "application/x-7z-compressed" \/ e = "7z" THEN 4 ELSE -1
    BY DEF Bid, Match
  <2> QED  BY <1>0, <2>1, ClassesAre
<1>8. b["gz"] = IF "tar" \notin l /\ (s = "application/gzip" \/ e \in {"gz", "tgz"})
        THEN 2 ELSE -1
  <2>1. Bid("gz", f, {s}) = IF "tar" \notin l /\ (s = "application/gzip" \/ e \in {"gz", "tgz"})
          THEN 2 ELSE -1
    BY DEF Bid, Match, SingleFileBid
  <2> QED  BY <1>0, <2>1, ClassesAre
<1>9. b["pst"] = IF s = "application/vnd.ms-outlook" \/ e \in {"pst", "ost", "pab"}
        THEN 3 ELSE -1
  <2>1. Bid("pst", f, {s}) = IF s = "application/vnd.ms-outlook" \/ e \in {"pst", "ost", "pab"}
          THEN 3 ELSE -1
    BY DEF Bid, Match, PstBid
  <2> QED  BY <1>0, <2>1, ClassesAre
<1>10. b["olm"] = IF e = "olm" THEN 10 ELSE -1
  <2>1. Bid("olm", f, {s}) = IF e = "olm" THEN 10 ELSE -1
    BY DEF Bid, Match
  <2> QED  BY <1>0, <2>1, ClassesAre
<1>11. b["opfmsg"] = IF s = "application/xml+opfmessage" THEN 15 ELSE -1
  <2>1. Bid("opfmsg", f, {s}) = IF s = "application/xml+opfmessage" THEN 15 ELSE -1
    BY DEF Bid, Match, RoutingTypes
  <2> QED  BY <1>0, <2>1, ClassesAre
<1>12. b["olemsg"] = IF "ole" \in l /\ (s = "application/vnd.ms-outlook" \/ e = "msg")
        THEN 10 ELSE -1
  <2>1. Match(f, {s}, {"application/vnd.ms-outlook"}, {"msg"}, 10)
          = IF (s = "application/vnd.ms-outlook" \/ e = "msg") THEN 10 ELSE -1
    BY DEF Match
  <2>2. Bid("olemsg", f, {s}) = Checked(f, "ole", Match(f, {s}, {"application/vnd.ms-outlook"}, {"msg"}, 10))
    BY DEF Bid, OutlookMsgBid
  <2> QED  BY <1>0, <2>1, <2>2, ClassesAre DEF Checked
<1>13. b["msg"] = IF s = "message/rfc822" \/ e \in {"eml", "msg"} THEN 7 ELSE -1
  <2>1. Bid("msg", f, {s}) = IF s = "message/rfc822" \/ e \in {"eml", "msg"} THEN 7 ELSE -1
    BY DEF Bid, Match
  <2> QED  BY <1>0, <2>1, ClassesAre
<1>14. b["emlx"] = IF e = "emlx" THEN 8 ELSE -1
  <2>1. Bid("emlx", f, {s}) = IF e = "emlx" THEN 8 ELSE -1
    BY DEF Bid, Match
  <2> QED  BY <1>0, <2>1, ClassesAre
<1>15. b["csv"] = IF s = "text/csv" \/ e = "csv" THEN 7 ELSE -1
  <2>1. Bid("csv", f, {s}) = IF s = "text/csv" \/ e = "csv" THEN 7 ELSE -1
    BY DEF Bid, Match
  <2> QED  BY <1>0, <2>1, ClassesAre
<1>16. b["access"] = IF s = "application/x-msaccess" \/ e = "mdb" THEN 8 ELSE -1
  <2>1. Bid("access", f, {s}) = IF s = "application/x-msaccess" \/ e = "mdb" THEN 8 ELSE -1
    BY DEF Bid, Match
  <2> QED  BY <1>0, <2>1, ClassesAre
<1>17. b["sqlite"] = IF "sqlite" \in l /\ (s = "application/x-sqlite3" \/ e \in {"sqlite3", "sqlite", "db"})
        THEN 8 ELSE -1
  <2>1. Match(f, {s}, {"application/x-sqlite3"}, {"sqlite3", "sqlite", "db"}, 8)
          = IF (s = "application/x-sqlite3" \/ e \in {"sqlite3", "sqlite", "db"}) THEN 8 ELSE -1
    BY DEF Match
  <2>2. Bid("sqlite", f, {s}) =
            Checked(f, "sqlite",
                Match(f, {s}, {"application/x-sqlite3"}, {"sqlite3", "sqlite", "db"}, 8))
    BY DEF Bid, SqliteBid
  <2> QED  BY <1>0, <2>1, <2>2, ClassesAre DEF Checked
<1>18. b["xlsx"] = IF "sheets" \in l /\ (s = SheetType \/ e = "xlsx") THEN 7 ELSE -1
  <2>1. Match(f, {s}, {SheetType}, {"xlsx"}, 7)
          = IF (s = SheetType \/ e = "xlsx") THEN 7 ELSE -1
    BY DEF Match
  <2>2. Bid("xlsx", f, {s}) = Checked(f, "sheets", Match(f, {s}, {SheetType}, {"xlsx"}, 7))
    BY DEF Bid, XlsxBid
  <2> QED  BY <1>0, <2>1, <2>2, ClassesAre DEF Checked
<1>19. b["mbox"] = IF s = "application/mbox" \/ e = "mbox" THEN 10 ELSE -1
  <2>1. Bid("mbox", f, {s}) = IF s = "application/mbox" \/ e = "mbox" THEN 10 ELSE -1
    BY DEF Bid, Match, MboxBid
  <2> QED  BY <1>0, <2>1, ClassesAre
<1>20. b["dbf"] = IF s = "application/x-dbf" \/ e = "dbf" THEN 3 ELSE -1
  <2>1. Bid("dbf", f, {s}) = IF s = "application/x-dbf" \/ e = "dbf" THEN 3 ELSE -1
    BY DEF Bid, Match, DbfBid
  <2> QED  BY <1>0, <2>1, ClassesAre
<1> HIDE DEF b
<1> QED
  BY <1>1, <1>2, <1>3, <1>4, <1>5, <1>6, <1>7, <1>8, <1>9, <1>10,
     <1>11, <1>12, <1>13, <1>14, <1>15, <1>16, <1>17, <1>18, <1>19, <1>20
  DEF BidTable, b

(* Only the ingestor of an OLM archive's messages bids more than ten.      *)
LEMMA OtherBids ==
    ASSUME NEW f, NEW types, NEW n \in 1..20, n # 11
    PROVE  Bids(f, types)[Classes[n]] \in -1..10
<1>0. Bids(f, types)[Classes[n]] = Bid(Classes[n], f, types)
  BY DEF Bids
<1>1. Bid("xml", f, types) \in -1..10
  BY DEF Bid, Match
<1>2. Bid("plain", f, types) \in -1..10
  BY DEF Bid, Match
<1>3. Bid("pdf", f, types) \in -1..10
  BY DEF Bid, Match, PdfBid
<1>4. Bid("rar", f, types) \in -1..10
  BY DEF Bid, Match, RarBid
<1>5. Bid("zip", f, types) \in -1..10
  BY DEF Bid, Match, ZipBid
<1>6. Bid("tar", f, types) \in -1..10
  BY DEF Bid, Match, TarBid
<1>7. Bid("7z", f, types) \in -1..10
  BY DEF Bid, Match
<1>8. Bid("gz", f, types) \in -1..10
  BY DEF Bid, Match, SingleFileBid
<1>9. Bid("pst", f, types) \in -1..10
  BY DEF Bid, Match, PstBid
<1>10. Bid("olm", f, types) \in -1..10
  BY DEF Bid, Match
<1>11. Bid("olemsg", f, types) \in -1..10
  BY DEF Bid, Match, OutlookMsgBid, Checked
<1>12. Bid("msg", f, types) \in -1..10
  BY DEF Bid, Match
<1>13. Bid("emlx", f, types) \in -1..10
  BY DEF Bid, Match
<1>14. Bid("csv", f, types) \in -1..10
  BY DEF Bid, Match
<1>15. Bid("access", f, types) \in -1..10
  BY DEF Bid, Match
<1>16. Bid("sqlite", f, types) \in -1..10
  BY DEF Bid, Match, SqliteBid, Checked
<1>17. Bid("xlsx", f, types) \in -1..10
  BY DEF Bid, Match, XlsxBid, Checked
<1>18. Bid("mbox", f, types) \in -1..10
  BY DEF Bid, Match, MboxBid
<1>19. Bid("dbf", f, types) \in -1..10
  BY DEF Bid, Match, DbfBid
<1> QED
  BY ClassesAre, <1>0, <1>1, <1>2, <1>3, <1>4, <1>5, <1>6, <1>7, <1>8, <1>9,
     <1>10, <1>11, <1>12, <1>13, <1>14, <1>15, <1>16, <1>17, <1>18, <1>19

(* A file that looks like one of its kind is won by the ingestor for it.   *)
LEMMA RecognisedWins ==
    ASSUME NEW f \in Jobs, NEW declared, Recognisable(f, declared)
    PROVE  Winner(f, declared) = Kind[f]
<1>1. CASE Kind[f] = "opfmsg"
  <2>1. Types(f, declared) = declared /\ declared \intersect RoutingTypes # {}
    BY <1>1 DEF Recognisable, Types
  <2>2. Bids(f, declared)[Classes[11]] = 15
    BY <2>1, ClassesAre DEF Bid, Match, Bids
  <2>3. Leads(Bids(f, declared), 11)
    BY <2>1, <2>2, OtherBids DEF Leads
  <2> QED  BY <1>1, <2>1, <2>3, LeaderWins, ClassesAre
<1>2. CASE Kind[f] # "opfmsg"
  <2> DEFINE s == Sniffed[f]
             e == Extension[f]
             l == Looks[f]
             b == Bids(f, {s})
  <2>1. /\ Types(f, declared) = {s} /\ BidTable(b, s, e, l)
        /\ s \in Marks(Kind[f]).sniffed /\ l = Marks(Kind[f]).looks
        /\ \/ e \in Marks(Kind[f]).extensions
           \/ e \notin Extensions /\ Kind[f] \notin {"mbox", "olm", "emlx"}
    BY <1>2, BidsOfType DEF Recognisable, Types
  <2> HIDE DEF s, e, l, b
  <2>2. CASE Kind[f] = "zip"
    <3>1. Leads(b, 5)
      BY <2>1, <2>2, ClassesAre DEF BidTable, Leads, Marks, Mark, Extensions, SheetType
    <3> QED  BY <2>1, <2>2, <3>1, LeaderWins, ClassesAre DEF b
  <2>3. CASE Kind[f] = "tar"
    <3>1. Leads(b, 6)
      BY <2>1, <2>3, ClassesAre DEF BidTable, Leads, Marks, Mark, Extensions, SheetType
    <3> QED  BY <2>1, <2>3, <3>1, LeaderWins, ClassesAre DEF b
  <2>4. CASE Kind[f] = "rar"
    <3>1. Leads(b, 4)
      BY <2>1, <2>4, ClassesAre DEF BidTable, Leads, Marks, Mark, Extensions, SheetType
    <3> QED  BY <2>1, <2>4, <3>1, LeaderWins, ClassesAre DEF b
  <2>5. CASE Kind[f] = "7z"
    <3>1. Leads(b, 7)
      BY <2>1, <2>5, ClassesAre DEF BidTable, Leads, Marks, Mark, Extensions, SheetType
    <3> QED  BY <2>1, <2>5, <3>1, LeaderWins, ClassesAre DEF b
  <2>6. CASE Kind[f] = "gz"
    <3>1. Leads(b, 8)
      BY <2>1, <2>6, ClassesAre DEF BidTable, Leads, Marks, Mark, Extensions, SheetType
    <3> QED  BY <2>1, <2>6, <3>1, LeaderWins, ClassesAre DEF b
  <2>7. CASE Kind[f] = "pst"
    <3>1. Leads(b, 9)
      BY <2>1, <2>7, ClassesAre DEF BidTable, Leads, Marks, Mark, Extensions, SheetType
    <3> QED  BY <2>1, <2>7, <3>1, LeaderWins, ClassesAre DEF b
  <2>8. CASE Kind[f] = "mbox"
    <3>1. Leads(b, 19)
      BY <2>1, <2>8, ClassesAre DEF BidTable, Leads, Marks, Mark, Extensions, SheetType
    <3> QED  BY <2>1, <2>8, <3>1, LeaderWins, ClassesAre DEF b
  <2>9. CASE Kind[f] = "olm"
    <3>1. Leads(b, 10)
      BY <2>1, <2>9, ClassesAre DEF BidTable, Leads, Marks, Mark, Extensions, SheetType
    <3> QED  BY <2>1, <2>9, <3>1, LeaderWins, ClassesAre DEF b
  <2>10. CASE Kind[f] = "olemsg"
    <3>1. Leads(b, 12)
      BY <2>1, <2>10, ClassesAre DEF BidTable, Leads, Marks, Mark, Extensions, SheetType
    <3> QED  BY <2>1, <2>10, <3>1, LeaderWins, ClassesAre DEF b
  <2>11. CASE Kind[f] = "msg"
    <3>1. Leads(b, 13)
      BY <2>1, <2>11, ClassesAre DEF BidTable, Leads, Marks, Mark, Extensions, SheetType
    <3> QED  BY <2>1, <2>11, <3>1, LeaderWins, ClassesAre DEF b
  <2>12. CASE Kind[f] = "emlx"
    <3>1. Leads(b, 14)
      BY <2>1, <2>12, ClassesAre DEF BidTable, Leads, Marks, Mark, Extensions, SheetType
    <3> QED  BY <2>1, <2>12, <3>1, LeaderWins, ClassesAre DEF b
  <2>13. CASE Kind[f] = "csv"
    <3>1. Leads(b, 15)
      BY <2>1, <2>13, ClassesAre DEF BidTable, Leads, Marks, Mark, Extensions, SheetType
    <3> QED  BY <2>1, <2>13, <3>1, LeaderWins, ClassesAre DEF b
  <2>14. CASE Kind[f] = "dbf"
    <3>1. Leads(b, 20)
      BY <2>1, <2>14, ClassesAre DEF BidTable, Leads, Marks, Mark, Extensions, SheetType
    <3> QED  BY <2>1, <2>14, <3>1, LeaderWins, ClassesAre DEF b
  <2>15. CASE Kind[f] = "access"
    <3>1. Leads(b, 16)
      BY <2>1, <2>15, ClassesAre DEF BidTable, Leads, Marks, Mark, Extensions, SheetType
    <3> QED  BY <2>1, <2>15, <3>1, LeaderWins, ClassesAre DEF b
  <2>16. CASE Kind[f] = "sqlite"
    <3>1. Leads(b, 17)
      BY <2>1, <2>16, ClassesAre DEF BidTable, Leads, Marks, Mark, Extensions, SheetType
    <3> QED  BY <2>1, <2>16, <3>1, LeaderWins, ClassesAre DEF b
  <2>17. CASE Kind[f] = "xlsx"
    <3>1. Leads(b, 18)
      BY <2>1, <2>17, ClassesAre DEF BidTable, Leads, Marks, Mark, Extensions, SheetType
    <3> QED  BY <2>1, <2>17, <3>1, LeaderWins, ClassesAre DEF b
  <2> QED
    BY <1>2, <2>2, <2>3, <2>4, <2>5, <2>6, <2>7, <2>8, <2>9, <2>10,
       <2>11, <2>12, <2>13, <2>14, <2>15, <2>16, <2>17, ContainersAssumption
    DEF Jobs, Kinds, Archives, Emails, Tabular, Workbooks, Databases, OwnTables, ContainersAssumption
<1> QED  BY <1>1, <1>2

(* Which ingestor has the file, and where it begins. *)
RoutedInv ==
    IF file = NoFile THEN ingestor = "none"
    ELSE ingestor = Kind[file] \/ (ingestor = "none" /\ pc = "reject")

(* Each step keeps the ingestor, or takes a job with the one for its file. *)
LEMMA RoutedStep == ASSUME TypeInv, RoutedInv, [Next]_vars PROVE RoutedInv'
<1> USE DEF vars, store, history, taken, members, writer, reading, job
<1>1. CASE Start
  <2>1. PICK f \in BagToSet(todo) : \E declared \in Declared[f] :
            /\ file' = f
            /\ ingestor' = IF CalledOff(f, declared) THEN "none" ELSE Winner(f, declared)
            /\ ingestor' = "none" => pc' = "reject"
    BY <1>1 DEF Start
  <2>2. f \in Jobs /\ f # NoFile
    BY JobsAreFiles DEF TypeInv, BagsTyped
  <2>3. \A declared \in Declared[f] : CalledOff(f, declared) \/ Recognisable(f, declared)
    BY <2>2, SignatureAssumption
  <2>4. \A declared \in Declared[f] : CalledOff(f, declared) \/ Winner(f, declared) = Kind[f]
    BY <2>2, <2>3, RecognisedWins
  <2> QED  BY <2>1, <2>2, <2>4 DEF RoutedInv
<1>2. CASE \E st : Finalize(st)
  <2>1. file' = NoFile /\ ingestor' = "none"
    BY <1>2 DEF Finalize
  <2> QED  BY <2>1 DEF RoutedInv
<1>3. CASE UNCHANGED <<file, ingestor>> /\ (pc' = pc \/ pc # "reject")
  BY <1>3 DEF RoutedInv
<1>4. CASE UnpackAll \/ UnpackZip \/ UnpackTar \/ UnpackRar \/ ReadPst \/ ReadPstFails \/ CrawlAgain
  BY <1>3, <1>4
  DEF UnpackAll, UnpackZip, UnpackTar, UnpackRar, UnpackMembers, ReadPst, ReadPstFails, CrawlAgain, Crawl
<1>5. CASE Decompress
  BY <1>2, <1>3, <1>5 DEF Decompress, Raises, RunsAgain, GivesUp, Ends, Crawl
<1>6. CASE StoreMember \/ QueueMember \/ OpenMessage \/ CloseMessage \/ PassOverMember \/ Sweep
  BY <1>3, <1>6
  DEF StoreMember, QueueMember, OpenMessage, CloseMessage, EndOfMessage, PassOverMember, PassOver, Sweep
<1>7. CASE OpenSheet \/ OpenTable \/ LeaveOut \/ OpenOwn \/ SkipRow \/ PassOverRow \/ ReadRow
           \/ CloseSheet \/ CursorRaises \/ CutShort \/ ExportEnds \/ EmitTable \/ FindEmbedded
  BY <1>3, <1>7
  DEF OpenSheet, OpenTable, LeaveOut, OpenOwn, Open, SkipRow, PassOverRow, ReadRow, AtRow, CloseSheet,
      CursorRaises, CutShort, ExportEnds, BreaksOff, Close, EmitTable, FindEmbedded
<1>8. CASE Reject \/ Succeed \/ RejectEmail \/ RejectSheet \/ RejectDbf \/ RejectTable \/ RejectPst
           \/ RaiseAfterCrawl \/ Raise
  BY <1>2, <1>8 DEF Reject, Succeed, RejectEmail, RejectSheet, RejectDbf, RejectTable, RejectPst,
                    RaiseAfterCrawl, Raise, Raises, RunsAgain, GivesUp, Ends
<1>9. CASE UNCHANGED vars
  BY <1>3, <1>9
<1> QED
  BY <1>1, <1>4, <1>5, <1>6, <1>7, <1>8, <1>9 DEF Next

(* The routing invariant holds, with the types.                            *)
LEMMA RoutedHolds == Spec => [](TypeInv /\ RoutedInv)
<1>1. Init => TypeInv /\ RoutedInv
  BY TypesInit DEF Init, RoutedInv
<1>2. TypeInv /\ RoutedInv /\ [Next]_vars => (TypeInv /\ RoutedInv)'
  BY TypesStep, RoutedStep
<1> QED  BY <1>1, <1>2, PTL DEF Spec

(* Whatever types are declared for them, and whichever extension of their   *)
(* kind or plain text they go by, files are taken by the ingestor for what  *)
(* their bytes are, or are turned away (manager.py:191-213).               *)
THEOREM ContentRoutes == Spec => []RoutedByContent
<1>1. RoutedInv => RoutedByContent
  BY DEF RoutedInv, RoutedByContent
<1> QED  BY <1>1, RoutedHolds, PTL

-----------------------------------------------------------------------------
(* What was unpacked is queued. *)

(* Jobs are for files that have an ingestor, and a worker that is not idle *)
(* has one of them.                                                        *)
JobsInv ==
    /\ BagToSet(todo) \subseteq Jobs
    /\ DOMAIN status = Files /\ DOMAIN unpacked = Files
    /\ IF pc = "idle" THEN file = NoFile ELSE file \in Jobs

(* What has been unpacked and not been queued is left out or still to be    *)
(* dealt with, or its archive has a job that begins again, or has given up. *)
UnpackedInv ==
    /\ JobsInv
    /\ \A f \in Jobs : Ended(f) => f \in failed \/ Kept(unpacked[f]) \subseteq BagToSet(queued)
    /\ pc = "members" => Kept(unpacked[file]) \subseteq BagToSet(queued) \union left
    /\ pc = "queue" => Kept(unpacked[file]) \subseteq BagToSet(queued) \union left \union {item}
    /\ pc # "idle" /\ unpacked[file] # {} => ingestor \in Archives /\ pc \in {"members", "queue"}

(* Nothing was unpacked at first. *)
LEMMA UnpackedInit == Init => UnpackedInv
<1> SUFFICES ASSUME Init PROVE UnpackedInv
  OBVIOUS
<1>1. JobsInv
  BY JobsAreFiles DEF Init, JobsInv, SetToBag, BagToSet
<1>2. ASSUME NEW f \in Jobs PROVE ~Ended(f)
  BY JobsAreFiles DEF Init, Ended
<1> QED  BY <1>1, <1>2 DEF Init, UnpackedInv

(* The end of a pass: all was queued, or the job is put back or gives up. *)
LEMMA FinalizeUnpacked ==
    ASSUME UnpackedInv, pc # "idle", NEW st, Finalize(st),
           \/ UNCHANGED <<todo, failed>> /\ Kept(unpacked[file]) \subseteq BagToSet(queued)
           \/ todo' = BagAdd(todo, file) /\ UNCHANGED failed
           \/ todo' = todo /\ failed' = failed \union {file}
    PROVE  UnpackedInv'
<1>1. /\ pc' = "idle" /\ file' = NoFile /\ status' = [status EXCEPT ![file] = st]
      /\ UNCHANGED <<queued, unpacked>> /\ failed \subseteq failed'
  BY DEF Finalize
<1>2. BagToSet(todo') = BagToSet(todo) \/ BagToSet(todo') = BagToSet(todo) \union {file}
  BY BagAddSet
<1>3. JobsInv'
  BY <1>1, <1>2 DEF UnpackedInv, JobsInv
<1>4. ASSUME NEW f \in Jobs, Ended(f)'
      PROVE  f \in failed' \/ Kept(unpacked[f]) \subseteq BagToSet(queued)
  <2>1. CASE f = file
    BY <1>4, <2>1, BagAddSet DEF Ended, BagIn
  <2>2. CASE f # file
    <3>1. Ended(f)
      BY <1>1, <1>2, <1>4, <2>2, JobsAreFiles DEF Ended, BagIn, UnpackedInv, JobsInv
    <3> QED  BY <1>1, <3>1 DEF UnpackedInv
  <2> QED  BY <2>1, <2>2
<1> QED  BY <1>1, <1>3, <1>4 DEF UnpackedInv

(* A step that leaves all jobs as they are. *)
LEMMA WithinUnpacked ==
    ASSUME UnpackedInv, pc # "idle", pc' # "idle",
           UNCHANGED <<todo, queued, status, failed, unpacked, file, ingestor>>,
           \/ unpacked[file] = {}
           \/ /\ pc' = "members"
              /\ Kept(unpacked[file]) \subseteq BagToSet(queued) \union left'
           \/ /\ pc' = "queue"
              /\ Kept(unpacked[file]) \subseteq BagToSet(queued) \union left' \union {item'}
    PROVE  UnpackedInv'
<1>1. JobsInv'
  BY DEF UnpackedInv, JobsInv
<1>2. \A f \in Jobs : Ended(f)' => f \in failed' \/ Kept(unpacked'[f]) \subseteq BagToSet(queued')
  BY DEF UnpackedInv, Ended
<1>3. unpacked[file] = {} => Kept(unpacked[file]) = {}
  BY KeptOf
<1> QED  BY <1>1, <1>2, <1>3 DEF UnpackedInv

(* What was unpacked is all to be dealt with. *)
LEMMA CrawlUnpacked ==
    ASSUME UnpackedInv, pc # "idle", ingestor \in Archives, NEW found, Crawl(found)
    PROVE  UnpackedInv'
<1>1. /\ pc' = "members" /\ left' = Kept(found) /\ unpacked' = [unpacked EXCEPT ![file] = found]
      /\ UNCHANGED <<todo, queued, status, failed, file, ingestor>>
  BY DEF Crawl, taken, store
<1>2. file \in Jobs /\ unpacked'[file] = found
  BY <1>1, JobsAreFiles DEF UnpackedInv, JobsInv
<1>3. JobsInv'
  BY <1>1 DEF UnpackedInv, JobsInv
<1>4. ASSUME NEW f \in Jobs, Ended(f)'
      PROVE  f \in failed' \/ Kept(unpacked'[f]) \subseteq BagToSet(queued')
  BY <1>1, <1>4, JobsAreFiles DEF Ended, UnpackedInv, JobsInv
<1> QED  BY <1>1, <1>2, <1>3, <1>4 DEF UnpackedInv

(* A job that is started is not ended, and nothing of it is unpacked yet.  *)
LEMMA StartUnpacked == UnpackedInv /\ Start => UnpackedInv'
<1> SUFFICES ASSUME UnpackedInv, Start PROVE UnpackedInv'
  OBVIOUS
<1>1. PICK f \in BagToSet(todo) :
        /\ todo' = BagRemove(todo, f) /\ file' = f
        /\ pc' \in {"reject", "unpack", "sheets", "members"}
        /\ unpacked' = [unpacked EXCEPT ![f] = {}]
        /\ failed' = failed \ {f}
        /\ UNCHANGED <<queued, status>>
  BY DEF Start, First, store
<1>2. f \in Jobs /\ pc = "idle" /\ file = NoFile /\ unpacked'[f] = {} /\ Kept(unpacked'[f]) = {}
  BY <1>1, JobsAreFiles, KeptOf DEF Start, UnpackedInv, JobsInv
<1>3. JobsInv'
  BY <1>1, <1>2, BagRemoveSet DEF UnpackedInv, JobsInv
<1>4. ASSUME NEW g \in Jobs, Ended(g)'
      PROVE  g \in failed' \/ Kept(unpacked'[g]) \subseteq BagToSet(queued')
  <2>1. g # f
    BY <1>1, <1>4 DEF Ended
  <2>2. Ended(g)
    BY <1>1, <1>2, <1>4, <2>1, BagRemoveSet, JobsAreFiles DEF Ended, BagIn
  <2> QED  BY <1>1, <2>1, <2>2, JobsAreFiles DEF UnpackedInv, JobsInv
<1> QED  BY <1>1, <1>2, <1>3, <1>4 DEF UnpackedInv

(* What was left of the directory of a job is queued.                      *)
LEMMA QueueUnpacked == UnpackedInv /\ QueueMember => UnpackedInv'
<1> SUFFICES ASSUME UnpackedInv, QueueMember PROVE UnpackedInv'
  OBVIOUS
<1>1. /\ pc = "queue" /\ pc' = "members" /\ left \subseteq left'
      /\ UNCHANGED <<status, failed, unpacked, file, ingestor>>
  BY DEF QueueMember, store, history, taken
<1>2. BagToSet(queued') = BagToSet(queued) \union {item}
  BY BagAddSet DEF QueueMember
<1>3. BagToSet(todo) \subseteq BagToSet(todo') /\ BagToSet(todo') \subseteq BagToSet(todo) \union Jobs
  BY BagAddSet DEF QueueMember
<1>4. JobsInv'
  BY <1>1, <1>3 DEF UnpackedInv, JobsInv
<1>5. ASSUME NEW f \in Jobs, Ended(f)'
      PROVE  f \in failed' \/ Kept(unpacked'[f]) \subseteq BagToSet(queued')
  BY <1>1, <1>2, <1>3, <1>5 DEF Ended, BagIn, UnpackedInv
<1> QED  BY <1>1, <1>2, <1>4, <1>5 DEF UnpackedInv

(* The steps among members. *)
LEMMA MembersUnpacked ==
    ASSUME UnpackedInv,
           StoreMember \/ OpenMessage \/ CloseMessage \/ PassOverMember \/ Sweep \/ CrawlAgain
    PROVE  UnpackedInv'
<1> USE DEF store, history, taken
<1>1. CASE StoreMember
  <2>1. /\ pc = "members" /\ pc' = "queue" /\ left \subseteq left' \union {item'}
        /\ UNCHANGED <<todo, queued, status, failed, unpacked, file, ingestor>>
    BY <1>1 DEF StoreMember
  <2> QED  BY <2>1, WithinUnpacked DEF UnpackedInv
<1>2. CASE CloseMessage
  <2>1. pc = "members" /\ UNCHANGED <<todo, queued, status, failed, unpacked, file, ingestor, pc, left>>
    BY <1>2 DEF CloseMessage, EndOfMessage
  <2> QED  BY <2>1, WithinUnpacked DEF UnpackedInv
<1>3. CASE OpenMessage \/ PassOverMember \/ Sweep
  <2>1. /\ pc \in {"members", "queue"} /\ pc' # "idle" /\ ingestor \notin Archives
        /\ UNCHANGED <<todo, queued, status, failed, unpacked, file, ingestor>>
    BY <1>3 DEF OpenMessage, PassOverMember, PassOver, Sweep, Is, Archives
  <2> QED  BY <2>1, WithinUnpacked DEF UnpackedInv
<1>4. CASE CrawlAgain
  <2>1. /\ pc # "idle" /\ pc' = "members" /\ left' = Kept(unpacked[file])
        /\ UNCHANGED <<todo, queued, status, failed, unpacked, file, ingestor>>
    BY <1>4 DEF CrawlAgain
  <2> QED  BY <2>1, WithinUnpacked
<1> QED  BY <1>1, <1>2, <1>3, <1>4

(* The steps of an archive that is unpacked. *)
LEMMA ArchivesUnpacked ==
    ASSUME UnpackedInv,
           \/ UnpackAll \/ Decompress \/ UnpackZip \/ UnpackTar \/ UnpackRar
           \/ ReadPst \/ ReadPstFails
    PROVE  UnpackedInv'
<1>1. pc = "unpack" /\ ingestor \in Archives
  BY DEF UnpackAll, Decompress, UnpackZip, UnpackTar, UnpackRar, ReadPst, ReadPstFails, Is, Archives
<1>2. CASE \E found : Crawl(found)
  BY <1>1, <1>2, CrawlUnpacked
<1>3. CASE Decompress /\ file \in Damaged
  <2>1. unpacked[file] = {}
    BY <1>1 DEF UnpackedInv
  <2> QED  BY <1>1, <1>3, <2>1, FinalizeUnpacked DEF Decompress, Raises, RunsAgain, GivesUp, Ends
<1> QED
  BY <1>2, <1>3
  DEF UnpackAll, Decompress, UnpackZip, UnpackTar, UnpackRar, UnpackMembers, ReadPst, ReadPstFails

(* The steps in tables, of a file of which nothing was unpacked. *)
LEMMA TablesUnpacked ==
    ASSUME UnpackedInv,
           \/ OpenSheet \/ OpenTable \/ LeaveOut \/ OpenOwn \/ SkipRow \/ PassOverRow \/ ReadRow
           \/ CloseSheet \/ CursorRaises \/ CutShort \/ ExportEnds \/ EmitTable \/ FindEmbedded
    PROVE  UnpackedInv'
<1> USE DEF store, history, taken
<1>1. /\ pc \in {"sheets", "rows", "emit"} /\ pc' # "idle"
      /\ UNCHANGED <<todo, queued, status, failed, unpacked, file, ingestor>>
  <2>1. CASE OpenSheet \/ OpenTable \/ LeaveOut \/ OpenOwn
    BY <2>1 DEF OpenSheet, OpenTable, LeaveOut, OpenOwn, Open
  <2>2. CASE SkipRow \/ PassOverRow \/ ReadRow
    BY <2>2 DEF SkipRow, PassOverRow, ReadRow, AtRow
  <2>3. CASE CloseSheet \/ CursorRaises \/ CutShort \/ ExportEnds
    BY <2>3 DEF CloseSheet, CursorRaises, CutShort, ExportEnds, BreaksOff, Close
  <2>4. CASE EmitTable \/ FindEmbedded
    BY <2>4 DEF EmitTable, FindEmbedded
  <2> QED  BY <2>1, <2>2, <2>3, <2>4
<1> QED  BY <1>1, WithinUnpacked DEF UnpackedInv

(* The ends of a pass. *)
LEMMA EndsUnpacked ==
    ASSUME UnpackedInv,
           \/ Reject \/ RejectEmail \/ RejectSheet \/ RejectDbf \/ RejectTable \/ RejectPst
           \/ Succeed \/ RaiseAfterCrawl \/ Raise
    PROVE  UnpackedInv'
<1>1. CASE Reject \/ RejectSheet \/ RejectDbf \/ RejectTable
  <2>1. pc \in {"reject", "rows"} /\ Ends("failure")
    BY <1>1 DEF Reject, RejectSheet, RejectDbf, RejectTable, BreaksOff
  <2>2. Kept(unpacked[file]) = {}
    BY <2>1, KeptOf DEF UnpackedInv
  <2> QED  BY <2>1, <2>2, FinalizeUnpacked DEF Ends
<1>2. CASE RejectEmail
  <2>1. pc \in {"members", "queue"} /\ ingestor \notin Archives /\ Finalize("failure")
        /\ UNCHANGED <<todo, failed>>
    BY <1>2 DEF RejectEmail, Is, Archives
  <2>2. Kept(unpacked[file]) = {}
    BY <2>1, KeptOf DEF UnpackedInv
  <2> QED  BY <2>1, <2>2, FinalizeUnpacked
<1>3. CASE Succeed \/ RejectPst
  <2>1. (pc = "members" /\ left = {}) \/ pc = "sheets"
    BY <1>3 DEF Succeed, RejectPst
  <2>2. Kept(unpacked[file]) \subseteq BagToSet(queued)
    BY <2>1, KeptOf DEF UnpackedInv
  <2>3. Ends("success") \/ Ends("failure")
    BY <1>3 DEF Succeed, RejectPst
  <2> QED  BY <2>1, <2>2, <2>3, FinalizeUnpacked DEF Ends
<1>4. CASE RaiseAfterCrawl \/ Raise
  <2>1. /\ pc # "idle" /\ Finalize("failure")
        /\ \/ todo' = BagAdd(todo, file) /\ UNCHANGED failed
           \/ todo' = todo /\ failed' = failed \union {file}
    BY <1>4 DEF RaiseAfterCrawl, Raise, Raises, RunsAgain, GivesUp
  <2> QED  BY <2>1, FinalizeUnpacked
<1> QED  BY <1>1, <1>2, <1>3, <1>4

(* Each step keeps what was unpacked queued or still to come.              *)
LEMMA UnpackedStep == UnpackedInv /\ [Next]_vars => UnpackedInv'
<1> SUFFICES ASSUME UnpackedInv, [Next]_vars PROVE UnpackedInv'
  OBVIOUS
<1>1. CASE UNCHANGED vars
  BY <1>1
  DEF vars, store, history, job, taken, members, UnpackedInv, JobsInv, Ended
<1> QED
  BY <1>1, StartUnpacked, QueueUnpacked, MembersUnpacked, ArchivesUnpacked, TablesUnpacked,
     EndsUnpacked
  DEF Next

(* Once an archive has ended, all that was unpacked of it has been queued   *)
(* except for what is left out, for all archives and all failures but those *)
(* that use up the attempts of its job (outlookpst.py:30-39).              *)
THEOREM UnpackedIsNotLost == Spec => []UnpackedIsQueued
<1>1. UnpackedInv => UnpackedIsQueued
  BY KeptOf DEF UnpackedInv, UnpackedIsQueued, BagIn
<1> QED  BY UnpackedInit, UnpackedStep, <1>1, PTL DEF Spec

-----------------------------------------------------------------------------
(* Sets of numbers *)

FS == INSTANCE FiniteSetTheorems

(* A set of numbers has a least element: of the intervals from 0 to each,   *)
(* one has none inside of it.                                              *)
LEMMA LeastOf ==
    ASSUME NEW T, T \subseteq Nat, T # {}
    PROVE  \E x \in T : \A y \in T : x <= y
<1> DEFINE U == {0..n : n \in T}
           R == FS!StrictSubsetOrdering(Nat)
<1>1. FS!IsWellFoundedOn(R, FS!FiniteSubsetsOf(Nat))
  BY FS!FS_StrictSubsetOrderingWellFounded
<1>2. U \subseteq FS!FiniteSubsetsOf(Nat) /\ U # {}
  <2>1. ASSUME NEW n \in T PROVE 0..n \in FS!FiniteSubsetsOf(Nat)
    <3>1. n \in Int /\ FS!IsFiniteSet(0..n) /\ 0..n \subseteq Nat
      BY FS!FS_Interval
    <3> QED  BY <3>1 DEF FS!FiniteSubsetsOf
  <2> QED  BY <2>1
<1> HIDE DEF R
<1>3. PICK X \in U : \A Y \in U : ~(<<Y, X>> \in R)
  <2> HIDE DEF U
  <2> QED  BY <1>1, <1>2, FS!WFMin
<1>4. PICK x \in T : X = 0..x
  BY <1>3
<1>5. ASSUME NEW y \in T, y < x PROVE FALSE
  <2>1. 0..y \in U /\ 0..y \subseteq 0..x /\ 0..y \in SUBSET Nat /\ 0..x \in SUBSET Nat
    BY <1>5
  <2>2. x \in 0..x /\ x \notin 0..y
    BY <1>5
  <2>3. <<0..y, 0..x>> \in R
    BY <2>1, <2>2 DEF R, FS!StrictSubsetOrdering
  <2> QED  BY <1>3, <1>4, <2>1, <2>3
<1>6. \A y \in T : x <= y
  BY <1>5
<1> QED  BY <1>6
=============================================================================
