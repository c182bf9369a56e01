---------------------- MODULE ContainersMembersProofs -----------------------
(***************************************************************************)
(* Proofs that what files hold is queued by what holds it, once each time  *)
(* that is gone through; that a success has queued all it holds, or logged *)
(* what it has not; and that what was queued by a message inside of another*)
(* one has that message in the store.                                      *)
(*                                                                         *)
(* Inductive together: where each item in hand comes from (PendingHeld,    *)
(* OpenedInv, LettersInv), how often it was queued before (CountInv,       *)
(* AttachedInv), and that each member the job must account for is accounted*)
(* for or still to come (CompleteInv, ToComeInv).                          *)
(***************************************************************************)
EXTENDS ContainersProofs

-----------------------------------------------------------------------------
(* Holders *)

(* How many copies of it are in a bag. *)
Copies(i, B) == IF BagIn(i, B) THEN B[i] ELSE 0

(* One more copy of what is added, and as many as before of all else.      *)
LEMMA CopiesAdd ==
    ASSUME NEW B, IsABag(B), NEW x, NEW i
    PROVE  /\ Copies(i, B) \in Nat
           /\ Copies(i, BagAdd(B, x)) = IF i = x THEN Copies(i, B) + 1 ELSE Copies(i, B)
<1>1. \A e \in DOMAIN B : B[e] \in Nat
  BY DEF IsABag
<1>2. Copies(i, B) = IF i \in DOMAIN B THEN B[i] ELSE 0
  BY DEF Copies, BagIn, BagToSet
<1>3. Copies(i, BagAdd(B, x)) = IF i \in DOMAIN BagAdd(B, x) THEN BagAdd(B, x)[i] ELSE 0
  BY DEF Copies, BagIn, BagToSet
<1>4. Copies(i, BagAdd(B, x)) = IF i = x THEN Copies(i, B) + 1 ELSE Copies(i, B)
  <2>1. CASE x \in DOMAIN B
    BY <1>1, <1>2, <1>3, <2>1 DEF BagAdd
  <2>2. CASE x \notin DOMAIN B
    BY <1>1, <1>2, <1>3, <2>2 DEF BagAdd
  <2> QED  BY <2>1, <2>2
<1> QED  BY <1>1, <1>2, <1>4

(* What is no message of an Outlook message or of an archive of mail is     *)
(* gone through in a pass of its own.                                      *)
LEMMA OwnTaker ==
    ASSUME NEW f \in Files, Kind[f] \notin {"nested", "opfmsg"}
    PROVE  Within[f] = <<>> /\ Taker(f) = f
<1>1. Within[f] # <<>> => InParts(f, Within[f][Len(Within[f])])
  BY HoldingAssumption DEF HoldingAssumption
<1>2. Within[f] = <<>>
  BY <1>1 DEF InParts
<1> QED  BY <1>2 DEF Taker

(* The first and the last of a sequence that something is appended to.     *)
LEMMA AppendFirst ==
    ASSUME NEW S, NEW s \in Seq(S), NEW x \in S
    PROVE  /\ Append(s, x) # <<>> /\ Append(s, x) \in Seq(S) /\ Len(Append(s, x)) = Len(s) + 1
           /\ Append(s, x)[Len(Append(s, x))] = x
           /\ Append(s, x)[1] = IF s = <<>> THEN x ELSE s[1]
OBVIOUS

(* A message of an Outlook message is inside of what its holder is inside   *)
(* of, and gone through in the pass over the same file.                    *)
LEMMA NestedHolder ==
    ASSUME NEW h \in Files, NEW m \in Holds[h], Kind[m] = "nested"
    PROVE  /\ m \in Files /\ Within[m] = Append(Within[h], h) /\ Within[m] # <<>>
           /\ Within[m] \in Seq(Files) /\ Len(Within[m]) = Len(Within[h]) + 1
           /\ Within[m][Len(Within[m])] = h /\ Taker(m) = Taker(h)
<1>1. m \in Files /\ Within[h] \in Seq(Files)
  BY HoldingAssumption, ContainersAssumption DEF HoldingAssumption, ContainersAssumption
<1>2. Within[m] = Append(Within[h], h)
  BY HoldingAssumption DEF HoldingAssumption, InParts
<1>3. /\ Within[m] # <<>> /\ Within[m] \in Seq(Files) /\ Len(Within[m]) = Len(Within[h]) + 1
      /\ Within[m][Len(Within[m])] = h
      /\ Within[m][1] = IF Within[h] = <<>> THEN h ELSE Within[h][1]
  BY <1>1, <1>2, AppendFirst
<1> QED  BY <1>1, <1>2, <1>3 DEF Taker

(* The holder of a nested message. *)
LEMMA NestedHeld ==
    ASSUME NEW m \in Files, Kind[m] = "nested"
    PROVE  LET h == Within[m][Len(Within[m])]
           IN  /\ Within[m] # <<>> /\ Within[m] \in Seq(Files)
               /\ h \in Files /\ m \in Holds[h] /\ Kind[h] \in {"olemsg", "nested"}
               /\ Taker(m) \in Files /\ Kind[Taker(m)] = "olemsg"
<1> DEFINE h == Within[m][Len(Within[m])]
<1>1. Within[m] \in Seq(Files) /\ Within[m] # <<>>
  BY HoldingAssumption DEF HoldingAssumption
<1>2. h \in Files /\ Within[m][1] \in Files
  BY <1>1
<1>3. m \in Holds[h] /\ Kind[h] \in {"olemsg", "nested"} /\ Kind[Within[m][1]] = "olemsg"
  BY <1>1, HoldingAssumption DEF HoldingAssumption
<1> QED  BY <1>1, <1>2, <1>3 DEF Taker

(* A letter of an OLM archive is held by the archive, and by nothing else.  *)
LEMMA LetterHeld ==
    ASSUME NEW m \in Files, Kind[m] = "opfmsg", Within[m] # <<>>
    PROVE  /\ Taker(m) \in Files /\ m \in Holds[Taker(m)] /\ Kind[Taker(m)] = "olm"
           /\ Taker(m) # m /\ Within[m] = <<Taker(m)>>
<1> DEFINE h == Within[m][Len(Within[m])]
<1>1. Within[m] \in Seq(Files) /\ h \in Files
  BY HoldingAssumption DEF HoldingAssumption
<1>2. m \in Holds[h] /\ InParts(m, h)
  BY HoldingAssumption DEF HoldingAssumption
<1>3. Kind[h] = "olm" /\ Within[m] = Append(Within[h], h)
  BY <1>1, <1>2, HoldingAssumption DEF HoldingAssumption, InParts
<1>4. Within[h] = <<>>
  BY <1>1, <1>3, OwnTaker
<1>5. Within[m] = <<h>>
  BY <1>1, <1>3, <1>4
<1> QED  BY <1>1, <1>2, <1>3, <1>5 DEF Taker

(* The members of an OLM archive are letters. *)
LEMMA Letters ==
    ASSUME NEW h \in Files, Kind[h] = "olm", NEW m \in Holds[h]
    PROVE  m \in Files /\ Kind[m] = "opfmsg" /\ Within[m] # <<>> /\ Taker(m) = h
<1>1. m \in Files /\ Kind[m] = "opfmsg"
  BY HoldingAssumption, ContainersAssumption DEF HoldingAssumption, ContainersAssumption
<1>2. Within[m] = Append(Within[h], h) /\ Within[h] = <<>>
  BY <1>1, OwnTaker, HoldingAssumption DEF HoldingAssumption, InParts
<1> QED  BY <1>1, <1>2 DEF Taker

(* What is gone through in the pass over a file that is not the file. *)
LEMMA GoneThroughIs ==
    ASSUME NEW f \in Files, NEW h \in Files, Taker(h) = f, h # f
    PROVE  \/ Kind[f] = "olemsg" /\ Kind[h] = "nested"
           \/ Kind[f] = "olm" /\ Kind[h] = "opfmsg" /\ h \in Holds[f] /\ Within[h] # <<>>
<1>1. Within[h] # <<>> /\ Kind[h] \in {"nested", "opfmsg"}
  BY OwnTaker DEF Taker
<1> QED  BY <1>1, NestedHeld, LetterHeld

(* What is not left out is kept, and a message of an Outlook message is not *)
(* left out.                                                               *)
LEMMA KeptItem ==
    ASSUME NEW h, NEW m, NEW found, Item(h, m, TRUE) \in found, <<h, m>> \notin Ignored
    PROVE  Item(h, m, TRUE) \in Kept(found)
BY DEF Item, Kept

LEMMA HeldKept ==
    ASSUME NEW h, NEW m \in Holds[h], <<h, m>> \notin Ignored
    PROVE  Item(h, m, TRUE) \in Kept(Items(h))
<1>1. Item(h, m, TRUE) \in Items(h)
  BY DEF Items
<1> QED  BY <1>1, KeptItem

LEMMA NestedKept == ASSUME NEW h, NEW m, Kind[m] = "nested" PROVE <<h, m>> \notin Ignored
BY HoldingAssumption DEF HoldingAssumption

-----------------------------------------------------------------------------
(* The invariant *)

(* What is left of the job's members, and the one that is stored but not   *)
(* queued yet.                                                             *)
Pending == left \union (IF pc = "queue" THEN {item} ELSE {})

(* The messages of an Outlook message that were opened in this pass.       *)
Opened == held \union {open[k] : k \in DOMAIN open}

(* The members of a file are gone through.                                 *)
InMembers == pc \in {"members", "queue"}

(* What is pending is held by the file, or by a message in it that was     *)
(* opened; an item is pending once.                                        *)
PendingHeld ==
    /\ \A i \in Pending :
        /\ i.member \in Holds[i.holder] /\ Taker(i.holder) = file
        /\ ingestor = "olm" \/ i.holder \in Opened \union {file}
        /\ ingestor \in {"olm", "olemsg", "msg"} => i.whole = TRUE
    /\ pc = "queue" => item \notin left
    /\ pc \notin {"members", "queue", "reject"} => left = {}
    /\ ~InMembers => open = <<>> /\ held = {}

(* Which ingestors unpack, and which read tables; before there are members, *)
(* none was seen.                                                          *)
PhaseInv ==
    /\ ~InMembers => again = FALSE /\ seen = {}
    /\ pc = "unpack" => ingestor \in Archives
    /\ pc \in {"sheets", "rows", "emit"} => ingestor \in Tabular

(* What was queued and unpacked was held by its holder.                    *)
QueuedHeld ==
    /\ \A i \in BagToSet(queued) : i.member \in Holds[i.holder]
    /\ \A f \in Files : \A i \in unpacked[f] : i.holder = f /\ i.member \in Holds[f]

(* An Outlook message is opened after the one that holds it, and once.     *)
OpenedInv ==
    /\ Opened # {} => ingestor = "olemsg"
    /\ \A n \in Opened :
        /\ Kind[n] = "nested" /\ Taker(n) = file
        /\ Within[n][Len(Within[n])] \in Opened \union {file}
    /\ \A i \in Pending : Kind[i.member] = "nested" => i.member \notin Opened
    /\ pc = "queue" /\ ingestor = "olemsg" => Kind[item.member] # "nested"

(* The letters of an OLM archive are gone through one by one.              *)
LettersInv ==
    ingestor = "olm" =>
        /\ pc = "queue" /\ item.holder = file => \A i \in left : i.holder = file
        /\ \A i, j \in Pending : i.holder = file \/ j.holder = file \/ i.holder = j.holder

(* No item is queued more often than its holder was gone through, and less *)
(* often while it can be queued in this pass.                              *)
Fresh(i) == Copies(i, queued) < passes[file]
CountInv ==
    /\ \A i \in ItemType : Copies(i, queued) <= passes[Taker(i.holder)]
    /\ \A i \in Pending : Fresh(i)
    /\ pc \in {"unpack", "sheets", "rows", "emit"} => \A i \in ItemType : i.holder = file => Fresh(i)
    /\ InMembers /\ ingestor = "msg" /\ ~again =>
        \A i \in ItemType : i.holder = file /\ i.member \notin seen => Fresh(i)
    /\ InMembers /\ ingestor = "olemsg" =>
        \A i \in ItemType : Kind[i.holder] = "nested" /\ Taker(i.holder) = file /\ i.holder \notin Opened => Fresh(i)
    /\ pc = "queue" /\ ingestor = "msg" => item.member \in seen

(* An attachment of a letter is queued as often as the letter at most.     *)
AttachedInv ==
    \A i \in ItemType : Kind[i.holder] = "opfmsg" /\ Within[i.holder] # <<>> =>
        Copies(i, queued) + (IF i \in Pending THEN 1 ELSE 0)
            <= Copies(Item(Taker(i.holder), i.holder, TRUE), queued)

(* What a success has to account for, and how. *)
Sound(f, h, m) == m \notin Damaged \union (IF Kind[f] = "emlx" THEN Hidden ELSE {})
Accounted(f, h, m) ==
    \/ <<h, m>> \in Ignored \/ f \in unanswered
    \/ IF Kind[m] = "nested" THEN m \in nested ELSE BagIn(Item(h, m, TRUE), queued)
    \/ <<h, m>> \in logged
    \/ \E x \in logged : x[2] = h
    \/ h # f /\ \E x \in logged : x[1] = h

(* What is still to come of the job in hand. *)
ToCome(h, m) ==
    \/ Item(h, m, TRUE) \in Pending
    \/ Kind[m] = "nested" /\ m \in Opened
    \/ Kind[h] = "nested" /\ h \notin Opened
    \/ Kind[h] = "opfmsg" /\ Item(file, h, TRUE) \in Pending
    \/ ingestor = "msg" /\ ~again /\ m \in Hidden
    \/ ingestor = "pst" /\ again

(* A success is complete; and what is not complete of the job in hand is   *)
(* to come.                                                                *)
CompleteInv ==
    /\ \A f \in Jobs : status[f] = "success" =>
        \A h \in GoneThrough(f) : \A m \in Holds[h] : Sound(f, h, m) => Accounted(f, h, m)
    /\ \A h \in Files : Kind[h] = "nested" /\ status[Taker(h)] = "success" => h \in nested

(* What the job in hand has to account for, it has accounted for or will.  *)
ToComeInv ==
    InMembers =>
        \A h \in GoneThrough(file) : \A m \in Holds[h] :
            Sound(file, h, m) => Accounted(file, h, m) \/ ToCome(h, m)

(* The messages of an open message are to be opened, or were.              *)
NestedInv ==
    InMembers /\ ingestor = "olemsg" =>
        \A h \in Opened \union {file} : \A m \in Holds[h] :
            Kind[m] = "nested" => Item(h, m, TRUE) \in left \/ m \in Opened

(* A part of an email that was seen is queued, or is next.                 *)
SeenInv ==
    InMembers /\ ingestor = "msg" => \A m \in seen :
        BagIn(Item(file, m, TRUE), queued) \/ (pc = "queue" /\ item = Item(file, m, TRUE))

(* All about members.                                                      *)
MembersInv ==
    PhaseInv /\ PendingHeld /\ QueuedHeld /\ OpenedInv /\ LettersInv /\ CountInv /\ AttachedInv
        /\ CompleteInv /\ ToComeInv /\ NestedInv /\ SeenInv

(* With the types and the routing.                                         *)
AllInv == TypeInv /\ RoutedInv /\ MembersInv

-----------------------------------------------------------------------------
(* The steps *)

(* What an archive is unpacked to, and what is known to be missing of it.  *)
Unpacks(found) ==
    /\ pc = "unpack" /\ ingestor \in Archives
    /\ Crawl(found)
    /\ \A i \in found : i.holder = file /\ i.member \in Holds[file]
    /\ logged \subseteq logged'
    /\ \A m \in Holds[file] \ Damaged :
        \/ Item(file, m, TRUE) \in found
        \/ <<file, m>> \in logged'
        \/ ingestor = "pst" /\ again'

(* A pass that ends in failure, whether or not the job is run again.       *)
Fails == pc # "idle" /\ Finalize("failure")

(* A step in a table. *)
Elsewhere ==
    /\ pc \in {"sheets", "rows", "emit"} /\ pc' \in {"sheets", "rows", "emit"}
    /\ UNCHANGED <<queued, status, nested, held, passes, unpacked, unanswered, taken, members>>
    /\ logged \subseteq logged'

(* An archive that is taken out at one go.                                 *)
LEMMA UnpacksAll ==
    ASSUME file \in Files, pc = "unpack", ingestor \in Archives, NEW found, Crawl(found),
           found \subseteq Items(file), found = Items(file) \/ (ingestor = "pst" /\ again'),
           logged' = logged
    PROVE  Unpacks(found)
<1>1. \A i \in found : i.holder = file /\ i.member \in Holds[file]
  BY ItemsTyped
<1>2. \A m \in Holds[file] : Item(file, m, TRUE) \in Items(file)
  BY DEF Items
<1> QED  BY <1>1, <1>2 DEF Unpacks

(* An archive whose members are taken out one by one.                      *)
LEMMA UnpacksMembers ==
    ASSUME file \in Files, logged \subseteq Files \X (Files \union Tables), pc = "unpack",
           ingestor \in Archives, UnpackMembers
    PROVE  \E found : Unpacks(found)
<1>1. PICK failing \in SUBSET Items(file), rest \in SUBSET ItemType :
        /\ logged' = logged \union {<<i.holder, i.member>> : i \in failing}
        /\ \A i \in rest : i.holder = file /\ i.member \in Holds[file]
        /\ Crawl((Items(file) \ failing) \union rest)
  BY UnpackMembersFind
<1> DEFINE found == (Items(file) \ failing) \union rest
<1>2. \A i \in found : i.holder = file /\ i.member \in Holds[file]
  BY <1>1, ItemsTyped
<1>3. ASSUME NEW m \in Holds[file]
      PROVE  Item(file, m, TRUE) \in found \/ <<file, m>> \in logged'
  <2>1. Item(file, m, TRUE) \in Items(file)
    BY DEF Items
  <2>2. Item(file, m, TRUE).holder = file /\ Item(file, m, TRUE).member = m
    BY DEF Item
  <2> QED  BY <1>1, <2>1, <2>2
<1>4. Crawl(found) /\ logged \subseteq logged'
  BY <1>1
<1> HIDE DEF found
<1> QED  BY <1>2, <1>3, <1>4 DEF Unpacks

(* All that steps do to the members. *)
LEMMA StepsAre ==
    ASSUME TypeInv, [Next]_vars
    PROVE  \/ Start \/ (\E found : Unpacks(found)) \/ CrawlAgain
           \/ StoreMember \/ QueueMember \/ OpenMessage \/ CloseMessage \/ PassOverMember \/ Sweep
           \/ FindEmbedded \/ Succeed \/ Fails \/ Elsewhere \/ UNCHANGED vars
<1> USE DEF store, history, taken, members, writer, reading
<1>1. pc # "idle" => file \in Files
  BY JobsAreFiles DEF TypeInv, JobTyped
<1>2. CASE Reject \/ RejectEmail \/ RejectSheet \/ RejectDbf \/ RejectTable \/ RejectPst
           \/ RaiseAfterCrawl \/ Raise
  <2>1. pc # "idle" /\ Finalize("failure")
    BY <1>2 DEF Reject, RejectEmail, RejectSheet, RejectDbf, RejectTable, RejectPst, RaiseAfterCrawl,
                Raise, Raises, RunsAgain, GivesUp, Ends, BreaksOff
  <2> QED  BY <2>1 DEF Fails
<1>3. CASE UnpackAll \/ ReadPst \/ ReadPstFails
  <2>1. PICK found \in SUBSET Items(file) : Crawl(found) /\ (found = Items(file) \/ ReadPstFails)
    BY <1>3 DEF UnpackAll, ReadPst, ReadPstFails
  <2>2. /\ pc = "unpack" /\ ingestor \in Archives /\ logged' = logged
        /\ ReadPstFails => ingestor = "pst" /\ again'
    BY <1>3 DEF UnpackAll, ReadPst, ReadPstFails, Is, Archives
  <2> QED  BY <1>1, <2>1, <2>2, UnpacksAll
<1>4. CASE UnpackZip \/ UnpackTar \/ UnpackRar
  <2>1. pc = "unpack" /\ ingestor \in Archives /\ UnpackMembers
    BY <1>4 DEF UnpackZip, UnpackTar, UnpackRar, Is, Archives
  <2> QED  BY <1>1, <2>1, UnpacksMembers DEF TypeInv, StoreTyped
<1>5. CASE Decompress
  <2>1. pc = "unpack" /\ ingestor \in Archives
    BY <1>5 DEF Decompress, Is, Archives
  <2>2. CASE file \in Damaged
    BY <1>5, <2>1, <2>2 DEF Decompress, Fails, RunsAgain, GivesUp
  <2>3. CASE file \notin Damaged
    <3>1. Crawl(Items(file)) /\ logged' = logged
      BY <1>5, <2>3 DEF Decompress
    <3> QED  BY <1>1, <2>1, <3>1, UnpacksAll
  <2> QED  BY <2>2, <2>3
<1>6. CASE OpenSheet \/ OpenTable \/ LeaveOut \/ OpenOwn \/ SkipRow \/ PassOverRow \/ ReadRow
           \/ CloseSheet \/ CursorRaises \/ CutShort \/ ExportEnds \/ EmitTable
  <2>1. CASE OpenSheet \/ OpenTable \/ OpenOwn
    BY <2>1 DEF OpenSheet, OpenTable, OpenOwn, Open, Elsewhere
  <2>2. CASE SkipRow \/ PassOverRow \/ ReadRow
    BY <2>2 DEF SkipRow, PassOverRow, ReadRow, AtRow, Elsewhere
  <2>3. CASE CloseSheet \/ CutShort \/ ExportEnds
    BY <2>3 DEF CloseSheet, CutShort, ExportEnds, BreaksOff, Close, Elsewhere
  <2>4. CASE EmitTable \/ LeaveOut
    BY <2>4 DEF EmitTable, LeaveOut, Elsewhere
  <2>5. CASE CursorRaises
    BY <2>5 DEF CursorRaises, BreaksOff, Elsewhere
  <2> QED  BY <1>6, <2>1, <2>2, <2>3, <2>4, <2>5
<1> QED  BY <1>2, <1>3, <1>4, <1>5, <1>6 DEF Next

(* What takes a file is a file.                                            *)
LEMMA TakerTyped == \A h \in Files : Taker(h) \in Files
<1> SUFFICES ASSUME NEW h \in Files PROVE Taker(h) \in Files
  OBVIOUS
<1>1. Within[h] \in Seq(Files)
  BY HoldingAssumption DEF HoldingAssumption
<1>2. Within[h] # <<>> => Within[h][1] \in Files
  BY <1>1
<1> QED  BY <1>2 DEF Taker

(* Initially there are no members.                                         *)
LEMMA MembersInit == Init => MembersInv
<1> SUFFICES ASSUME Init PROVE MembersInv
  OBVIOUS
<1>1. /\ queued = EmptyBag /\ pc = "idle" /\ left = {} /\ open = <<>> /\ held = {} /\ ingestor = "none"
      /\ status = [f \in Files |-> "absent"] /\ unpacked = [f \in Files |-> {}]
      /\ passes = [f \in Files |-> 0]
      /\ again = FALSE /\ seen = {}
  BY DEF Init
<1>2. Pending = {} /\ Opened = {} /\ ~InMembers
  BY <1>1 DEF Pending, Opened, InMembers
<1>3. BagToSet(queued) = {} /\ \A i : Copies(i, queued) = 0
  BY <1>1 DEF EmptyBag, SetToBag, BagToSet, Copies, BagIn
<1>5. CountInv
  BY <1>1, <1>2, <1>3, TakerTyped DEF CountInv, ItemType
<1>6. AttachedInv
  <2> SUFFICES ASSUME NEW i \in ItemType
               PROVE  Copies(i, queued) + (IF i \in Pending THEN 1 ELSE 0)
                        <= Copies(Item(Taker(i.holder), i.holder, TRUE), queued)
    BY DEF AttachedInv
  <2>1. i \notin Pending /\ Copies(i, queued) = 0
        /\ Copies(Item(Taker(i.holder), i.holder, TRUE), queued) = 0
    BY <1>2, <1>3
  <2>2. 0 + 0 <= 0
    OBVIOUS
  <2> QED  BY <2>1, <2>2, Zenon
<1>7. CompleteInv
  BY <1>1, TakerTyped, JobsAreFiles DEF CompleteInv
<1> QED
  BY <1>1, <1>2, <1>3, <1>5, <1>6, <1>7
  DEF MembersInv, PhaseInv, PendingHeld, QueuedHeld, OpenedInv, LettersInv, ToComeInv, NestedInv, SeenInv

(* What is accounted for stays so. *)
LEMMA AccountedStays ==
    ASSUME BagToSet(queued) \subseteq BagToSet(queued'), nested \subseteq nested', logged \subseteq logged',
           unanswered \subseteq unanswered', NEW f, NEW h, NEW m, Accounted(f, h, m)
    PROVE  Accounted(f, h, m)'
BY DEF Accounted, BagIn

(* A pass that does not succeed leaves what it says of the successes. *)
LEMMA CompleteStays ==
    ASSUME CompleteInv,
           BagToSet(queued) \subseteq BagToSet(queued'), nested \subseteq nested', logged \subseteq logged',
           unanswered \subseteq unanswered',
           \A f \in Files : status'[f] = "success" => status[f] = "success"
    PROVE  CompleteInv'
<1>1. ASSUME NEW f \in Jobs, status'[f] = "success", NEW h \in GoneThrough(f), NEW m \in Holds[h], Sound(f, h, m)
      PROVE  Accounted(f, h, m)'
  <2>1. Accounted(f, h, m)
    BY <1>1, JobsAreFiles DEF CompleteInv
  <2> QED  BY <2>1, AccountedStays
<1>2. ASSUME NEW h \in Files, Kind[h] = "nested", status'[Taker(h)] = "success" PROVE h \in nested'
  BY <1>2, TakerTyped DEF CompleteInv
<1> QED  BY <1>1, <1>2 DEF CompleteInv, GoneThrough, Taker, Sound

(* The file in hand, once its ingestor has begun. *)
LEMMA InHand ==
    ASSUME TypeInv, RoutedInv, pc \notin {"idle", "reject"}
    PROVE  /\ file \in Jobs /\ file \in Files /\ file # NoFile /\ ingestor = Kind[file]
           /\ Kind[file] \notin {"nested", "leaf"}
           /\ Kind[file] # "opfmsg" => Taker(file) = file
<1>1. file \in Jobs /\ file \in Files /\ file # NoFile
  BY JobsAreFiles DEF TypeInv, JobTyped
<1>2. ingestor = Kind[file] /\ Kind[file] \notin {"nested", "leaf"}
  BY <1>1 DEF RoutedInv, Jobs
<1> QED  BY <1>1, <1>2, OwnTaker

(* Copies and passes are numbers.                                          *)
LEMMA CopiesTyped ==
    ASSUME TypeInv, NEW i PROVE Copies(i, queued) \in Nat
BY CopiesAdd DEF TypeInv, BagsTyped

LEMMA PassesTyped == ASSUME TypeInv, NEW f \in Files PROVE passes[f] \in Nat
BY DEF TypeInv, StoreTyped

(* The invariant about attachments depends on what is queued or pending. *)
LEMMA AttachedStays ==
    ASSUME TypeInv, AttachedInv, queued' = queued,
           \A i \in Pending' : i \in Pending \/ Kind[i.holder] # "opfmsg" \/ Within[i.holder] = <<>>
    PROVE  AttachedInv'
<1> SUFFICES ASSUME NEW i \in ItemType, Kind[i.holder] = "opfmsg", Within[i.holder] # <<>>
             PROVE  Copies(i, queued) + (IF i \in Pending' THEN 1 ELSE 0)
                        <= Copies(Item(Taker(i.holder), i.holder, TRUE), queued)
  BY DEF AttachedInv, Copies, Taker
<1> DEFINE a == Copies(Item(Taker(i.holder), i.holder, TRUE), queued)
           c == Copies(i, queued)
<1>1. c + (IF i \in Pending THEN 1 ELSE 0) <= a
  BY DEF AttachedInv
<1>2. a \in Nat /\ c \in Nat
  BY CopiesTyped
<1>3. i \in Pending' => i \in Pending
  OBVIOUS
<1> HIDE DEF a, c
<1>4. c + (IF i \in Pending' THEN 1 ELSE 0) <= a
  BY <1>1, <1>2, <1>3
<1> QED  BY <1>4 DEF a, c

(* The end of a pass leaves nothing pending. *)
LEMMA EndMembers ==
    ASSUME AllInv, NEW st, Finalize(st), CompleteInv'
    PROVE  MembersInv'
<1>1. /\ pc' = "idle" /\ left' = {} /\ open' = <<>> /\ held' = {} /\ ingestor' = "none"
      /\ again' = FALSE /\ seen' = {} /\ UNCHANGED <<queued, passes, unpacked>>
  BY DEF Finalize
<1>2. Pending' = {} /\ Opened' = {} /\ ~InMembers'
  BY <1>1 DEF Pending, Opened, InMembers
<1>3. PhaseInv' /\ PendingHeld' /\ LettersInv' /\ ToComeInv' /\ NestedInv' /\ SeenInv'
  BY <1>1, <1>2 DEF PhaseInv, PendingHeld, LettersInv, ToComeInv, NestedInv, SeenInv
<1>4. OpenedInv'
  BY <1>1, <1>2 DEF OpenedInv
<1>5. QueuedHeld'
  BY <1>1 DEF AllInv, MembersInv, QueuedHeld
<1>6. CountInv'
  BY <1>1, <1>2 DEF AllInv, MembersInv, CountInv, Copies, Taker
<1>7. AttachedInv'
  BY <1>1, <1>2, AttachedStays DEF AllInv, MembersInv
<1> QED  BY <1>3, <1>4, <1>5, <1>6, <1>7 DEF MembersInv

(* A failure: nothing is asked of it.                                      *)
LEMMA FailsMembers == ASSUME AllInv, Fails PROVE MembersInv'
<1>1. Finalize("failure")
  BY DEF Fails
<1>2. CompleteInv'
  <2>1. /\ status' = [status EXCEPT ![file] = "failure"] /\ nested' = nested \union held
        /\ UNCHANGED <<queued, logged, unanswered>>
    BY <1>1 DEF Finalize
  <2>2. \A f \in Files : status'[f] = "success" => status[f] = "success"
    BY <2>1 DEF AllInv, TypeInv, StoreTyped
  <2> QED  BY <2>1, <2>2, CompleteStays DEF AllInv, MembersInv
<1> QED  BY <1>1, <1>2, EndMembers

(* When an Outlook message is through, each message in it was opened: the   *)
(* outermost one that was not would have been left in its holder.          *)
LEMMA AllOpened ==
    ASSUME AllInv, pc = "members", left = {}, open = <<>>, ingestor = "olemsg"
    PROVE  \A h \in Files : Kind[h] = "nested" /\ Taker(h) = file => h \in held
<1> DEFINE Missed == {h \in Files : Kind[h] = "nested" /\ Taker(h) = file /\ h \notin held}
           depths == {Len(Within[h]) : h \in Missed}
<1>1. Opened = held
  BY DEF Opened
<1>2. file \in Files /\ Kind[file] = "olemsg" /\ Within[file] = <<>>
  BY InHand, OwnTaker DEF AllInv
<1>3. \A h \in held \union {file} : \A m \in Holds[h] : Kind[m] = "nested" => m \in held
  BY <1>1 DEF AllInv, MembersInv, NestedInv, InMembers
<1>4. ASSUME Missed # {} PROVE FALSE
  <2>1. depths \subseteq Nat /\ depths # {}
    <3>1. ASSUME NEW h \in Missed PROVE Len(Within[h]) \in Nat
      <4>1. Within[h] \in Seq(Files)
        BY HoldingAssumption DEF HoldingAssumption
      <4> QED  BY <4>1
    <3> QED  BY <1>4, <3>1
  <2>2. PICK d \in depths : \A k \in depths : d <= k
    <3> HIDE DEF depths
    <3> QED  BY <2>1, LeastOf
  <2>3. PICK m \in Missed : d = Len(Within[m])
    OBVIOUS
  <2> DEFINE h == Within[m][Len(Within[m])]
  <2>4. h \in Files /\ m \in Holds[h] /\ Kind[h] \in {"olemsg", "nested"}
    BY <2>3, NestedHeld
  <2>5. Len(Within[m]) = Len(Within[h]) + 1 /\ Taker(m) = Taker(h)
    BY <2>3, <2>4, NestedHolder
  <2> HIDE DEF h
  <2>6. CASE Kind[h] = "olemsg"
    <3>1. h = file
      BY <2>3, <2>4, <2>5, <2>6, OwnTaker
    <3> QED  BY <1>3, <2>3, <2>4, <3>1
  <2>7. CASE Kind[h] = "nested"
    <3>1. h \notin Missed
      <4>1. Len(Within[h]) \in Nat /\ Len(Within[m]) \in Nat
        BY <2>1, <2>4, HoldingAssumption DEF HoldingAssumption
      <4>2. h \in Missed => Len(Within[m]) <= Len(Within[h])
        BY <2>2, <2>3
      <4> QED  BY <2>5, <4>1, <4>2
    <3>2. h \in held
      BY <2>3, <2>4, <2>5, <2>7, <3>1
    <3> QED  BY <1>3, <2>3, <2>4, <3>2
  <2> QED  BY <2>4, <2>6, <2>7
<1> QED  BY <1>4

(* A success: nothing was to come.                                         *)
LEMMA SucceedMembers == ASSUME AllInv, Succeed PROVE MembersInv'
<1> DEFINE Complete(f) == \A h \in GoneThrough(f) : \A m \in Holds[h] : Sound(f, h, m) => Accounted(f, h, m)'
<1>1. /\ Finalize("success")
      /\ \/ pc = "members" /\ left = {} /\ open = <<>>
         \/ pc = "sheets" /\ ~Is(Workbooks)
      /\ ingestor = "msg" => again
      /\ ingestor = "pst" => ~again
  BY DEF Succeed, Ends, Is
<1>2. /\ status' = [status EXCEPT ![file] = "success"] /\ nested' = nested \union held
      /\ UNCHANGED <<queued, logged, unanswered>>
  BY <1>1 DEF Finalize
<1>3. PICK g \in Jobs : /\ g = file /\ g \in Files /\ ingestor = Kind[g]
                        /\ Kind[g] # "opfmsg" => Taker(g) = g
  BY <1>1, InHand DEF AllInv
<1>4. Complete(g)
  <2>1. CASE pc = "members"
    <3>1. Pending = {} /\ Opened = held
      BY <1>1, <2>1 DEF Pending, Opened
    <3> SUFFICES ASSUME NEW h \in GoneThrough(g), NEW m \in Holds[h], Sound(g, h, m),
                        ~Accounted(g, h, m)
                 PROVE  Accounted(g, h, m)'
      BY <1>2, AccountedStays
    <3>2. \/ Kind[m] = "nested" /\ m \in held
          \/ Kind[h] = "nested" /\ h \notin held
      BY <1>1, <1>3, <2>1, <3>1 DEF AllInv, MembersInv, ToComeInv, ToCome, InMembers
    <3>3. CASE Kind[m] = "nested" /\ m \in held
      BY <1>2, <3>3 DEF Accounted
    <3>4. CASE Kind[h] = "nested" /\ h \notin held
      <4>1. h \in Files /\ Taker(h) = g /\ h # g
        BY <3>4, <1>3 DEF GoneThrough, Jobs
      <4>2. ingestor = "olemsg"
        BY <1>3, <3>4, <4>1, GoneThroughIs
      <4> QED  BY <1>1, <1>3, <2>1, <3>4, <4>1, <4>2, AllOpened
    <3> QED  BY <3>2, <3>3, <3>4
  <2>2. CASE pc = "sheets"
    <3>1. ingestor \in OwnTables \union Databases
      <4>1. ingestor \in Tabular
        BY <2>2 DEF AllInv, MembersInv, PhaseInv
      <4> QED  BY <1>1, <2>2, <4>1 DEF Is, Tabular
    <3>2. Holds[g] = {} /\ \A h \in GoneThrough(g) : h = g
      BY <1>3, <3>1, HoldingAssumption, GoneThroughIs
      DEF HoldingAssumption, GoneThrough, OwnTables, Databases
    <3> QED  BY <3>2
  <2> QED  BY <1>1, <2>1, <2>2
<1>5. ASSUME Kind[g] = "olemsg"
      PROVE  \A h \in Files : Kind[h] = "nested" /\ Taker(h) = g => h \in held
  <2>1. pc = "members" /\ left = {} /\ open = <<>>
    BY <1>1, <1>3, <1>5 DEF AllInv, MembersInv, PhaseInv, Tabular, Workbooks, Databases, OwnTables
  <2> QED  BY <1>3, <1>5, <2>1, AllOpened
<1>6. CompleteInv'
  <2>1. ASSUME NEW f \in Jobs, status'[f] = "success" PROVE Complete(f)
    <3>1. CASE f = g
      BY <1>4, <3>1
    <3>2. CASE f # g
      <4>1. status[f] = "success"
        BY <1>2, <1>3, <2>1, <3>2
      <4> QED  BY <1>2, <4>1, AccountedStays DEF AllInv, MembersInv, CompleteInv
    <3> QED  BY <3>1, <3>2
  <2>2. ASSUME NEW h \in Files, Kind[h] = "nested", status'[Taker(h)] = "success" PROVE h \in nested'
    <3>1. Kind[Taker(h)] = "olemsg"
      BY <2>2, NestedHeld
    <3>2. CASE Taker(h) = g
      BY <1>2, <1>5, <2>2, <3>1, <3>2
    <3>3. CASE Taker(h) # g
      <4>1. status[Taker(h)] = "success"
        BY <1>2, <1>3, <2>2, <3>3
      <4> QED  BY <1>2, <2>2, <4>1 DEF AllInv, MembersInv, CompleteInv
    <3> QED  BY <3>2, <3>3
  <2> QED  BY <2>1, <2>2 DEF CompleteInv, GoneThrough, Taker, Sound
<1> QED  BY <1>1, <1>6, EndMembers

(* Tables have no members.                                                 *)
LEMMA ElsewhereMembers == ASSUME AllInv, Elsewhere PROVE MembersInv'
<1> USE DEF AllInv, MembersInv
<1>1. /\ pc \in {"sheets", "rows", "emit"} /\ pc' \in {"sheets", "rows", "emit"}
      /\ UNCHANGED <<queued, status, nested, held, passes, unpacked, unanswered, file, ingestor,
                     left, item, again, seen, open>>
      /\ logged \subseteq logged'
  BY DEF Elsewhere, taken, members
<1>2. /\ Pending' = Pending /\ Opened' = Opened /\ ~InMembers /\ ~InMembers'
      /\ left = {} /\ Pending = {}
  BY <1>1 DEF Pending, Opened, InMembers, PendingHeld
<1>3. PhaseInv' /\ PendingHeld' /\ QueuedHeld' /\ OpenedInv' /\ LettersInv'
  BY <1>1, <1>2
  DEF PhaseInv, PendingHeld, QueuedHeld, OpenedInv, LettersInv
<1>4. CountInv'
  BY <1>1, <1>2 DEF CountInv, Fresh, Copies, Taker
<1>5. AttachedInv'
  BY <1>1, <1>2, AttachedStays
<1>6. CompleteInv'
  BY <1>1, CompleteStays
<1>7. ToComeInv' /\ NestedInv' /\ SeenInv'
  BY <1>2 DEF ToComeInv, NestedInv, SeenInv
<1> QED  BY <1>3, <1>4, <1>5, <1>6, <1>7

(* Nothing changes.                                                        *)
LEMMA StutterMembers == ASSUME AllInv, UNCHANGED vars PROVE MembersInv'
<1> USE DEF AllInv, MembersInv
<1>1. UNCHANGED <<queued, status, nested, held, passes, unpacked, unanswered, file, ingestor, pc,
                  logged, left, item, again, seen, open>>
  BY DEF vars, store, history, job, taken, members, writer
<1>2. Pending' = Pending /\ Opened' = Opened /\ InMembers' = InMembers
  BY <1>1 DEF Pending, Opened, InMembers
<1>3. PhaseInv' /\ PendingHeld' /\ QueuedHeld' /\ OpenedInv' /\ LettersInv'
  BY <1>1, <1>2
  DEF PhaseInv, PendingHeld, QueuedHeld, OpenedInv, LettersInv, Taker
<1>4. CountInv'
  BY <1>1, <1>2 DEF CountInv, Fresh, Copies, Taker
<1>5. AttachedInv'
  BY <1>1, <1>2, AttachedStays
<1>6. CompleteInv'
  BY <1>1, CompleteStays
<1>7. ToComeInv'
  <2>1. \A h, m : /\ Accounted(file, h, m)' <=> Accounted(file, h, m)
                  /\ ToCome(h, m)' <=> ToCome(h, m)
    BY <1>1, <1>2 DEF Accounted, ToCome, BagIn
  <2> QED  BY <1>1, <1>2, <2>1 DEF ToComeInv, Sound, GoneThrough, Taker
<1>8. NestedInv' /\ SeenInv'
  BY <1>1, <1>2 DEF NestedInv, SeenInv, BagIn
<1> QED  BY <1>3, <1>4, <1>5, <1>6, <1>7, <1>8

(* A pass begins: all that is held by its file can be queued once more.    *)
LEMMA PassesMore ==
    ASSUME AllInv, NEW f \in Files, passes' = [passes EXCEPT ![f] = @ + 1], queued' = queued
    PROVE  /\ \A i \in ItemType : Copies(i, queued') <= passes'[Taker(i.holder)]
           /\ \A i \in ItemType : Taker(i.holder) = f => Copies(i, queued') < passes'[f]
<1>1. ASSUME NEW i \in ItemType
      PROVE  /\ Copies(i, queued') <= passes'[Taker(i.holder)]
             /\ Taker(i.holder) = f => Copies(i, queued') < passes'[f]
  <2>1. Taker(i.holder) \in Files
    BY TakerTyped DEF ItemType
  <2>2. Copies(i, queued) \in Nat /\ Copies(i, queued) <= passes[Taker(i.holder)]
    BY CopiesTyped DEF AllInv, MembersInv, CountInv
  <2>3. passes \in [Files -> Nat]
    BY DEF AllInv, TypeInv, StoreTyped
  <2>4. passes'[Taker(i.holder)] = IF Taker(i.holder) = f THEN passes[f] + 1 ELSE passes[Taker(i.holder)]
    BY <2>1, <2>3
  <2>5. passes[f] \in Nat /\ passes[Taker(i.holder)] \in Nat
    BY <2>1, <2>3
  <2> QED  BY <2>2, <2>4, <2>5
<1> QED  BY <1>1

(* The members that are found at the start.                                *)
LEMMA FoundIn ==
    ASSUME NEW i, NEW f, NEW m \in Holds[f]
    PROVE  /\ i \in {"mbox", "olm"} => Item(f, m, TRUE) \in Found(i, f)
           /\ i = "olemsg" /\ <<f, m>> \notin Ignored => Item(f, m, TRUE) \in Found(i, f)
           /\ i \in Emails /\ m \notin Hidden /\ <<f, m>> \notin Ignored =>
                Item(f, m, TRUE) \in Found(i, f)
<1>1. Item(f, m, TRUE) \in Items(f) /\ Item(f, m, TRUE).member = m
  BY DEF Items, Item
<1>2. <<f, m>> \notin Ignored => Item(f, m, TRUE) \in Kept(Items(f))
  BY <1>1, KeptItem
<1> QED  BY <1>1, <1>2 DEF Found, Emails

(* The start of a pass: each item of the file may be queued once more.     *)
LEMMA StartMembers == ASSUME AllInv, RoutedInv', Start PROVE MembersInv'
<1>1. PICK f \in BagToSet(todo) :
        /\ file' = f
        /\ passes' = [passes EXCEPT ![f] = @ + 1]
        /\ unpacked' = [unpacked EXCEPT ![f] = {}]
        /\ left' = Found(ingestor', f)
        /\ pc' = "reject" \/ (ingestor' # "none" /\ pc' = First(ingestor'))
  BY DEF Start
<1>2. pc = "idle" /\ UNCHANGED <<queued, status, nested, held, logged, unanswered, item, again, seen, open>>
  BY DEF Start, store, writer
<1>3. f \in Jobs /\ f \in Files /\ f # NoFile
  BY JobsAreFiles DEF AllInv, TypeInv, BagsTyped
<1>4. /\ open = <<>> /\ held = {} /\ again = FALSE /\ seen = {} /\ ~InMembers
  BY <1>2 DEF AllInv, MembersInv, PendingHeld, PhaseInv, InMembers
<1>5. ingestor' = Kind[f] \/ (ingestor' = "none" /\ pc' = "reject")
  BY <1>1, <1>3 DEF RoutedInv
<1>6. pc' \in {"reject", "unpack", "sheets", "members"} /\ Pending' = left'
  BY <1>1 DEF First, Pending
<1>7. Opened' = {}
  BY <1>2, <1>4 DEF Opened
<1>8. \A i \in left' : /\ i \in ItemType /\ i.holder = f /\ i.member \in Holds[f] /\ i.whole = TRUE
                       /\ Kind[f] \in {"msg", "emlx", "mbox", "olm", "olemsg"} /\ Taker(f) = f
  <2>1. left' # {} => ingestor' \in {"msg", "emlx", "mbox", "olm", "olemsg"}
    BY <1>1 DEF Found, Emails
  <2>2. left' \subseteq Items(f) /\ left' \subseteq ItemType
    BY <1>1, <1>3, FoundTyped
  <2> QED  BY <1>3, <1>5, <2>1, <2>2, ItemsTyped, OwnTaker
<1>9. PhaseInv'
  BY <1>1, <1>2, <1>4, <1>6 DEF PhaseInv, First, Archives
<1>10. PendingHeld' /\ OpenedInv' /\ LettersInv'
  <2>1. pc' \notin {"members", "queue", "reject"} => left' = {}
    BY <1>1, <1>6 DEF First, Found, Archives, Tabular, Emails, Workbooks, Databases, OwnTables
  <2>2. PendingHeld'
    BY <1>1, <1>2, <1>4, <1>6, <1>8, <2>1 DEF PendingHeld, Taker
  <2>3. OpenedInv'
    BY <1>6, <1>7 DEF OpenedInv
  <2>4. LettersInv'
    BY <1>1, <1>6, <1>8 DEF LettersInv
  <2> QED  BY <2>2, <2>3, <2>4
<1>11. QueuedHeld'
  <2>1. unpacked \in [Files -> SUBSET ItemType]
    BY DEF AllInv, TypeInv, StoreTyped
  <2> QED  BY <1>1, <1>2, <2>1 DEF AllInv, MembersInv, QueuedHeld
<1>12. CountInv'
  <2>1. /\ \A i \in ItemType : Copies(i, queued') <= passes'[Taker(i.holder)]
        /\ \A i \in ItemType : Taker(i.holder) = f => Fresh(i)'
    BY <1>1, <1>2, <1>3, PassesMore DEF Fresh
  <2>2. pc' \in {"unpack", "sheets"} \/ ingestor' = "msg" => Taker(f) = f
    BY <1>1, <1>3, <1>5, <1>9, OwnTaker
    DEF PhaseInv, Archives, Tabular, Emails, Workbooks, Databases, OwnTables
  <2> QED  BY <1>1, <1>6, <1>8, <2>1, <2>2 DEF CountInv, Taker
<1>13. AttachedInv'
  BY <1>2, <1>6, <1>8, AttachedStays DEF AllInv, MembersInv
<1>14. CompleteInv'
  BY <1>2, CompleteStays DEF AllInv, MembersInv
<1>15. ToComeInv'
  <2> SUFFICES ASSUME InMembers', NEW h \in GoneThrough(f), NEW m \in Holds[h], Sound(f, h, m),
                      <<h, m>> \notin Ignored
               PROVE  ToCome(h, m)'
    BY <1>1 DEF ToComeInv, GoneThrough, Taker, Sound, Accounted
  <2>1. /\ pc' = "members" /\ ingestor' = Kind[f] /\ Kind[f] \notin Archives \union Tabular
        /\ Kind[f] \in Emails \union {"mbox", "olm", "opfmsg", "olemsg"}
    BY <1>1, <1>3, <1>5, <1>6, ContainersAssumption
    DEF InMembers, First, Jobs, Kinds, ContainersAssumption
  <2>2. CASE h = f
    <3>1. Kind[f] # "opfmsg"
      <4>1. Taker(f) = f
        BY <2>2 DEF GoneThrough
      <4>2. Kind[f] = "opfmsg" => Within[f] = <<>>
        BY <1>3, <4>1, LetterHeld
      <4> QED  BY <1>3, <2>2, <4>2, HoldingAssumption DEF HoldingAssumption
    <3>2. Item(f, m, TRUE) \in left' \/ (Kind[f] = "msg" /\ m \in Hidden)
      <4>1. CASE m \in Hidden
        BY <1>1, <2>1, <2>2, <3>1, <4>1, FoundIn DEF Sound, Emails
      <4>2. CASE m \notin Hidden
        BY <1>1, <2>1, <2>2, <3>1, <4>2, FoundIn
      <4> QED  BY <4>1, <4>2
    <3> QED  BY <1>2, <1>4, <1>6, <2>1, <2>2, <3>2 DEF ToCome
  <2>3. CASE h # f
    <3>1. h \in Files /\ Taker(h) = f
      BY DEF GoneThrough
    <3>2. \/ Kind[f] = "olemsg" /\ Kind[h] = "nested"
          \/ Kind[f] = "olm" /\ Kind[h] = "opfmsg" /\ h \in Holds[f]
      BY <1>3, <2>3, <3>1, GoneThroughIs
    <3>3. CASE Kind[h] = "nested"
      BY <1>7, <3>3 DEF ToCome
    <3>4. CASE Kind[f] = "olm" /\ Kind[h] = "opfmsg" /\ h \in Holds[f]
      BY <1>1, <1>6, <2>1, <3>4, FoundIn DEF ToCome
    <3> QED  BY <3>2, <3>3, <3>4
  <2> QED  BY <2>2, <2>3
<1>16. NestedInv'
  <2> SUFFICES ASSUME InMembers', ingestor' = "olemsg", NEW m \in Holds[f], Kind[m] = "nested"
               PROVE  Item(f, m, TRUE) \in left'
    BY <1>1, <1>7 DEF NestedInv
  <2> QED  BY <1>1, FoundIn, NestedKept
<1>17. SeenInv'
  BY <1>2, <1>4 DEF SeenInv
<1> QED
  BY <1>9, <1>10, <1>11, <1>12, <1>13, <1>14, <1>15, <1>16, <1>17 DEF MembersInv

(* Only Outlook messages and archives of mail go through more than the file.*)
LEMMA GoneThroughAlone ==
    ASSUME NEW f \in Files, Kind[f] \notin {"olm", "olemsg"}
    PROVE  \A h \in GoneThrough(f) : h = f
BY GoneThroughIs DEF GoneThrough

(* What is held by the file, and nothing else, is left.                    *)
LEMMA SetOutMembers ==
    ASSUME AllInv, file \in Files, Taker(file) = file, ingestor = Kind[file],
           Kind[file] \in Archives \union Workbooks,
           pc' = "members", open = <<>>, held = {}, seen = {},
           UNCHANGED <<queued, status, nested, held, file, ingestor, seen, open>>,
           logged \subseteq logged', unanswered \subseteq unanswered',
           \A i \in left' : i \in ItemType /\ i.holder = file /\ i.member \in Holds[file] /\ Fresh(i)',
           \A i \in ItemType : Copies(i, queued') <= passes'[Taker(i.holder)],
           QueuedHeld',
           \A m \in Holds[file] \ Damaged :
               \/ Item(file, m, TRUE) \in left' \/ <<file, m>> \in logged' \/ (ingestor = "pst" /\ again')
               \/ <<file, m>> \in Ignored \/ file \in unanswered'
    PROVE  MembersInv'
<1>1. Pending' = left' /\ Opened' = {} /\ InMembers'
  BY DEF Pending, Opened, InMembers
<1>2. ingestor' \notin {"olm", "olemsg", "msg"} /\ Kind[file] # "opfmsg" /\ Kind[file] \notin Emails
  BY DEF Archives, Workbooks, Emails
<1>3. PhaseInv' /\ LettersInv'
  BY <1>1, <1>2 DEF PhaseInv, LettersInv, InMembers
<1>4. PendingHeld'
  BY <1>1, <1>2 DEF PendingHeld, Taker
<1>5. OpenedInv'
  BY <1>1 DEF OpenedInv
<1>6. CountInv'
  BY <1>1, <1>2 DEF CountInv, Taker
<1>7. AttachedInv'
  BY <1>1, <1>2, AttachedStays DEF AllInv, MembersInv
<1>8. CompleteInv'
  BY CompleteStays DEF AllInv, MembersInv
<1>9. ToComeInv'
  <2>1. PICK f \in Files : f = file
    OBVIOUS
  <2> SUFFICES ASSUME NEW m \in Holds[f], Sound(f, f, m)
               PROVE  Accounted(f, f, m)' \/ ToCome(f, m)'
    BY <1>2, <2>1, GoneThroughAlone DEF ToComeInv, GoneThrough, Taker, Sound
  <2>2. \/ Item(f, m, TRUE) \in left' \/ <<f, m>> \in logged' \/ (ingestor = "pst" /\ again')
        \/ <<f, m>> \in Ignored \/ f \in unanswered'
    BY <2>1 DEF Sound
  <2> QED  BY <1>1, <2>1, <2>2 DEF ToCome, Accounted
<1>10. NestedInv' /\ SeenInv'
  BY <1>2 DEF NestedInv, SeenInv
<1> QED
  BY <1>3, <1>4, <1>5, <1>6, <1>7, <1>8, <1>9, <1>10 DEF MembersInv

(* Before there are members, all items of the file can be queued.          *)
LEMMA FreshBefore ==
    ASSUME AllInv, UNCHANGED <<queued, passes, file>>
    PROVE  /\ \A i \in ItemType : Copies(i, queued') <= passes'[Taker(i.holder)]
           /\ pc \in {"unpack", "sheets", "rows", "emit"} => \A i \in ItemType : i.holder = file => Fresh(i)'
BY DEF AllInv, MembersInv, CountInv, Fresh, Taker

(* What is embedded in a workbook is found after its last sheet.           *)
LEMMA FindEmbeddedMembers == ASSUME AllInv, FindEmbedded PROVE MembersInv'
<1>1. /\ pc = "sheets" /\ pc' = "members" /\ ingestor \in Workbooks
      /\ left' = Kept(Items(file)) \/ (left' = {} /\ file \in unanswered')
      /\ logged \subseteq logged' /\ unanswered \subseteq unanswered'
      /\ UNCHANGED <<queued, status, nested, held, passes, unpacked, file, ingestor, seen, open>>
  BY DEF FindEmbedded, Is, store, history, taken, writer
<1>2. file \in Files /\ ingestor = Kind[file] /\ Taker(file) = file
  BY <1>1, InHand DEF AllInv, Workbooks
<1>3. open = <<>> /\ held = {} /\ seen = {}
  BY <1>1 DEF AllInv, MembersInv, PendingHeld, PhaseInv, InMembers
<1>4. \A i \in left' : i \in ItemType /\ i.holder = file /\ i.member \in Holds[file] /\ Fresh(i)'
  <2>1. left' \subseteq Items(file)
    BY <1>1, KeptOf
  <2> QED  BY <1>1, <1>2, <2>1, ItemsTyped, FreshBefore
<1>5. \A m \in Holds[file] :
        Item(file, m, TRUE) \in left' \/ <<file, m>> \in Ignored \/ file \in unanswered'
  BY <1>1, HeldKept
<1>6. QueuedHeld'
  BY <1>1 DEF AllInv, MembersInv, QueuedHeld
<1> QED  BY <1>1, <1>2, <1>3, <1>4, <1>5, <1>6, FreshBefore, SetOutMembers

(* An archive is unpacked: what is not in the directory was logged.        *)
LEMMA UnpacksMembersInv == ASSUME AllInv, TypeInv', NEW found, Unpacks(found) PROVE MembersInv'
<1>1. /\ pc = "unpack" /\ pc' = "members" /\ left' = Kept(found) /\ ingestor \in Archives
      /\ unpacked' = [unpacked EXCEPT ![file] = found]
      /\ UNCHANGED <<queued, status, nested, held, passes, unanswered, file, ingestor, seen, open>>
      /\ logged \subseteq logged'
      /\ \A i \in found : i.holder = file /\ i.member \in Holds[file]
      /\ \A m \in Holds[file] \ Damaged :
            Item(file, m, TRUE) \in found \/ <<file, m>> \in logged' \/ (ingestor = "pst" /\ again')
  BY DEF Unpacks, Crawl, store, taken, writer
<1>2. file \in Files /\ ingestor = Kind[file] /\ Taker(file) = file
  BY <1>1, InHand DEF AllInv, Archives
<1>3. open = <<>> /\ held = {} /\ seen = {}
  BY <1>1 DEF AllInv, MembersInv, PendingHeld, PhaseInv, InMembers
<1>4. left' \subseteq ItemType
  BY DEF TypeInv, MembersTyped
<1>5. \A i \in left' : i \in ItemType /\ i.holder = file /\ i.member \in Holds[file] /\ Fresh(i)'
  <2>1. left' \subseteq found
    BY <1>1, KeptOf
  <2> QED  BY <1>1, <1>4, <2>1, FreshBefore
<1>7. \A m \in Holds[file] \ Damaged :
        \/ Item(file, m, TRUE) \in left' \/ <<file, m>> \in logged' \/ (ingestor = "pst" /\ again')
        \/ <<file, m>> \in Ignored \/ file \in unanswered'
  BY <1>1, KeptItem
<1>6. QueuedHeld'
  <2>1. unpacked \in [Files -> SUBSET ItemType]
    BY DEF AllInv, TypeInv, StoreTyped
  <2> QED  BY <1>1, <1>2, <2>1 DEF AllInv, MembersInv, QueuedHeld
<1> QED  BY <1>1, <1>2, <1>3, <1>5, <1>6, <1>7, FreshBefore, SetOutMembers

(* The second crawl of a PST counts as another pass.                       *)
LEMMA CrawlAgainMembers == ASSUME AllInv, CrawlAgain PROVE MembersInv'
<1>1. /\ pc \in {"members", "queue"} /\ pc' = "members" /\ ingestor = "pst" /\ again'
      /\ left' = Kept(unpacked[file]) /\ passes' = [passes EXCEPT ![file] = @ + 1]
      /\ UNCHANGED <<queued, status, nested, held, unpacked, unanswered, file, ingestor, seen, open, logged>>
  BY DEF CrawlAgain, Is, store, taken, writer
<1>2. file \in Files /\ ingestor = Kind[file] /\ Taker(file) = file
  BY <1>1, InHand DEF AllInv, Archives
<1>3. \A i \in left' : /\ i \in ItemType /\ i.holder = file /\ i.member \in Holds[file] /\ Fresh(i)'
  <2>1. left' \subseteq unpacked[file]
    BY <1>1, KeptOf
  <2>3. unpacked[file] \subseteq ItemType
    BY <1>2 DEF AllInv, TypeInv, StoreTyped
  <2>2. \A i \in left' : i.holder = file /\ i.member \in Holds[file]
    BY <1>2, <2>1 DEF AllInv, MembersInv, QueuedHeld
  <2> QED  BY <1>1, <1>2, <2>1, <2>2, <2>3, PassesMore DEF Fresh
<1>4. /\ QueuedHeld'
      /\ \A i \in ItemType : Copies(i, queued') <= passes'[Taker(i.holder)]
  BY <1>1, <1>2, PassesMore DEF AllInv, MembersInv, QueuedHeld
<1>5. held = {} /\ open = <<>>
  <2>1. Opened = {}
    BY <1>1 DEF AllInv, MembersInv, OpenedInv
  <2>2. open \in Seq(Files)
    BY DEF AllInv, TypeInv, MembersTyped
  <2>3. open # <<>> => 1 \in DOMAIN open
    BY <2>2
  <2>4. open # <<>> => open[1] \in Opened
    BY <2>3 DEF Opened
  <2> QED  BY <2>1, <2>4 DEF Opened
<1>6. Pending' = left' /\ Opened' = {} /\ InMembers'
  BY <1>1, <1>5 DEF Pending, Opened, InMembers
<1>7. /\ PhaseInv' /\ PendingHeld' /\ OpenedInv' /\ LettersInv' /\ CountInv' /\ NestedInv' /\ SeenInv'
  <2>1. PhaseInv' /\ OpenedInv' /\ LettersInv' /\ NestedInv' /\ SeenInv'
    BY <1>1, <1>6 DEF PhaseInv, OpenedInv, LettersInv, NestedInv, SeenInv, InMembers
  <2>2. PendingHeld'
    BY <1>1, <1>2, <1>3, <1>5, <1>6 DEF PendingHeld, Taker
  <2>3. CountInv'
    BY <1>1, <1>2, <1>3, <1>4, <1>6 DEF CountInv, Taker
  <2> QED  BY <2>1, <2>2, <2>3
<1>8. AttachedInv'
  BY <1>1, <1>2, <1>3, <1>6, AttachedStays DEF AllInv, MembersInv
<1>9. CompleteInv'
  BY <1>1, CompleteStays DEF AllInv, MembersInv
<1>10. ToComeInv'
  BY <1>1 DEF ToComeInv, ToCome
<1> QED  BY <1>4, <1>7, <1>8, <1>9, <1>10 DEF MembersInv

(* A step among the members that queues nothing. *)
LEMMA AmongMembers ==
    ASSUME TypeInv, CountInv, UNCHANGED <<queued, passes, file>>
    PROVE  \A i \in ItemType : (Fresh(i)' <=> Fresh(i)) /\ Copies(i, queued') <= passes'[Taker(i.holder)]
BY DEF CountInv, Fresh, Taker

(* A message has no member left: it is emitted with the next flush.        *)
LEMMA CloseMembers == ASSUME AllInv, CloseMessage PROVE MembersInv'
<1> USE DEF AllInv, MembersInv
<1>1. /\ pc = "members" /\ pc' = "members" /\ open # <<>>
      /\ open' = SubSeq(open, 1, Len(open) - 1) /\ held' = held \union {open[Len(open)]}
      /\ UNCHANGED <<queued, status, nested, passes, unpacked, unanswered, file, ingestor, left, item, again,
                     seen, logged>>
  BY DEF CloseMessage, EndOfMessage, store, history, taken
<1>2. Opened' = Opened
  <2>1. open \in Seq(Files) /\ Len(open) \in Nat \ {0} /\ DOMAIN open = 1..Len(open)
    BY <1>1 DEF TypeInv, MembersTyped
  <2>2. DOMAIN open' = 1..(Len(open) - 1) /\ \A k \in 1..(Len(open) - 1) : open'[k] = open[k]
    BY <1>1, <2>1
  <2>3. 1..Len(open) = 1..(Len(open) - 1) \union {Len(open)}
    BY <2>1
  <2>4. {open[k] : k \in DOMAIN open} = {open'[k] : k \in DOMAIN open'} \union {open[Len(open)]}
    BY <2>1, <2>2, <2>3
  <2> QED  BY <1>1, <2>4 DEF Opened
<1>3. Pending' = Pending /\ InMembers /\ InMembers'
  BY <1>1 DEF Pending, InMembers
<1>4. PhaseInv' /\ PendingHeld' /\ QueuedHeld' /\ OpenedInv' /\ LettersInv'
  BY <1>1, <1>2, <1>3 DEF PhaseInv, PendingHeld, QueuedHeld, OpenedInv, LettersInv, Taker
<1>5. CountInv'
  BY <1>1, <1>2, <1>3 DEF CountInv, Fresh, Taker
<1>6. AttachedInv'
  BY <1>1, <1>3, AttachedStays
<1>7. CompleteInv'
  BY <1>1, CompleteStays
<1>8. ToComeInv'
  <2>1. \A h, m : /\ Accounted(file, h, m)' <=> Accounted(file, h, m)
                  /\ ToCome(h, m)' <=> ToCome(h, m)
    BY <1>1, <1>2, <1>3 DEF Accounted, ToCome, BagIn
  <2> QED  BY <1>1, <1>3, <2>1 DEF ToComeInv, Sound, GoneThrough, Taker
<1>9. NestedInv' /\ SeenInv'
  BY <1>1, <1>2, <1>3 DEF NestedInv, SeenInv, BagIn
<1> QED  BY <1>4, <1>5, <1>6, <1>7, <1>8, <1>9

(* The second look at an email finds what the first has not seen.          *)
LEMMA SweepMembers == ASSUME AllInv, Sweep PROVE MembersInv'
<1> USE DEF AllInv, MembersInv
<1>1. /\ pc = "members" /\ pc' = "members" /\ ingestor = "msg" /\ again' = TRUE /\ left = {} /\ ~again
      /\ left' = {i \in Kept(Items(file)) : i.member \notin seen}
      /\ UNCHANGED <<queued, status, nested, held, passes, unpacked, unanswered, file, ingestor, item, seen,
                     open, logged>>
  BY DEF Sweep, Sweepable, Is, store, history, taken, writer
<1>2. file \in Files /\ ingestor = Kind[file] /\ Taker(file) = file
  BY <1>1, InHand
<1>3. Opened = {} /\ Opened' = {} /\ Pending' = left' /\ InMembers /\ InMembers'
  BY <1>1 DEF OpenedInv, Opened, Pending, InMembers
<1>4. \A i \in left' : /\ i \in ItemType /\ i.holder = file /\ i.member \in Holds[file] /\ Fresh(i)
                       /\ i.whole = TRUE
  <2>1. left' \subseteq Items(file)
    BY <1>1, KeptOf
  <2> QED  BY <1>1, <1>2, <1>3, <2>1, ItemsTyped DEF CountInv
<1>5. PhaseInv' /\ QueuedHeld' /\ OpenedInv' /\ LettersInv' /\ NestedInv'
  BY <1>1, <1>3 DEF PhaseInv, QueuedHeld, OpenedInv, LettersInv, NestedInv
<1>6. PendingHeld'
  BY <1>1, <1>2, <1>3, <1>4 DEF PendingHeld, Taker
<1>7. CountInv'
  BY <1>1, <1>3, <1>4 DEF CountInv, Fresh, Taker
<1>8. AttachedInv'
  BY <1>1, <1>2, <1>3, <1>4, AttachedStays
<1>9. CompleteInv'
  BY <1>1, CompleteStays
<1>10. ToComeInv'
  <2>1. PICK f \in Files : f = file /\ Kind[f] \notin {"olm", "olemsg"}
    BY <1>1, <1>2
  <2> SUFFICES ASSUME NEW m \in Holds[f]
               PROVE  Accounted(f, f, m)' \/ ToCome(f, m)'
    BY <1>1, <2>1, GoneThroughAlone DEF ToComeInv, GoneThrough, Taker, Sound
  <2>2. Kind[m] # "nested"
    <3>1. m \in Files
      BY <2>1, ContainersAssumption DEF ContainersAssumption
    <3>2. Kind[m] = "nested" => f = Within[m][Len(Within[m])]
      BY NestedHolder
    <3> QED  BY <1>1, <1>2, <2>1, <3>1, <3>2, NestedHeld
  <2>3. CASE m \in seen
    <3>1. BagIn(Item(f, m, TRUE), queued)
      BY <1>1, <1>3, <2>1, <2>3 DEF SeenInv
    <3> QED  BY <1>1, <2>2, <3>1 DEF Accounted
  <2>4. CASE m \notin seen /\ <<f, m>> \notin Ignored
    <3>1. Item(f, m, TRUE) \in Kept(Items(f)) /\ Item(f, m, TRUE).member = m
      BY <2>4, HeldKept DEF Item
    <3> QED  BY <1>1, <1>3, <2>1, <2>4, <3>1 DEF ToCome
  <2>5. CASE <<f, m>> \in Ignored
    BY <2>5 DEF Accounted
  <2> QED  BY <2>3, <2>4, <2>5
<1>11. SeenInv'
  BY <1>1, <1>3 DEF SeenInv, BagIn
<1> QED  BY <1>5, <1>6, <1>7, <1>8, <1>9, <1>10, <1>11

(* A member is stored, and next to be queued.                              *)
LEMMA StoreMembers == ASSUME AllInv, TypeInv', StoreMember PROVE MembersInv'
<1> USE DEF AllInv, MembersInv
<1>1. PICK i \in left : /\ Due(i) /\ Kind[i.member] # "nested" /\ left' = left \ {i} /\ item' = i
                       /\ seen' = IF Is(Emails) THEN seen \union {i.member} ELSE seen
  BY DEF StoreMember
<1>2. /\ pc = "members" /\ pc' = "queue"
      /\ UNCHANGED <<queued, status, nested, held, passes, unpacked, unanswered, file, ingestor, again, open,
                     logged>>
  BY DEF StoreMember, store, history, taken, writer
<1>3. Pending' = Pending /\ Opened' = Opened /\ InMembers /\ InMembers' /\ Pending = left
  BY <1>1, <1>2 DEF Pending, Opened, InMembers
<1>4. PhaseInv' /\ PendingHeld' /\ QueuedHeld' /\ OpenedInv'
  BY <1>1, <1>2, <1>3 DEF PhaseInv, PendingHeld, QueuedHeld, OpenedInv, Taker
<1>5. LettersInv'
  <2>1. ASSUME ingestor = "olm", i.holder = file PROVE \A j \in left' : j.holder = file
    <3>1. open = <<>>
      <4>1. Opened = {} /\ open \in Seq(Files)
        BY <2>1 DEF OpenedInv, TypeInv, MembersTyped
      <4>2. open # <<>> => 1 \in DOMAIN open
        BY <4>1
      <4>3. open # <<>> => open[1] \in Opened
        BY <4>2 DEF Opened
      <4> QED  BY <4>1, <4>3
    <3> QED  BY <1>1, <2>1, <3>1 DEF Due
  <2> QED  BY <1>1, <1>2, <1>3, <2>1 DEF LettersInv
<1>6. CountInv'
  BY <1>1, <1>2, <1>3 DEF CountInv, Fresh, Taker, Is, Emails
<1>7. AttachedInv'
  BY <1>2, <1>3, AttachedStays
<1>8. CompleteInv'
  BY <1>2, CompleteStays
<1>9. ToComeInv'
  <2>1. \A h, m : /\ Accounted(file, h, m)' <=> Accounted(file, h, m)
                  /\ ToCome(h, m)' <=> ToCome(h, m)
    BY <1>2, <1>3 DEF Accounted, ToCome, BagIn
  <2> QED  BY <1>2, <1>3, <2>1 DEF ToComeInv, Sound, GoneThrough, Taker
<1>10. NestedInv'
  <2>1. \A h, m : Kind[m] = "nested" => Item(h, m, TRUE) # i
    BY <1>1 DEF Item
  <2> QED  BY <1>1, <1>2, <1>3, <2>1 DEF NestedInv
<1>11. SeenInv'
  <2>1. ASSUME ingestor = "msg" PROVE i = Item(file, i.member, TRUE)
    <3>1. i.whole = TRUE /\ i.holder = file
      BY <1>3, <2>1 DEF PendingHeld, OpenedInv
    <3>2. i \in ItemType
      BY DEF TypeInv, MembersTyped
    <3> QED  BY <3>1, <3>2 DEF ItemType, Item
  <2> QED  BY <1>1, <1>2, <1>3, <2>1 DEF SeenInv, BagIn
<1> QED  BY <1>4, <1>5, <1>6, <1>7, <1>8, <1>9, <1>10, <1>11

(* A message is opened: its members are to come instead of it.             *)
LEMMA OpenMembers == ASSUME AllInv, OpenMessage PROVE MembersInv'
<1> USE DEF AllInv, MembersInv
<1>1. PICK i \in left : /\ Kind[i.member] = "nested"
                       /\ left' = (left \ {i}) \union Kept(Items(i.member))
                       /\ open' = Append(open, i.member)
  BY DEF OpenMessage
<1> DEFINE n == i.member
<1>2. /\ pc = "members" /\ pc' = "members" /\ ingestor = "olemsg"
      /\ UNCHANGED <<queued, status, nested, held, passes, unpacked, unanswered, file, ingestor, item, again,
                     seen, logged>>
  BY DEF OpenMessage, Is, store, history, taken, writer
<1>3. file \in Files /\ Kind[file] = "olemsg" /\ Taker(file) = file
  BY <1>2, InHand
<1>4. Opened' = Opened \union {n}
  <2>1. open \in Seq(Files)
    BY DEF TypeInv, MembersTyped
  <2>2. DOMAIN open' = DOMAIN open \union {Len(open) + 1} /\ Len(open) + 1 \notin DOMAIN open
    BY <1>1, <2>1
  <2>3. open'[Len(open) + 1] = n /\ \A k \in DOMAIN open : open'[k] = open[k]
    BY <1>1, <2>1
  <2>4. {open'[k] : k \in DOMAIN open'} = {open[k] : k \in DOMAIN open} \union {n}
    BY <2>2, <2>3
  <2> QED  BY <1>2, <2>4 DEF Opened
<1>5. Pending = left /\ Pending' = left' /\ InMembers /\ InMembers'
  BY <1>2 DEF Pending, InMembers
<1>6. /\ i \in ItemType /\ i.member \in Holds[i.holder] /\ i.holder \in Files /\ Taker(i.holder) = file
      /\ i.holder \in Opened \union {file} /\ i.whole = TRUE /\ n \in Files
  <2>1. left \subseteq ItemType
    BY DEF TypeInv, MembersTyped
  <2> QED  BY <1>2, <1>5, <2>1 DEF PendingHeld, ItemType
<1>7. /\ Taker(n) = file /\ Within[n][Len(Within[n])] = i.holder /\ n # file
      /\ Len(Within[n]) \in Nat
  <2>1. Within[n] \in Seq(Files)
    BY <1>6, HoldingAssumption DEF HoldingAssumption
  <2> QED  BY <1>1, <1>3, <1>6, <2>1, NestedHolder
<1>8. n \notin Opened
  BY <1>1, <1>5 DEF OpenedInv
<1>9. \A x \in Kept(Items(n)) :
        x \in ItemType /\ x.holder = n /\ x.member \in Holds[n] /\ x.whole = TRUE
  BY <1>6, ItemsTyped, KeptOf
<1>10. \A m \in Holds[n] : <<n, m>> \in Ignored \/ Item(n, m, TRUE) \in Kept(Items(n))
  BY HeldKept
<1>11. PhaseInv' /\ QueuedHeld' /\ LettersInv' /\ SeenInv'
  BY <1>2, <1>5 DEF PhaseInv, QueuedHeld, LettersInv, SeenInv
<1>12. PendingHeld'
  BY <1>1, <1>2, <1>4, <1>5, <1>7, <1>9 DEF PendingHeld, Taker
<1>13. OpenedInv'
  <2>1. ASSUME NEW x \in left', Kind[x.member] = "nested" PROVE x.member \notin Opened'
    <3>1. CASE x \in left \ {i}
      <4>1. x.member \notin Opened
        BY <1>5, <2>1, <3>1 DEF OpenedInv
      <4>2. ASSUME x.member = n PROVE FALSE
        <5>1. x \in ItemType /\ x.member \in Holds[x.holder] /\ x.holder \in Files /\ x.whole = TRUE
          <6>1. left \subseteq ItemType
            BY DEF TypeInv, MembersTyped
          <6> QED  BY <1>2, <1>5, <3>1, <6>1 DEF PendingHeld, ItemType
        <5>2. x.holder = i.holder
          BY <1>7, <2>1, <4>2, <5>1, NestedHolder
        <5> QED  BY <1>6, <3>1, <4>2, <5>1, <5>2 DEF ItemType
      <4> QED  BY <1>4, <4>1, <4>2
    <3>2. CASE x \in Kept(Items(n))
      <4>1. Within[x.member][Len(Within[x.member])] = n /\ Len(Within[x.member]) = Len(Within[n]) + 1
        BY <1>6, <1>9, <2>1, <3>2, NestedHolder
      <4>2. x.member \notin Opened
        BY <1>7, <1>8, <4>1 DEF OpenedInv
      <4>3. x.member # n
        BY <1>7, <4>1
      <4> QED  BY <1>4, <4>2, <4>3
    <3> QED  BY <1>1, <2>1, <3>1, <3>2
  <2> QED  BY <1>1, <1>2, <1>4, <1>5, <1>6, <1>7, <2>1 DEF OpenedInv, Taker
<1>14. CountInv'
  <2>1. \A x \in Kept(Items(n)) : Fresh(x)
    BY <1>1, <1>2, <1>5, <1>7, <1>8, <1>9 DEF CountInv
  <2> QED  BY <1>1, <1>2, <1>4, <1>5, <2>1 DEF CountInv, Fresh, Taker
<1>15. AttachedInv'
  BY <1>1, <1>2, <1>5, <1>9, AttachedStays
<1>16. CompleteInv'
  BY <1>2, CompleteStays
<1>17. ToComeInv'
  <2>1. PICK f \in Files : f = file
    BY <1>3
  <2> SUFFICES ASSUME NEW h \in GoneThrough(f), NEW m \in Holds[h], Accounted(f, h, m) \/ ToCome(h, m)
               PROVE  Accounted(f, h, m)' \/ ToCome(h, m)'
    BY <1>2, <1>5, <2>1 DEF ToComeInv, GoneThrough, Taker, Sound
  <2>2. CASE Accounted(f, h, m)
    BY <1>2, <2>2, AccountedStays
  <2>3. CASE Item(h, m, TRUE) \in left
    <3>1. CASE Item(h, m, TRUE) = i
      BY <1>1, <1>4, <3>1 DEF ToCome, Item
    <3>2. CASE Item(h, m, TRUE) # i
      BY <1>1, <1>5, <2>3, <3>2 DEF ToCome
    <3> QED  BY <3>1, <3>2
  <2>4. CASE Kind[m] = "nested" /\ m \in Opened
    BY <1>4, <2>4 DEF ToCome
  <2>5. CASE Kind[h] = "nested" /\ h \notin Opened
    <3>1. CASE h = n
      BY <1>1, <1>5, <1>10, <3>1 DEF ToCome, Accounted
    <3>2. CASE h # n
      BY <1>4, <2>5, <3>2 DEF ToCome
    <3> QED  BY <3>1, <3>2
  <2>6. CASE Kind[h] = "opfmsg" /\ Item(file, h, TRUE) \in left
    <3>1. Item(file, h, TRUE) # i
      BY <1>1, <2>6 DEF Item
    <3> QED  BY <1>1, <1>2, <1>5, <2>6, <3>1 DEF ToCome
  <2> QED  BY <1>2, <1>5, <2>2, <2>3, <2>4, <2>5, <2>6 DEF ToCome
<1>18. NestedInv'
  <2> SUFFICES ASSUME NEW h \in Opened \union {file, n}, NEW m \in Holds[h], Kind[m] = "nested"
               PROVE  Item(h, m, TRUE) \in left' \/ m \in Opened'
    BY <1>2, <1>4 DEF NestedInv
  <2>1. CASE h = n
    BY <1>1, <1>10, <2>1, NestedKept
  <2>2. CASE h # n
    <3>1. Item(h, m, TRUE) \in left \/ m \in Opened
      BY <1>2, <1>5, <2>2 DEF NestedInv
    <3>2. Item(h, m, TRUE) = i => m = n
      BY DEF Item
    <3> QED  BY <1>1, <1>4, <3>1, <3>2
  <2> QED  BY <2>1, <2>2
<1> QED  BY <1>11, <1>12, <1>13, <1>14, <1>15, <1>16, <1>17, <1>18

(* The attachments that the letter just stored names. *)
LEMMA AttachmentsAre ==
    ASSUME AllInv, pc = "queue", NEW i \in Attachments(item)
    PROVE  /\ ingestor = "olm" /\ item = Item(file, item.member, TRUE) /\ item.holder = file
           /\ item.member \in Files /\ Kind[item.member] = "opfmsg" /\ Within[item.member] # <<>>
           /\ Taker(item.member) = file /\ item.member # file
           /\ i \in ItemType /\ i.holder = item.member /\ i.member \in Holds[i.holder] /\ i.whole = TRUE
           /\ i # item
<1>1. ingestor = "olm" /\ item.holder = file /\ i \in Items(item.member)
  BY KeptOf DEF Attachments, Is
<1>2. file \in Files /\ Kind[file] = "olm" /\ Taker(file) = file
  BY <1>1, InHand DEF AllInv
<1>3. item \in ItemType /\ item \in Pending
  BY DEF AllInv, TypeInv, MembersTyped, Pending
<1>4. item.member \in Holds[file] /\ item.whole = TRUE
  BY <1>1, <1>3 DEF AllInv, MembersInv, PendingHeld
<1>5. item = Item(file, item.member, TRUE)
  BY <1>1, <1>3, <1>4 DEF ItemType, Item
<1>6. /\ item.member \in Files /\ Kind[item.member] = "opfmsg" /\ Within[item.member] # <<>>
      /\ Taker(item.member) = file
  BY <1>2, <1>4, Letters
<1>7. i \in ItemType /\ i.holder = item.member /\ i.member \in Holds[i.holder] /\ i.whole = TRUE
  BY <1>1, <1>6, ItemsTyped
<1> QED  BY <1>1, <1>2, <1>5, <1>6, <1>7

(* A member is queued, once more than before.                              *)
LEMMA QueueMembers == ASSUME AllInv, QueueMember PROVE MembersInv'
<1> USE DEF AllInv, MembersInv
<1>0. file \in Files
  BY InHand DEF QueueMember
<1>1. PICK x : x = item /\ \E f \in Files : f = file
  BY <1>0
<1>21. PICK f \in Files : f = file
  BY <1>0
<1>2. /\ x = item /\ f = file /\ pc = "queue" /\ pc' = "members"
      /\ queued' = BagAdd(queued, x) /\ left' = left \union Attachments(x)
      /\ UNCHANGED <<status, nested, held, passes, unpacked, unanswered, file, ingestor, again, seen, open,
                     logged>>
  BY <1>1, <1>21 DEF QueueMember, store, history, taken, writer
<1>3. ingestor = Kind[f] /\ f \in Jobs /\ InMembers /\ InMembers' /\ Opened' = Opened
  BY <1>2, InHand DEF InMembers, Opened
<1>4. Pending = left \union {x} /\ x \notin left /\ Pending' = left' /\ left \subseteq ItemType
  BY <1>2 DEF Pending, PendingHeld, TypeInv, MembersTyped
<1>5. x \in ItemType /\ x.member \in Holds[x.holder] /\ Taker(x.holder) = f /\ x.holder \in Files
  BY <1>2, <1>4 DEF TypeInv, MembersTyped, PendingHeld, ItemType
<1>6. BagToSet(queued') = BagToSet(queued) \union {x}
  BY <1>2, BagAddSet
<1>7. \A i : /\ Copies(i, queued) \in Nat
             /\ Copies(i, queued') = IF i = x THEN Copies(i, queued) + 1 ELSE Copies(i, queued)
  BY <1>2, CopiesAdd DEF TypeInv, BagsTyped
<1>8. \A i \in Attachments(x) :
        /\ ingestor = "olm" /\ x = Item(f, x.member, TRUE) /\ x.holder = f
        /\ Kind[x.member] = "opfmsg" /\ Within[x.member] # <<>>
        /\ Taker(x.member) = f /\ x.member # f
        /\ i \in ItemType /\ i.holder = x.member /\ i.member \in Holds[i.holder] /\ i.whole = TRUE
        /\ i # x
  BY <1>2, AttachmentsAre
<1>9. AttachedInv'
  <2> SUFFICES ASSUME NEW i \in ItemType, Kind[i.holder] = "opfmsg", Within[i.holder] # <<>>
               PROVE  Copies(i, queued') + (IF i \in Pending' THEN 1 ELSE 0)
                        <= Copies(Item(Taker(i.holder), i.holder, TRUE), queued')
    BY DEF AttachedInv, Copies, Taker
  <2> DEFINE a == Item(Taker(i.holder), i.holder, TRUE)
             c == Copies(i, queued)
             d == Copies(a, queued)
  <2>1. c + (IF i \in Pending THEN 1 ELSE 0) <= d
    BY DEF AttachedInv
  <2>2. /\ c \in Nat /\ d \in Nat
        /\ Copies(i, queued') = IF i = x THEN c + 1 ELSE c
        /\ Copies(a, queued') = IF a = x THEN d + 1 ELSE d
    BY <1>7
  <2>3. i = x => i \in Pending /\ i \notin Pending'
    BY <1>2, <1>4, <1>8
  <2>4. i \in Attachments(x) => a = x /\ i # x
    BY <1>8
  <2>5. i \in Pending' => i \in Attachments(x) \/ i \in Pending
    BY <1>2, <1>4
  <2> DEFINE p == IF i \in Pending THEN 1 ELSE 0
             q == IF i \in Pending' THEN 1 ELSE 0
             c1 == Copies(i, queued')
             d1 == Copies(a, queued')
  <2>6. /\ c \in Nat /\ d \in Nat /\ p \in {0, 1} /\ q \in {0, 1} /\ c + p <= d
        /\ c1 \in {c, c + 1} /\ d1 \in {d, d + 1}
        /\ \/ p = 1 /\ q = 0
           \/ c1 = c /\ d1 = d + 1
           \/ c1 = c /\ q <= p
    <3>1. CASE i = x
      BY <2>1, <2>2, <2>3, <3>1
    <3>2. CASE i # x /\ i \in Attachments(x)
      BY <2>1, <2>2, <2>4, <3>2
    <3>3. CASE i # x /\ i \notin Attachments(x)
      <4>1. i \in Pending' => i \in Pending
        BY <2>5, <3>3
      <4>2. q = 1 => p = 1
        BY <4>1
      <4>3. q \in {0, 1} /\ p \in {0, 1}
        OBVIOUS
      <4>4. c + p <= d /\ c \in Nat /\ d \in Nat /\ c1 = c /\ d1 \in {d, d + 1}
        BY <2>1, <2>2, <3>3
      <4>5. q <= p
        <5> HIDE DEF q, p
        <5> QED  BY <4>2, <4>3
      <4> QED  BY <4>3, <4>4, <4>5
    <3> QED  BY <3>1, <3>2, <3>3
  <2> HIDE DEF a, c, d, p, q, c1, d1
  <2>7. c1 + q <= d1
    BY <2>6
  <2> QED  BY <2>7 DEF a, q, c1, d1
<1>10. CountInv'
  <2>1. \A i \in ItemType : Fresh(i)' <=> Copies(i, queued') < passes[f]
    BY <1>2 DEF Fresh, Copies
  <2>2. \A i \in ItemType : i # x /\ Fresh(i) => Fresh(i)'
    BY <1>2, <1>7, <2>1 DEF Fresh
  <2>3. passes[f] \in Nat
    BY PassesTyped
  <2>4. ASSUME NEW i \in ItemType PROVE Copies(i, queued') <= passes[Taker(i.holder)]
    <3>1. CASE i = x
      <4>1. Copies(x, queued) < passes[f]
        BY <1>2, <1>4 DEF CountInv, Fresh
      <4> QED  BY <1>5, <1>7, <2>3, <3>1, <4>1
    <3>2. CASE i # x
      BY <1>7, <3>2 DEF CountInv
    <3> QED  BY <3>1, <3>2
  <2>5. ASSUME NEW i \in Pending' PROVE Fresh(i)'
    <3>1. CASE i \in left
      BY <1>4, <2>2, <3>1 DEF CountInv
    <3>2. CASE i \in Attachments(x)
      <4>1. i \in ItemType /\ i \in Pending' /\ Item(Taker(i.holder), i.holder, TRUE) = x
            /\ Kind[i.holder] = "opfmsg" /\ Within[i.holder] # <<>>
        BY <1>8, <3>2
      <4>2. Copies(i, queued') + 1 <= Copies(x, queued')
        <5>1. Copies(i, queued)' + 1 <= Copies(Item(Taker(i.holder), i.holder, TRUE), queued)'
          BY <1>9, <4>1 DEF AttachedInv, Taker
        <5> QED  BY <4>1, <5>1 DEF Copies, Taker
      <4>3. Copies(x, queued') <= passes[f]
        BY <1>5, <2>4
      <4> QED  BY <1>7, <2>1, <2>3, <4>1, <4>2, <4>3
    <3> QED  BY <1>2, <1>4, <3>1, <3>2
  <2>6. ASSUME ingestor = "msg", ~again, NEW i \in ItemType, i.holder = file, i.member \notin seen
        PROVE  Fresh(i)'
    BY <1>2, <1>3, <2>2, <2>6 DEF CountInv
  <2>7. ASSUME ingestor = "olemsg", NEW i \in ItemType, Kind[i.holder] = "nested",
               Taker(i.holder) = file, i.holder \notin Opened
        PROVE  Fresh(i)'
    <3>1. x.holder \in Opened \union {file}
      BY <1>2, <1>4, <2>7 DEF PendingHeld
    <3>2. i # x
      BY <1>2, <1>3, <2>7, <3>1
    <3> QED  BY <1>2, <1>3, <2>2, <2>7, <3>2 DEF CountInv
  <2>8. \A i \in ItemType : Copies(i, queued)' <= passes'[Taker(i.holder)]
    BY <1>2, <2>4 DEF Copies
  <2> HIDE DEF AllInv, MembersInv
  <2> QED  BY <1>2, <1>3, <2>5, <2>6, <2>7, <2>8 DEF CountInv, Taker
<1>11. PhaseInv' /\ QueuedHeld'
  BY <1>2, <1>3, <1>5, <1>6 DEF PhaseInv, QueuedHeld
<1>12. PendingHeld'
  BY <1>2, <1>3, <1>4, <1>8 DEF PendingHeld, Taker
<1>13. OpenedInv'
  <2>1. \A i \in Pending' : Kind[i.member] = "nested" => i.member \notin Opened
    BY <1>2, <1>4, <1>8 DEF OpenedInv
  <2> QED  BY <1>2, <1>3, <2>1 DEF OpenedInv, Taker
<1>14. LettersInv'
  <2>1. ASSUME ingestor = "olm", NEW i \in left', NEW j \in left'
        PROVE  i.holder = f \/ j.holder = f \/ i.holder = j.holder
    <3>1. x.holder = f => \A k \in left : k.holder = f
      BY <1>2, <2>1 DEF LettersInv
    <3>2. \A k \in left' : k \in left \/ (k \in Attachments(x) /\ k.holder = x.member /\ x.holder = f)
      BY <1>2, <1>8
    <3>3. i \in left /\ j \in left => i.holder = f \/ j.holder = f \/ i.holder = j.holder
      BY <1>2, <1>4, <2>1 DEF LettersInv
    <3> QED  BY <3>1, <3>2, <3>3
  <2> QED  BY <1>2, <1>4, <2>1 DEF LettersInv
<1>15. CompleteInv'
  BY <1>2, <1>6, CompleteStays
<1>16. ToComeInv'
  <2> SUFFICES ASSUME NEW h \in GoneThrough(f), NEW m \in Holds[h], Accounted(f, h, m) \/ ToCome(h, m)
               PROVE  Accounted(f, h, m)' \/ ToCome(h, m)'
    BY <1>2, <1>3 DEF ToComeInv, GoneThrough, Taker, Sound
  <2>1. h \in Files /\ Taker(h) = f /\ (h = f \/ h \notin Damaged)
    BY DEF GoneThrough
  <2>2. CASE Accounted(f, h, m)
    BY <1>2, <1>6, <2>2, AccountedStays
  <2>3. CASE Item(h, m, TRUE) = x
    <3>1. x.member = m
      BY <2>3 DEF Item
    <3>2. Kind[m] # "nested"
      <4> SUFFICES ASSUME Kind[m] = "nested" PROVE FALSE
        OBVIOUS
      <4>1. m \in Files /\ Taker(m) = f
        BY <2>1, NestedHolder
      <4>2. Kind[f] = "olemsg"
        BY <4>1, NestedHeld
      <4> QED  BY <1>2, <1>3, <3>1, <4>2 DEF OpenedInv
    <3> QED  BY <1>6, <2>3, <3>2 DEF Accounted, BagIn
  <2>4. CASE Item(h, m, TRUE) \in left
    BY <1>2, <1>4, <2>4 DEF ToCome
  <2>5. CASE Kind[h] = "opfmsg" /\ Item(f, h, TRUE) = x
    <3>1. x.member = h /\ x.holder = f /\ h \in Holds[f]
      BY <1>5, <2>5 DEF Item
    <3>2. h # f
      <4> SUFFICES ASSUME h = f PROVE FALSE
        OBVIOUS
      <4>1. Within[f] # <<>>
        BY <2>5, <3>1, HoldingAssumption DEF HoldingAssumption
      <4> QED  BY <2>1, <2>5, <4>1, LetterHeld
    <3>3. ingestor = "olm"
      BY <1>3, <2>1, <2>5, <3>2, GoneThroughIs
    <3>4. Attachments(x) = Kept(Items(h))
      BY <1>2, <2>1, <3>1, <3>2, <3>3 DEF Attachments, Is
    <3>5. <<h, m>> \in Ignored \/ Item(h, m, TRUE) \in left'
      BY <1>2, <3>4, HeldKept
    <3> QED  BY <1>4, <3>5 DEF ToCome, Accounted
  <2>6. CASE Kind[h] = "opfmsg" /\ Item(f, h, TRUE) \in left
    BY <1>2, <1>4, <2>6 DEF ToCome
  <2>7. CASE \/ Kind[m] = "nested" /\ m \in Opened
             \/ Kind[h] = "nested" /\ h \notin Opened
             \/ ingestor = "msg" /\ ~again /\ m \in Hidden
             \/ ingestor = "pst" /\ again
    BY <1>2, <1>3, <2>7 DEF ToCome
  <2> QED  BY <1>2, <1>4, <2>2, <2>3, <2>4, <2>5, <2>6, <2>7 DEF ToCome
<1>17. NestedInv'
  BY <1>2, <1>3 DEF NestedInv
<1>18. SeenInv'
  BY <1>2, <1>3, <1>6 DEF SeenInv, BagIn
<1> QED  BY <1>9, <1>10, <1>11, <1>12, <1>13, <1>14, <1>15, <1>16, <1>17, <1>18

(* Only an Outlook message has messages open. *)
LEMMA NoneOpen ==
    ASSUME TypeInv, OpenedInv, ingestor # "olemsg" PROVE Opened = {} /\ open = <<>>
<1>1. Opened = {} /\ open \in Seq(Files)
  BY DEF OpenedInv, TypeInv, MembersTyped
<1>2. open # <<>> => 1 \in DOMAIN open
  BY <1>1
<1>3. open # <<>> => open[1] \in Opened
  BY <1>2 DEF Opened
<1> QED  BY <1>1, <1>3

(* What is passed over with a member is what its letter has left. *)
LEMMA PassesOver ==
    ASSUME AllInv, PassOverMember
    PROVE  /\ pc \in {"members", "queue"} /\ ingestor \in {"mbox", "olm"} /\ pc' = "members"
           /\ UNCHANGED <<queued, status, nested, held, passes, unpacked, unanswered, file, ingestor, again, seen,
                          open>>
           /\ \E i \in Pending :
                /\ logged' = logged \union {<<i.holder, i.member>>}
                /\ left' \subseteq Pending
                /\ \A j \in Pending : \/ j = i
                                      \/ j \in left' 
                                      \/ j.holder = i.holder /\ j.holder # file
<1> USE DEF AllInv, MembersInv
<1>1. PICK i \in Pending :
        /\ PassOver(i)
        /\ \/ pc = "members" /\ i \in left /\ Due(i)
           \/ pc = "queue" /\ i = item
  BY DEF PassOverMember, Pending
<1>2. pc \in {"members", "queue"} /\ ingestor \in {"mbox", "olm"}
  BY DEF PassOverMember, Is
<1>3. /\ logged' = logged \union {<<i.holder, i.member>>} /\ pc' = "members"
      /\ left' = {j \in left \ {i} : j.holder = file}
      /\ UNCHANGED <<queued, status, nested, held, passes, unpacked, unanswered, file, ingestor, again, seen,
                          open>>
  BY <1>1 DEF PassOver, store, taken, writer
<1>4. ASSUME NEW j \in Pending, j # i, j \notin left' PROVE j.holder = i.holder /\ j.holder # file
  <2>1. j \in left /\ j.holder # file
    BY <1>1, <1>3, <1>4 DEF Pending
  <2>2. ingestor = "olm"
    BY <1>2, <1>4, <2>1, NoneOpen DEF PendingHeld
  <2>3. open = <<>>
    BY <2>2, NoneOpen
  <2>4. i.holder # file
    BY <1>1, <2>1, <2>2, <2>3 DEF Due, LettersInv
  <2> QED  BY <1>4, <2>1, <2>2, <2>4 DEF LettersInv
<1> HIDE DEF AllInv, MembersInv
<1>5. left' \subseteq Pending
  BY <1>3 DEF Pending
<1> QED  BY <1>1, <1>2, <1>3, <1>4, <1>5

(* A member that fails is logged.                                          *)
LEMMA PassOverMembers == ASSUME AllInv, PassOverMember PROVE MembersInv'
<1>1. /\ pc \in {"members", "queue"} /\ ingestor \in {"mbox", "olm"} /\ pc' = "members"
      /\ UNCHANGED <<queued, status, nested, held, passes, unpacked, unanswered, file, ingestor, again, seen,
                          open>>
  BY PassesOver
<1>2. PICK i \in Pending :
        /\ logged' = logged \union {<<i.holder, i.member>>}
        /\ left' \subseteq Pending
        /\ \A j \in Pending : \/ j = i
                              \/ j \in left' 
                              \/ j.holder = i.holder /\ j.holder # file
  BY PassesOver
<1> USE DEF AllInv, MembersInv
<1>0. file \in Files
  BY <1>1, InHand
<1>3. PICK f \in Files : f = file
  BY <1>0
<1>4. Pending' = left' /\ Opened' = Opened /\ Opened = {} /\ InMembers /\ InMembers'
  BY <1>1, NoneOpen DEF Pending, Opened, InMembers
<1>5. PhaseInv' /\ PendingHeld' /\ QueuedHeld' /\ OpenedInv' /\ LettersInv' /\ NestedInv' /\ SeenInv'
  BY <1>1, <1>2, <1>4
  DEF PhaseInv, PendingHeld, QueuedHeld, OpenedInv, LettersInv, NestedInv, SeenInv, Taker
<1>6. CountInv'
  BY <1>1, <1>2, <1>4 DEF CountInv, Fresh, Taker
<1>7. AttachedInv'
  BY <1>1, <1>2, <1>4, AttachedStays
<1>8. CompleteInv'
  BY <1>1, <1>2, CompleteStays
<1>9. ToComeInv'
  <2> SUFFICES ASSUME NEW h \in GoneThrough(f), NEW m \in Holds[h], Accounted(f, h, m) \/ ToCome(h, m)
               PROVE  Accounted(f, h, m)' \/ ToCome(h, m)'
    BY <1>1, <1>3, <1>4 DEF ToComeInv, GoneThrough, Taker, Sound
  <2>1. <<i.holder, i.member>> \in logged' /\ <<i.holder, i.member>>[1] = i.holder
        /\ <<i.holder, i.member>>[2] = i.member
    BY <1>2
  <2>2. CASE Accounted(f, h, m)
    BY <1>1, <1>2, <2>2, AccountedStays
  <2>3. CASE Item(h, m, TRUE) \in Pending
    <3>1. Item(h, m, TRUE).holder = h /\ Item(h, m, TRUE).member = m
      BY DEF Item
    <3>2. CASE Item(h, m, TRUE) = i
      BY <2>1, <3>1, <3>2 DEF Accounted
    <3>3. CASE Item(h, m, TRUE) \in left'
      BY <1>4, <3>3 DEF ToCome
    <3>4. CASE h = i.holder /\ h # f
      BY <2>1, <3>4 DEF Accounted
    <3> QED  BY <1>2, <1>3, <2>3, <3>1, <3>2, <3>3, <3>4
  <2>4. CASE Kind[h] = "opfmsg" /\ Item(f, h, TRUE) \in Pending
    <3>1. Item(f, h, TRUE).holder = f /\ Item(f, h, TRUE).member = h
      BY DEF Item
    <3>2. CASE Item(f, h, TRUE) = i
      BY <2>1, <3>1, <3>2 DEF Accounted
    <3>3. CASE Item(f, h, TRUE) \in left'
      BY <1>1, <1>3, <1>4, <2>4, <3>3 DEF ToCome
    <3> QED  BY <1>2, <1>3, <2>4, <3>1, <3>2, <3>3
  <2>5. CASE Kind[h] = "nested" /\ h \notin Opened
    BY <1>4, <2>5 DEF ToCome
  <2> QED  BY <1>1, <1>3, <1>4, <2>2, <2>3, <2>4, <2>5 DEF ToCome
<1> QED  BY <1>5, <1>6, <1>7, <1>8, <1>9

-----------------------------------------------------------------------------
(* What follows *)

(* Each step keeps the invariant.                                          *)
LEMMA MembersStep == ASSUME AllInv, TypeInv', RoutedInv', [Next]_vars PROVE MembersInv'
<1>1. TypeInv
  BY DEF AllInv
<1>2. ASSUME NEW found, Unpacks(found) PROVE MembersInv'
  BY <1>2, UnpacksMembersInv
<1> QED
  BY <1>1, <1>2, StepsAre, StartMembers, CrawlAgainMembers, StoreMembers, QueueMembers, OpenMembers,
     CloseMembers, PassOverMembers, SweepMembers, FindEmbeddedMembers, SucceedMembers, FailsMembers,
     ElsewhereMembers, StutterMembers

(* The invariant holds.                                                    *)
LEMMA MembersHold == Spec => []AllInv
<1>1. Init => AllInv
  BY TypesInit, MembersInit DEF Init, RoutedInv, AllInv
<1>2. AllInv /\ [Next]_vars => AllInv'
  BY TypesStep, RoutedStep, MembersStep DEF AllInv
<1> QED  BY <1>1, <1>2, PTL DEF Spec

(* A file is queued by what holds it directly, once in each pass that goes  *)
(* through its holder at most: also for attachments of attached emails, for *)
(* those of the messages of an OLM archive, and for parts that both the     *)
(* walk and the sweep find (msg.py:166-206, olm.py:131-159).               *)
THEOREM HolderQueues == Spec => []QueuedByHolder
<1>1. ASSUME AllInv, NEW i \in BagToSet(queued)
      PROVE  i.member \in Holds[i.holder] /\ queued[i] <= passes[Taker(i.holder)]
  <2>1. i \in ItemType
    BY <1>1 DEF AllInv, TypeInv, BagsTyped
  <2>2. Copies(i, queued) = queued[i]
    BY DEF Copies, BagIn
  <2> QED  BY <1>1, <2>1, <2>2 DEF AllInv, MembersInv, QueuedHeld, CountInv
<1>2. AllInv => QueuedByHolder
  BY <1>1 DEF QueuedByHolder
<1> QED  BY <1>2, MembersHold, PTL

(* Whatever was passed over, attempted again or swept, a success has had    *)
(* everything sound in it queued, at any depth of attached messages, or an  *)
(* exception about it was logged.                                          *)
THEOREM SuccessesAreComplete == Spec => []SuccessIsComplete
<1>1. ASSUME AllInv, NEW f \in Jobs, status[f] = "success", NEW h \in GoneThrough(f),
             NEW m \in Holds[h] \ (Damaged \union (IF Kind[f] = "emlx" THEN Hidden ELSE {}))
      PROVE  Accounted(f, h, m)
  BY <1>1 DEF AllInv, MembersInv, CompleteInv, Sound
<1>2. AllInv => SuccessIsComplete
  BY <1>1 DEF SuccessIsComplete, Accounted
<1> QED  BY <1>2, MembersHold, PTL

(* However deep messages are attached to an Outlook message, none that      *)
(* something was queued of is left without an entity once the message has   *)
(* ended in success (outlookmsg.py:107-115).                               *)
THEOREM HoldersEmitted == Spec => []HoldersAreEmitted
<1>1. ASSUME AllInv, NEW i \in BagToSet(queued), Kind[i.holder] = "nested",
             status[Taker(i.holder)] = "success"
      PROVE  i.holder \in nested
  <2>1. i \in ItemType
    BY <1>1 DEF AllInv, TypeInv, BagsTyped
  <2>2. i.holder \in Files
    BY <2>1 DEF ItemType
  <2> QED  BY <1>1, <2>2 DEF AllInv, MembersInv, CompleteInv
<1>2. AllInv => HoldersAreEmitted
  BY <1>1 DEF HoldersAreEmitted
<1> QED  BY <1>2, MembersHold, PTL
=============================================================================
