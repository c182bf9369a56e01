----------------------- MODULE ContainersTablesProofs -----------------------
(***************************************************************************)
(* Proofs about the tables in Containers: no text of a table is without the*)
(* table; a table that names its file has each row in the file and in one  *)
(* fragment of its text; and a success has all tables of its file.         *)
(*                                                                         *)
(* Inductive together: a reading that breaks off has gone as far as the one*)
(* reading of the table that does not (Trace), so that the fragments of all*)
(* passes are the same, whichever of them were written before.             *)
(***************************************************************************)
EXTENDS ContainersProofs

-----------------------------------------------------------------------------
(* No text without a table *)

(* Each fragment in s has the first one of its table beside it. *)
Parented(s) == \A x \in s : \E y \in s : y.kind = "initial" /\ y.table = x.table

(* While a sheet is read, the first fragment of its table is in the buffer *)
(* already: all that is put there later belongs to that table.             *)
OrphansInv ==
    /\ Parented(fragments)
    /\ Parented(buffer)
    /\ pc \in {"rows", "emit"} => \E y \in buffer : y.kind = "initial" /\ y.table = table

(* What Put puts is of that kind and of that table. *)
LEMMA PutFields ==
    ASSUME NEW kind, NEW t, NEW key, NEW rows
    PROVE  Put(kind, t, key, rows).kind = kind /\ Put(kind, t, key, rows).table = t
BY DEF Put

(* A fragment of a table whose first one is there leaves none an orphan. *)
LEMMA PutParented ==
    ASSUME NEW s, Parented(s), NEW kind, NEW t, NEW key, NEW rows,
           kind = "initial" \/ \E y \in s : y.kind = "initial" /\ y.table = t
    PROVE  Parented(s \union {Put(kind, t, key, rows)})
<1>1. PICK y \in s \union {Put(kind, t, key, rows)} : y.kind = "initial" /\ y.table = t
  BY PutFields
<1>2. SUFFICES ASSUME NEW x \in s \union {Put(kind, t, key, rows)}
               PROVE  \E z \in s \union {Put(kind, t, key, rows)} :
                        z.kind = "initial" /\ z.table = x.table
  BY DEF Parented
<1>3. CASE x \in s
  BY <1>3 DEF Parented
<1>4. CASE x = Put(kind, t, key, rows)
  BY <1>1, <1>4, PutFields
<1> QED  BY <1>3, <1>4

(* The fragments that a flush leaves in the store: a first fragment is only *)
(* ever superseded by a first fragment of the same table.                  *)
LEMMA FlushParented ==
    ASSUME NEW s, NEW b, Parented(s), Parented(b)
    PROVE  Parented({x \in s : \A y \in b : ~SameFragment(x, y)} \union b)
<1> DEFINE kept == {x \in s : \A y \in b : ~SameFragment(x, y)}
<1> SUFFICES ASSUME NEW x \in kept \union b
             PROVE  \E z \in kept \union b : z.kind = "initial" /\ z.table = x.table
  BY DEF Parented
<1>1. CASE x \in b
  BY <1>1 DEF Parented
<1>2. CASE x \in kept
  <2>1. PICK z \in s : z.kind = "initial" /\ z.table = x.table
    BY <1>2 DEF Parented
  <2>2. CASE z \in kept
    BY <2>1, <2>2
  <2>3. CASE z \notin kept
    <3>1. PICK y \in b : SameFragment(z, y)
      BY <2>3
    <3> QED  BY <2>1, <3>1 DEF SameFragment
  <2> QED  BY <2>2, <2>3
<1> QED  BY <1>1, <1>2

(* Initially there are no fragments.                                       *)
LEMMA OrphansInit == Init => OrphansInv
BY DEF Init, OrphansInv, Parented

(* The end of a pass hands the buffer to the store. *)
LEMMA FinalizeOrphans ==
    ASSUME OrphansInv, NEW st, Finalize(st)
    PROVE  OrphansInv'
<1>1. /\ fragments' = {x \in fragments : \A y \in buffer : ~SameFragment(x, y)} \union buffer
      /\ buffer' = {} /\ pc' = "idle"
  BY DEF Finalize
<1>2. Parented(fragments')
  BY <1>1, FlushParented DEF OrphansInv
<1> QED  BY <1>1, <1>2 DEF OrphansInv, Parented

(* A step that neither emits nor reads a sheet. *)
LEMMA ElsewhereOrphans ==
    ASSUME OrphansInv, UNCHANGED <<fragments, buffer>>,
           pc' \notin {"rows", "emit"} \/ UNCHANGED <<pc, table>>
    PROVE  OrphansInv'
BY DEF OrphansInv, Parented

(* A table comes before its text, in the buffer and in the store.          *)
LEMMA OrphansStep == OrphansInv /\ [Next]_vars => OrphansInv'
<1> SUFFICES ASSUME OrphansInv, [Next]_vars PROVE OrphansInv'
  OBVIOUS
<1> USE DEF vars, store, history, taken, members, writer, reading, job
<1>1. CASE Start
  <2>1. UNCHANGED <<fragments, buffer>> /\ pc' \in {"reject", "unpack", "sheets", "members"}
    BY <1>1 DEF Start, First
  <2> QED  BY <2>1, ElsewhereOrphans
<1>2. CASE Reject \/ Succeed \/ RejectEmail \/ RejectSheet \/ RejectDbf \/ RejectTable \/ RejectPst
  BY <1>2, FinalizeOrphans
  DEF Reject, Succeed, RejectEmail, RejectSheet, RejectDbf, RejectTable, RejectPst, Ends
<1>3. CASE RaiseAfterCrawl \/ Raise
  BY <1>3, FinalizeOrphans DEF RaiseAfterCrawl, Raise, Raises, RunsAgain, GivesUp
<1>4. CASE UnpackAll \/ UnpackZip \/ UnpackTar \/ UnpackRar \/ ReadPst \/ ReadPstFails \/ CrawlAgain
  <2>1. UNCHANGED <<fragments, buffer>> /\ pc' = "members"
    BY <1>4 DEF UnpackAll, UnpackZip, UnpackTar, UnpackRar, UnpackMembers, ReadPst, ReadPstFails,
                CrawlAgain, Crawl
  <2> QED  BY <2>1, ElsewhereOrphans
<1>5. CASE Decompress
  <2>1. CASE Finalize("failure")
    BY <2>1, FinalizeOrphans
  <2>2. CASE Crawl(Items(file))
    BY <2>2, ElsewhereOrphans DEF Crawl
  <2> QED  BY <1>5, <2>1, <2>2 DEF Decompress, RunsAgain, GivesUp
<1>6. CASE StoreMember \/ QueueMember \/ OpenMessage \/ CloseMessage
  <2>1. /\ UNCHANGED <<fragments, buffer>>
        /\ pc' \in {"members", "queue"} \/ (pc = "members" /\ UNCHANGED <<pc, table>>)
    BY <1>6 DEF StoreMember, QueueMember, OpenMessage, CloseMessage, EndOfMessage
  <2> QED  BY <2>1, ElsewhereOrphans
<1>7. CASE PassOverMember \/ Sweep \/ FindEmbedded
  <2>1. UNCHANGED <<fragments, buffer>> /\ pc' = "members"
    BY <1>7 DEF PassOverMember, PassOver, Sweep, FindEmbedded
  <2> QED  BY <2>1, ElsewhereOrphans
<1>8. CASE OpenSheet \/ OpenTable \/ OpenOwn
  <2>1. /\ buffer' = buffer \union {Put("initial", table', 0, <<>>)}
        /\ UNCHANGED fragments
    BY <1>8 DEF OpenSheet, OpenTable, OpenOwn, Open
  <2>2. Parented(buffer')
    BY <2>1, PutParented DEF OrphansInv
  <2> QED  BY <2>1, <2>2, PutFields DEF OrphansInv, Parented
<1>9. CASE SkipRow \/ PassOverRow \/ CursorRaises \/ LeaveOut
  BY <1>9, ElsewhereOrphans DEF SkipRow, PassOverRow, CursorRaises, LeaveOut
<1>10. CASE ReadRow \/ CloseSheet \/ CutShort \/ ExportEnds \/ EmitTable
  <2>1. /\ pc \in {"rows", "emit"}
        /\ UNCHANGED <<fragments, table>>
        /\ \/ UNCHANGED buffer
           \/ \E kind, key, rows : buffer' = buffer \union {Put(kind, table, key, rows)}
    <3>1. CASE ReadRow
      BY <3>1 DEF ReadRow, AtRow, FlushChunk
    <3>2. CASE CloseSheet \/ CutShort \/ ExportEnds
      BY <3>2 DEF CloseSheet, CutShort, ExportEnds, BreaksOff, Close, FlushChunk
    <3>3. CASE EmitTable
      BY <3>3 DEF EmitTable
    <3> QED  BY <1>10, <3>1, <3>2, <3>3
  <2>2. Parented(buffer')
    BY <2>1, PutParented DEF OrphansInv
  <2> QED  BY <2>1, <2>2 DEF OrphansInv, Parented
<1>11. CASE UNCHANGED vars
  BY <1>11, ElsewhereOrphans
<1> QED
  BY <1>1, <1>2, <1>3, <1>4, <1>5, <1>6, <1>7, <1>8, <1>9, <1>10, <1>11 DEF Next

(* No text is left without a table that has a parent and a name, for all   *)
(* workbooks, databases and bounds on the fragments (table.py:153-157).    *)
THEOREM TextHasTable == Spec => []NoOrphans
<1>1. OrphansInv => NoOrphans
  BY DEF OrphansInv, NoOrphans, Parented
<1> QED  BY OrphansInit, OrphansStep, <1>1, PTL DEF Spec

-----------------------------------------------------------------------------
(* The one reading of a table *)

(* What is in a set that has 0 in it, and with each number the next one. *)
LEMMA UpTo ==
    ASSUME NEW N \in Nat, NEW S, 0 \in S, \A n \in 0..(N - 1) : n \in S => n + 1 \in S
    PROVE  \A n \in 0..N : n \in S
<1> DEFINE T == (0..N) \ S
<1>1. ASSUME T # {} PROVE FALSE
  <2>1. T \subseteq Nat
    OBVIOUS
  <2>2. PICK x \in T : \A y \in T : x <= y
    <3> HIDE DEF T
    <3> QED  BY <1>1, <2>1, LeastOf
  <2>3. x \in 0..N /\ x # 0 /\ x \notin S
    OBVIOUS
  <2>4. x - 1 \in 0..(N - 1) /\ x - 1 \in 0..N /\ (x - 1) + 1 = x /\ ~(x <= x - 1)
    BY <2>3
  <2>5. x - 1 \in S
    BY <2>2, <2>4
  <2> QED  BY <2>3, <2>4, <2>5
<1> QED  BY <1>1

(* What _emit_value_rows has made of a table after its first rows: the rows *)
(* in the file, those in the buffer, and their size.                       *)
Progress == [csv : Seq(Nat), chunk : Seq(Nat), chars : Nat]
(* Before the first row.                                                   *)
Nothing == [csv |-> <<>>, chunk |-> <<>>, chars |-> 0]
(* A row that fills the buffer: by the number of rows, or by their size.   *)
Full(s, t, n) ==
    Len(Append(s.chunk, n)) >= FragmentRows \/ s.chars + Rows[t][n] >= FragmentChars
(* With one row more.                                                      *)
After(s, t, n) ==
    IF Decodable(t, n)
    THEN [csv |-> Append(s.csv, n),
          chunk |-> IF Full(s, t, n) THEN <<>> ELSE Append(s.chunk, n),
          chars |-> IF Full(s, t, n) THEN 0 ELSE s.chars + Rows[t][n]]
    ELSE s
(* How far each row gets.                                                  *)
IsTrace(g, t, N) ==
    /\ g \in [0..N -> Progress]
    /\ g[0] = Nothing
    /\ \A n \in 0..(N - 1) : g[n + 1] = After(g[n], t, n + 1)

(* It is the same whenever the table is read. *)
Trace(t) == CHOOSE g : IsTrace(g, t, ReadableRows[t])
At(t, n) == Trace(t)[n]

(* The rows of a table, and the bounds of a fragment.                      *)
LEMMA RowsTyped ==
    ASSUME NEW t \in Tables
    PROVE  /\ ReadableRows[t] \in Nat
           /\ \A n \in 1..ReadableRows[t] : n \in DOMAIN Rows[t] /\ Rows[t][n] \in Nat
           /\ FragmentRows \in Nat \ {0} /\ FragmentChars \in Nat \ {0}
           /\ Len(Rows[t]) \in Nat /\ ReadableRows[t] <= Len(Rows[t]) /\ DOMAIN Rows[t] = 1..Len(Rows[t])
<1>1. /\ ReadableRows[t] \in Nat /\ Rows[t] \in Seq(Nat) /\ ReadableRows[t] <= Len(Rows[t])
      /\ FragmentRows \in Nat \ {0} /\ FragmentChars \in Nat \ {0}
  BY ContainersAssumption DEF ContainersAssumption
<1>2. \A n \in 1..ReadableRows[t] : n \in 1..Len(Rows[t])
  BY <1>1
<1> QED  BY <1>1, <1>2

(* A row keeps the types.                                                  *)
LEMMA AfterTyped ==
    ASSUME NEW s \in Progress, NEW t, NEW n \in Nat, Rows[t][n] \in Nat
    PROVE  After(s, t, n) \in Progress
BY DEF Progress, After

(* There is such a reading of each table.                                  *)
LEMMA TraceExists ==
    ASSUME NEW t \in Tables PROVE IsTrace(Trace(t), t, ReadableRows[t])
<1> DEFINE N == ReadableRows[t]
           S == {n \in Nat : \E g : IsTrace(g, t, n)}
<1>1. N \in Nat
  BY RowsTyped
<1>2. 0 \in S
  <2> DEFINE g == [n \in 0..0 |-> Nothing]
  <2>1. IsTrace(g, t, 0)
    BY DEF IsTrace, Nothing, Progress
  <2> QED  BY <2>1
<1>3. ASSUME NEW n \in 0..(N - 1), n \in S PROVE n + 1 \in S
  <2>1. PICK g : IsTrace(g, t, n)
    BY <1>3
  <2> DEFINE h == [k \in 0..(n + 1) |-> IF k = n + 1 THEN After(g[n], t, n + 1) ELSE g[k]]
  <2>2. n \in Nat /\ n + 1 \in Nat /\ n + 1 \in 1..N
    BY <1>1, <1>3
  <2>3. g \in [0..n -> Progress] /\ g[n] \in Progress
    BY <2>1, <2>2 DEF IsTrace
  <2>4. After(g[n], t, n + 1) \in Progress
    BY <2>2, <2>3, RowsTyped, AfterTyped
  <2>5. h \in [0..(n + 1) -> Progress]
    BY <2>2, <2>3, <2>4
  <2>6. h[0] = Nothing
    BY <2>1, <2>2 DEF IsTrace
  <2>7. ASSUME NEW k \in 0..n PROVE h[k + 1] = After(h[k], t, k + 1)
    <3>1. h[k] = g[k]
      BY <2>2
    <3>2. CASE k = n
      BY <2>2, <3>1, <3>2
    <3>3. CASE k # n
      <4>1. k \in 0..(n - 1) /\ k + 1 \in 0..(n + 1) /\ k + 1 # n + 1
        BY <2>2, <3>3
      <4>2. g[k + 1] = After(g[k], t, k + 1)
        BY <2>1, <4>1 DEF IsTrace
      <4>3. h[k + 1] = g[k + 1]
        BY <4>1
      <4> QED  BY <3>1, <4>2, <4>3
    <3> QED  BY <3>2, <3>3
  <2>8. (n + 1) - 1 = n
    BY <2>2
  <2> HIDE DEF h
  <2>9. IsTrace(h, t, n + 1)
    BY <2>5, <2>6, <2>7, <2>8 DEF IsTrace
  <2> QED  BY <2>2, <2>9
<1>4. N \in S
  <2> HIDE DEF S
  <2>1. \A n \in 0..N : n \in S
    BY <1>1, <1>2, <1>3, UpTo
  <2> QED  BY <1>1, <2>1
<1> QED  BY <1>4 DEF Trace

(* It starts from nothing.                                                 *)
LEMMA TraceStarts ==
    ASSUME NEW t \in Tables
    PROVE  At(t, 0) = Nothing /\ \A n \in 0..ReadableRows[t] : At(t, n) \in Progress
BY TraceExists DEF IsTrace, At

(* It goes on row by row.                                                  *)
LEMMA TraceGoesOn ==
    ASSUME NEW t \in Tables, NEW n \in 0..(ReadableRows[t] - 1)
    PROVE  /\ n \in Nat /\ n + 1 \in 1..ReadableRows[t] /\ n \in 0..ReadableRows[t] /\ n + 1 \in 0..ReadableRows[t]
           /\ (n + 1) - 1 = n
           /\ At(t, n) \in Progress /\ At(t, n + 1) \in Progress
           /\ At(t, n + 1) = After(At(t, n), t, n + 1)
           /\ Rows[t][n + 1] \in Nat
<1>1. ReadableRows[t] \in Nat
  BY RowsTyped
<1>2. n \in Nat /\ n + 1 \in 1..ReadableRows[t] /\ n \in 0..ReadableRows[t] /\ n + 1 \in 0..ReadableRows[t]
      /\ (n + 1) - 1 = n
  BY <1>1
<1> QED  BY <1>1, <1>2, TraceExists, TraceStarts, RowsTyped DEF IsTrace, At

(* The rows in the file are the decodable ones, and the last of them are in *)
(* the buffer.                                                             *)
LEMMA TraceHas ==
    ASSUME NEW t \in Tables, NEW n \in 0..ReadableRows[t]
    PROVE  LET s == At(t, n)
           IN  /\ {s.csv[k] : k \in DOMAIN s.csv} = {k \in 1..n : Decodable(t, k)}
               /\ Len(s.chunk) <= Len(s.csv)
               /\ \A k \in 1..Len(s.chunk) : s.chunk[k] = s.csv[Len(s.csv) - Len(s.chunk) + k]
<1> DEFINE N == ReadableRows[t]
           P(s, m) == /\ {s.csv[k] : k \in DOMAIN s.csv} = {k \in 1..m : Decodable(t, k)}
                      /\ Len(s.chunk) <= Len(s.csv)
                      /\ \A k \in 1..Len(s.chunk) : s.chunk[k] = s.csv[Len(s.csv) - Len(s.chunk) + k]
           S == {m \in Nat : P(At(t, m), m)}
<1>1. N \in Nat
  BY RowsTyped
<1>2. 0 \in S
  <2>1. P(Nothing, 0)
    BY DEF Nothing
  <2> HIDE DEF P
  <2> QED  BY <2>1, TraceStarts
<1>3. ASSUME NEW m \in 0..(N - 1), m \in S PROVE m + 1 \in S
  <2>1. PICK s \in Progress : s = At(t, m)
    BY TraceGoesOn
  <2>2. m \in Nat /\ m + 1 \in Nat /\ At(t, m + 1) = After(s, t, m + 1) /\ Rows[t][m + 1] \in Nat
    BY <2>1, TraceGoesOn
  <2>6. P(s, m)
    BY <1>3, <2>1
  <2>3. 1..(m + 1) = (1..m) \union {m + 1}
    BY <2>2
  <2>4. CASE ~Decodable(t, m + 1)
    <3>1. P(s, m + 1)
      BY <2>2, <2>3, <2>4, <2>6
    <3> HIDE DEF P
    <3> QED  BY <2>2, <2>4, <3>1 DEF After
  <2>5. CASE Decodable(t, m + 1)
    <3>1. PICK c, h : c = Append(s.csv, m + 1) /\ h = IF Full(s, t, m + 1) THEN <<>> ELSE Append(s.chunk, m + 1)
      OBVIOUS
    <3> HIDE DEF P, S
    <3>2. At(t, m + 1).csv = c /\ At(t, m + 1).chunk = h
      <4>1. After(s, t, m + 1) = [csv |-> c, chunk |-> h,
                chars |-> IF Full(s, t, m + 1) THEN 0 ELSE s.chars + Rows[t][m + 1]]
        BY <2>5, <3>1 DEF After
      <4> QED  BY <2>2, <4>1
    <3>3. s.csv \in Seq(Nat) /\ s.chunk \in Seq(Nat)
      BY DEF Progress
    <3>4. /\ DOMAIN c = DOMAIN s.csv \union {Len(s.csv) + 1} /\ Len(c) = Len(s.csv) + 1
          /\ c[Len(s.csv) + 1] = m + 1 /\ \A k \in DOMAIN s.csv : c[k] = s.csv[k]
      BY <2>2, <3>1, <3>3
    <3>5. {c[k] : k \in DOMAIN c} = {s.csv[k] : k \in DOMAIN s.csv} \union {m + 1}
      BY <3>4
    <3>6. {c[k] : k \in DOMAIN c} = {k \in 1..(m + 1) : Decodable(t, k)}
      BY <2>2, <2>3, <2>5, <2>6, <3>5 DEF P
    <3>7. Len(h) <= Len(c) /\ \A k \in 1..Len(h) : h[k] = c[Len(c) - Len(h) + k]
      <4>1. CASE Full(s, t, m + 1)
        BY <3>1, <3>3, <3>4, <4>1
      <4>2. CASE ~Full(s, t, m + 1)
        <5>1. h = Append(s.chunk, m + 1)
          BY <3>1, <4>2
        <5>2. /\ Len(h) = Len(s.chunk) + 1 /\ h[Len(s.chunk) + 1] = m + 1
              /\ \A k \in 1..Len(s.chunk) : h[k] = s.chunk[k]
          BY <2>2, <3>3, <5>1
        <5>3. Len(s.chunk) \in Nat /\ Len(s.csv) \in Nat /\ Len(s.chunk) <= Len(s.csv)
          BY <2>6, <3>3 DEF P
        <5>4. ASSUME NEW k \in 1..Len(h) PROVE h[k] = c[Len(c) - Len(h) + k]
          <6>0. PICK ls, lh \in Nat : ls = Len(s.csv) /\ lh = Len(s.chunk)
            BY <5>3
          <6>1. /\ Len(c) - Len(h) + k = ls - lh + k /\ lh <= ls
                /\ k \in 1..lh \/ k = lh + 1
            BY <3>4, <5>2, <5>3, <6>0
          <6>2. CASE k = lh + 1
            <7>1. ls - lh + k = ls + 1
              BY <6>2
            <7> QED  BY <3>4, <5>2, <6>0, <6>1, <6>2, <7>1
          <6>3. CASE k \in 1..lh
            <7>2. ls - lh + k \in 1..ls
              BY <6>1, <6>3
            <7>3. c[ls - lh + k] = s.csv[ls - lh + k]
              <8>1. DOMAIN s.csv = 1..ls
                BY <3>3, <6>0
              <8> QED  BY <3>4, <7>2, <8>1
            <7> QED  BY <2>6, <5>2, <6>0, <6>1, <6>3, <7>3 DEF P
          <6> QED  BY <6>1, <6>2, <6>3
        <5>5. Len(h) <= Len(c)
          BY <3>4, <5>2, <5>3
        <5> QED  BY <5>4, <5>5
      <4> QED  BY <4>1, <4>2
    <3>8. At(t, m + 1) \in Progress /\ P(At(t, m + 1), m + 1)
      BY <3>2, <3>6, <3>7, TraceGoesOn DEF P
    <3> QED  BY <2>2, <3>8 DEF S
  <2> QED  BY <2>4, <2>5
<1>4. n \in S
  <2> HIDE DEF S
  <2> QED  BY <1>1, <1>2, <1>3, UpTo
<1> QED  BY <1>4

(* How many rows have been flushed, and whether reading a row flushes. *)
Settled(t, n) == Len(At(t, n).csv) - Len(At(t, n).chunk)
Flushed(t, n) == Decodable(t, n) /\ Full(At(t, n - 1), t, n)

(* Differences of numbers.                                                 *)
LEMMA Minus ==
    ASSUME NEW c \in Nat, NEW h \in Nat, h <= c
    PROVE  /\ c - h \in Nat /\ c - h <= c /\ c - 0 = c
           /\ (c + 1) - (h + 1) = c - h
OBVIOUS

(* The numbers of what is settled.                                         *)
LEMMA SettledTyped ==
    ASSUME NEW t \in Tables, NEW n \in 0..ReadableRows[t]
    PROVE  /\ At(t, n).csv \in Seq(Nat) /\ At(t, n).chunk \in Seq(Nat) /\ At(t, n).chars \in Nat
           /\ Len(At(t, n).csv) \in Nat /\ Len(At(t, n).chunk) \in Nat
           /\ Settled(t, n) \in Nat /\ Settled(t, n) <= Len(At(t, n).csv)
           /\ n \in Nat
<1>1. At(t, n).csv \in Seq(Nat) /\ At(t, n).chunk \in Seq(Nat) /\ At(t, n).chars \in Nat
  BY TraceStarts DEF Progress
<1>2. Len(At(t, n).csv) \in Nat /\ Len(At(t, n).chunk) \in Nat
  BY <1>1
<1>3. Len(At(t, n).chunk) <= Len(At(t, n).csv)
  BY TraceHas
<1>4. n \in Nat
  BY RowsTyped
<1> QED  BY <1>1, <1>2, <1>3, <1>4, Minus DEF Settled

(* A row settles all before it, or nothing.                                *)
LEMMA SettledNext ==
    ASSUME NEW t \in Tables, NEW n \in 0..(ReadableRows[t] - 1)
    PROVE  /\ Len(At(t, n).csv) <= Len(At(t, n + 1).csv)
           /\ \A k \in DOMAIN At(t, n).csv : At(t, n + 1).csv[k] = At(t, n).csv[k]
           /\ Flushed(t, n + 1) =>
                /\ At(t, n + 1).csv = Append(At(t, n).csv, n + 1)
                /\ Settled(t, n + 1) = Len(At(t, n + 1).csv)
                /\ Settled(t, n + 1) = Len(At(t, n).csv) + 1
           /\ ~Flushed(t, n + 1) => Settled(t, n + 1) = Settled(t, n)
<1>1. PICK a \in Progress : a = At(t, n)
  BY TraceGoesOn
<1>2. PICK b \in Progress : b = At(t, n + 1)
  BY TraceGoesOn
<1>3. b = After(a, t, n + 1) /\ (n + 1) - 1 = n /\ n + 1 \in Nat
  BY <1>1, <1>2, TraceGoesOn
<1>4. a.csv \in Seq(Nat) /\ a.chunk \in Seq(Nat) /\ Len(a.csv) \in Nat /\ Len(a.chunk) \in Nat
  BY DEF Progress
<1>5. Flushed(t, n + 1) <=> Decodable(t, n + 1) /\ Full(a, t, n + 1)
  BY <1>1, <1>3 DEF Flushed
<1>6. CASE ~Decodable(t, n + 1)
  <2>1. b = a
    BY <1>3, <1>6 DEF After
  <2>2. At(t, n + 1) = At(t, n) /\ ~Flushed(t, n + 1) /\ Len(At(t, n).csv) \in Nat
    BY <1>1, <1>2, <1>4, <1>5, <1>6, <2>1
  <2>3. Settled(t, n + 1) = Settled(t, n)
    BY <2>2 DEF Settled
  <2>4. Len(At(t, n).csv) <= Len(At(t, n + 1).csv)
    BY <2>2
  <2> QED  BY <2>2, <2>3, <2>4
<1>7. CASE Decodable(t, n + 1)
  <2>1. b.csv = Append(a.csv, n + 1) /\ b.chunk = IF Full(a, t, n + 1) THEN <<>> ELSE Append(a.chunk, n + 1)
    <3>1. b = [csv |-> Append(a.csv, n + 1),
               chunk |-> IF Full(a, t, n + 1) THEN <<>> ELSE Append(a.chunk, n + 1),
               chars |-> IF Full(a, t, n + 1) THEN 0 ELSE a.chars + Rows[t][n + 1]]
      BY <1>3, <1>7 DEF After
    <3> QED  BY <3>1
  <2>2. Len(b.csv) = Len(a.csv) + 1 /\ \A k \in DOMAIN a.csv : b.csv[k] = a.csv[k]
    <3>1. n + 1 \in Nat
      BY <1>3
    <3> QED  BY <1>4, <2>1, <3>1
  <2>3. Full(a, t, n + 1) => Len(b.chunk) = 0
    BY <2>1
  <2>4. ~Full(a, t, n + 1) => Len(b.chunk) = Len(a.chunk) + 1
    BY <1>4, <2>1
  <2>5. Settled(t, n) = Len(a.csv) - Len(a.chunk) /\ Settled(t, n + 1) = Len(b.csv) - Len(b.chunk)
    BY <1>1, <1>2 DEF Settled
  <2>9. Len(a.chunk) <= Len(a.csv) /\ Len(a.csv) + 1 \in Nat /\ (Len(a.csv) + 1) - 0 = Len(a.csv) + 1
    <3>1. n \in 0..ReadableRows[t]
      BY TraceGoesOn
    <3>2. Len(a.chunk) <= Len(a.csv)
      BY <1>1, <3>1, TraceHas
    <3>3. PICK c \in Nat : c = Len(a.csv)
      BY <1>4
    <3>4. c + 1 \in Nat /\ 0 <= c + 1 /\ (c + 1) - 0 = c + 1
      OBVIOUS
    <3> QED  BY <3>2, <3>3, <3>4
  <2>6. Flushed(t, n + 1) => Settled(t, n + 1) = Len(b.csv)
    BY <1>4, <1>5, <2>2, <2>3, <2>5, <2>9
  <2>7. ~Flushed(t, n + 1) => Settled(t, n + 1) = Settled(t, n)
    <3>1. ASSUME ~Full(a, t, n + 1) PROVE Settled(t, n + 1) = Settled(t, n)
      <4>1. Settled(t, n + 1) = (Len(a.csv) + 1) - (Len(a.chunk) + 1)
        BY <2>2, <2>4, <2>5, <3>1
      <4>2. (Len(a.csv) + 1) - (Len(a.chunk) + 1) = Len(a.csv) - Len(a.chunk)
        BY <1>4, <2>9, Minus
      <4> QED  BY <2>5, <4>1, <4>2
    <3> QED  BY <1>5, <1>7, <3>1
  <2>8. Len(a.csv) <= Len(b.csv)
    BY <1>4, <2>2
  <2> QED  BY <1>1, <1>2, <2>1, <2>2, <2>6, <2>7, <2>8
<1> QED  BY <1>6, <1>7

(* Rows are only ever added, and never flushed again. *)
LEMMA TraceGrows ==
    ASSUME NEW t \in Tables, NEW m \in 0..ReadableRows[t], NEW n \in m..ReadableRows[t]
    PROVE  /\ Settled(t, m) <= Settled(t, n)
           /\ Len(At(t, m).csv) <= Len(At(t, n).csv)
           /\ \A k \in DOMAIN At(t, m).csv : At(t, n).csv[k] = At(t, m).csv[k]
<1> DEFINE N == ReadableRows[t]
           P(i) == /\ Settled(t, m) <= Settled(t, i)
                   /\ Len(At(t, m).csv) <= Len(At(t, i).csv)
                   /\ \A k \in DOMAIN At(t, m).csv : At(t, i).csv[k] = At(t, m).csv[k]
           S == {d \in Nat : P(m + d)}
<1>1. N \in Nat /\ m \in Nat /\ N - m \in Nat
  BY RowsTyped
<1>2. 0 \in S
  <2>1. m + 0 = m /\ Settled(t, m) \in Nat /\ Len(At(t, m).csv) \in Nat
    BY <1>1, SettledTyped
  <2>2. P(m)
    BY <2>1
  <2> HIDE DEF P
  <2> QED  BY <2>1, <2>2
<1>3. ASSUME NEW d \in 0..((N - m) - 1), d \in S PROVE d + 1 \in S
  <2>1. PICK i \in 0..(N - 1) : i = m + d
    BY <1>1
  <2>2. i \in 0..N /\ i + 1 \in 0..N /\ i + 1 = m + (d + 1)
    BY <1>1, <2>1
  <2>3. P(i)
    BY <1>3, <2>1
  <2>4. /\ Settled(t, i) \in Nat /\ Settled(t, i + 1) \in Nat /\ Settled(t, m) \in Nat
        /\ Len(At(t, i).csv) \in Nat /\ Len(At(t, m).csv) \in Nat /\ Len(At(t, i + 1).csv) \in Nat
        /\ At(t, i).csv \in Seq(Nat) /\ At(t, m).csv \in Seq(Nat) /\ Settled(t, i) <= Len(At(t, i).csv)
    BY <2>2, SettledTyped
  <2>5. Settled(t, i) <= Settled(t, i + 1) /\ Len(At(t, i).csv) <= Len(At(t, i + 1).csv)
    <3>1. CASE Flushed(t, i + 1)
      BY <2>4, <3>1, SettledNext
    <3>2. CASE ~Flushed(t, i + 1)
      BY <2>4, <3>2, SettledNext
    <3> QED  BY <3>1, <3>2
  <2>6. \A k \in DOMAIN At(t, m).csv : k \in DOMAIN At(t, i).csv
    BY <2>3, <2>4
  <2>7. P(i + 1)
    <3>1. \A k \in DOMAIN At(t, m).csv : At(t, i + 1).csv[k] = At(t, m).csv[k]
      BY <2>3, <2>6, SettledNext
    <3>2. Settled(t, m) <= Settled(t, i + 1) /\ Len(At(t, m).csv) <= Len(At(t, i + 1).csv)
      <4>1. Settled(t, m) <= Settled(t, i) /\ Len(At(t, m).csv) <= Len(At(t, i).csv)
        BY <2>3
      <4>2. \A a, b, c \in Nat : a <= b /\ b <= c => a <= c
        OBVIOUS
      <4> HIDE DEF P, S, N
      <4> QED  BY <2>4, <2>5, <4>1, <4>2
    <3> QED  BY <3>1, <3>2
  <2> HIDE DEF P
  <2> QED  BY <2>2, <2>7
<1>4. n - m \in 0..(N - m) /\ n = m + (n - m)
  BY <1>1
<1>5. n - m \in S
  <2> HIDE DEF S
  <2> QED  BY <1>1, <1>2, <1>3, <1>4, UpTo
<1> QED  BY <1>4, <1>5

(* Each row that is settled was flushed. *)
LEMMA TraceCovers ==
    ASSUME NEW t \in Tables, NEW n \in 0..ReadableRows[t], NEW k \in 1..Settled(t, n)
    PROVE  \E m \in 1..n : Flushed(t, m) /\ Settled(t, m - 1) < k /\ k <= Settled(t, m)
<1> DEFINE N == ReadableRows[t]
           P(i) == \A j \in 1..Settled(t, i) :
                      \E m \in 1..i : Flushed(t, m) /\ Settled(t, m - 1) < j /\ j <= Settled(t, m)
           S == {i \in Nat : P(i)}
<1>1. N \in Nat
  BY RowsTyped
<1>2. 0 \in S
  <2>1. Settled(t, 0) = 0
    BY TraceStarts DEF Settled, Nothing
  <2> QED  BY <2>1
<1>3. ASSUME NEW i \in 0..(N - 1), i \in S PROVE i + 1 \in S
  <2>1. i \in Nat /\ i \in 0..N /\ i + 1 \in 0..N /\ (i + 1) - 1 = i /\ i + 1 \in 1..(i + 1)
        /\ 1..i \subseteq 1..(i + 1)
    BY <1>1
  <2>2. Settled(t, i) \in Nat /\ Settled(t, i + 1) \in Nat
    BY <2>1, SettledTyped
  <2>3. P(i)
    BY <1>3
  <2>4. ASSUME NEW j \in 1..Settled(t, i + 1)
        PROVE  \E m \in 1..(i + 1) : Flushed(t, m) /\ Settled(t, m - 1) < j /\ j <= Settled(t, m)
    <3>1. CASE j <= Settled(t, i)
      <4>1. j \in 1..Settled(t, i)
        BY <2>2, <3>1
      <4> QED  BY <2>1, <2>3, <4>1
    <3>2. CASE Settled(t, i) < j
      <4>1. Flushed(t, i + 1)
        BY <2>2, <3>2, SettledNext
      <4> QED  BY <2>1, <3>2, <4>1
    <3> QED  BY <2>2, <3>1, <3>2
  <2> QED  BY <2>1, <2>4
<1>4. n \in S
  <2> HIDE DEF S
  <2> QED  BY <1>1, <1>2, <1>3, UpTo
<1> QED  BY <1>4

-----------------------------------------------------------------------------
(* Its fragments *)

(* The fragments of a table's text: those flushed by a row, and the last. *)
FlushAt(t, n) == Put("text", t, Len(At(t, n).csv), Append(At(t, n - 1).chunk, n))
(* Those of the first rows, the one at the end, and all.                   *)
FlushesTo(t, n) == {FlushAt(t, k) : k \in {m \in 1..n : Flushed(t, m)}}
(* When all rows are read.                                                 *)
AllOf(t) == At(t, ReadableRows[t])
LastFlush(t) == Put("text", t, Len(AllOf(t).csv), AllOf(t).chunk)
Flushes(t) ==
    FlushesTo(t, ReadableRows[t]) \union (IF AllOf(t).chunk = <<>> THEN {} ELSE {LastFlush(t)})

(* A fragment that has the rows of a table in it, from one after the first  *)
(* number to the second.                                                   *)
IsSlice(x, t, from, to) ==
    /\ x.kind = "text" /\ x.table = t /\ x.key = to
    /\ from \in Nat /\ to \in Nat /\ from < to /\ x.key - Len(x.rows) = from
    /\ \A k \in (from + 1)..to : k \in DOMAIN AllOf(t).csv /\ x.rows[k - from] = AllOf(t).csv[k]

(* A number is the sum of another one and their difference.                *)
LEMMA SumOf == ASSUME NEW c \in Nat, NEW h \in Nat, h <= c PROVE c = (c - h) + h
OBVIOUS

(* The numbers of the rows of a slice, and their places in it. *)
LEMMA Slicing ==
    ASSUME NEW c \in Nat, NEW h \in Nat, h <= c
    PROVE  /\ c - h \in Nat /\ (h # 0 => c - h < c)
           /\ \A k \in (c - h + 1)..c :
                k \in 1..c /\ k - (c - h) \in 1..h /\ (c - h) + (k - (c - h)) = k
<1>1. c - h \in Nat /\ (h # 0 => c - h < c)
  OBVIOUS
<1>2. PICK d \in Nat : d = c - h
  BY <1>1
<1>3. c = d + h
  BY <1>2
<1>4. \A k \in (d + 1)..c : k \in 1..c /\ k - d \in 1..h /\ d + (k - d) = k
  BY <1>3
<1> QED  BY <1>1, <1>2, <1>4

(* A full fragment is what became settled with its last row.               *)
LEMMA FlushAtIs ==
    ASSUME NEW t \in Tables, NEW n \in 1..ReadableRows[t], Flushed(t, n)
    PROVE  IsSlice(FlushAt(t, n), t, Settled(t, n - 1), Settled(t, n))
<1> DEFINE N == ReadableRows[t]
           x == FlushAt(t, n)
<1>1. N \in Nat /\ n \in Nat /\ n - 1 \in 0..(N - 1) /\ n - 1 \in 0..N /\ n \in 0..N /\ (n - 1) + 1 = n
      /\ N \in n..N
  BY RowsTyped
<1>2. PICK a \in Progress : a = At(t, n - 1)
  BY <1>1, TraceStarts
<1>3. PICK b \in Progress : b = At(t, n)
  BY <1>1, TraceStarts
<1>4. PICK c, h \in Nat : c = Len(a.csv) /\ h = Len(a.chunk) /\ h <= c
  <2>1. Len(a.csv) \in Nat /\ Len(a.chunk) \in Nat /\ Len(a.chunk) <= Len(a.csv)
    BY <1>1, <1>2, SettledTyped, TraceHas
  <2> QED  BY <2>1
<1>5. a.csv \in Seq(Nat) /\ a.chunk \in Seq(Nat)
  BY DEF Progress
<1>6. /\ b.csv = Append(a.csv, n) /\ Settled(t, n) = Len(b.csv) /\ Settled(t, n) = c + 1
      /\ Settled(t, n - 1) = c - h
  <2>1. Flushed(t, (n - 1) + 1)
    BY <1>1
  <2>2. /\ At(t, (n - 1) + 1).csv = Append(At(t, n - 1).csv, (n - 1) + 1)
        /\ Settled(t, (n - 1) + 1) = Len(At(t, (n - 1) + 1).csv)
        /\ Settled(t, (n - 1) + 1) = Len(At(t, n - 1).csv) + 1
    BY <1>1, <2>1, SettledNext
  <2> QED  BY <1>1, <1>2, <1>3, <1>4, <2>2 DEF Settled
<1>7. /\ x.kind = "text" /\ x.table = t /\ x.key = Len(b.csv) /\ x.rows = Append(a.chunk, n)
  BY <1>2, <1>3 DEF FlushAt, Put
<1>8. /\ Len(Append(a.chunk, n)) = h + 1 /\ Append(a.chunk, n)[h + 1] = n
      /\ \A k \in 1..h : Append(a.chunk, n)[k] = a.chunk[k]
  BY <1>1, <1>4, <1>5
<1>9. Len(b.csv) = c + 1 /\ b.csv[c + 1] = n /\ DOMAIN b.csv = 1..(c + 1)
      /\ \A k \in 1..c : b.csv[k] = a.csv[k]
  BY <1>1, <1>4, <1>5, <1>6
<1>10. /\ c - h \in Nat /\ c + 1 \in Nat /\ c - h < c + 1 /\ (c + 1) - (h + 1) = c - h
       /\ \A k \in (c - h + 1)..(c + 1) :
            k \in 1..(c + 1) /\ k - (c - h) \in 1..(h + 1) /\ (c - h) + (k - (c - h)) = k
  <2>1. h + 1 \in Nat /\ c + 1 \in Nat /\ h + 1 <= c + 1 /\ h + 1 # 0
    BY <1>4
  <2>2. (c + 1) - (h + 1) = c - h
    BY <1>4, Minus
  <2>3. /\ (c + 1) - (h + 1) \in Nat /\ (c + 1) - (h + 1) < c + 1
        /\ \A k \in ((c + 1) - (h + 1) + 1)..(c + 1) :
            /\ k \in 1..(c + 1) /\ k - ((c + 1) - (h + 1)) \in 1..(h + 1)
            /\ ((c + 1) - (h + 1)) + (k - ((c + 1) - (h + 1))) = k
    BY <2>1, Slicing
  <2> QED  BY <2>1, <2>2, <2>3
<1>11. /\ AllOf(t).csv \in Seq(Nat) /\ Len(b.csv) <= Len(AllOf(t).csv)
       /\ \A k \in DOMAIN b.csv : AllOf(t).csv[k] = b.csv[k]
  <2>1. N \in 0..N
    BY <1>1
  <2> QED  BY <1>1, <1>3, <2>1, TraceGrows, SettledTyped DEF AllOf
<1>12. ASSUME NEW k \in (c - h + 1)..(c + 1)
       PROVE  k \in DOMAIN AllOf(t).csv /\ x.rows[k - (c - h)] = AllOf(t).csv[k]
  <2>1. k \in 1..(c + 1) /\ k \in DOMAIN b.csv
    BY <1>9, <1>10
  <2>2. k \in DOMAIN AllOf(t).csv /\ AllOf(t).csv[k] = b.csv[k]
    <3>1. DOMAIN AllOf(t).csv = 1..Len(AllOf(t).csv) /\ Len(AllOf(t).csv) \in Nat
      BY <1>11
    <3> QED  BY <1>9, <1>11, <2>1, <3>1
  <2>5. PICK d, j : d = c - h /\ j = k - d
    OBVIOUS
  <2>6. d \in Nat /\ j \in 1..(h + 1) /\ d + j = k /\ c = d + h
    BY <1>4, <1>10, <2>5, SumOf
  <2>3. CASE k = c + 1
    <3>1. k - (c - h) = h + 1
      <4>1. d + j = (d + h) + 1
        BY <2>3, <2>6
      <4>2. j = h + 1
        BY <2>6, <4>1
      <4> QED  BY <2>5, <4>2
    <3> QED  BY <1>7, <1>8, <1>9, <2>2, <2>3, <3>1
  <2>4. CASE k # c + 1
    <3>1. k \in 1..c /\ k - (c - h) \in 1..h /\ (c - h) + (k - (c - h)) = k
      <4>1. k \in 1..c
        BY <2>1, <2>4
      <4>2. j # h + 1
        BY <2>4, <2>6
      <4>3. j \in 1..h
        BY <2>6, <4>2
      <4> QED  BY <2>5, <2>6, <4>1, <4>3
    <3>2. a.chunk[k - (c - h)] = a.csv[(c - h) + (k - (c - h))]
      BY <1>1, <1>2, <1>4, <3>1, TraceHas
    <3> QED  BY <1>7, <1>8, <1>9, <2>2, <3>1, <3>2
  <2> QED  BY <2>2, <2>3, <2>4
<1>13. x.key - Len(x.rows) = c - h
  BY <1>7, <1>8, <1>9, <1>10
<1> HIDE DEF x
<1> QED  BY <1>6, <1>7, <1>9, <1>10, <1>12, <1>13 DEF IsSlice, x

(* The last one is what was not settled by then.                           *)
LEMMA LastFlushIs ==
    ASSUME NEW t \in Tables, AllOf(t).chunk # <<>>
    PROVE  IsSlice(LastFlush(t), t, Settled(t, ReadableRows[t]), Len(AllOf(t).csv))
<1> DEFINE N == ReadableRows[t]
           x == LastFlush(t)
<1>1. N \in Nat /\ N \in 0..N
  BY RowsTyped
<1>2. PICK b \in Progress : b = AllOf(t)
  BY <1>1, TraceStarts DEF AllOf
<1>3. b.csv \in Seq(Nat) /\ b.chunk \in Seq(Nat) /\ b.chunk # <<>>
  BY <1>2 DEF Progress
<1>4. PICK c, h \in Nat : c = Len(b.csv) /\ h = Len(b.chunk) /\ h <= c /\ h # 0
  <2>1. Len(b.chunk) <= Len(b.csv)
    BY <1>1, <1>2, TraceHas DEF AllOf
  <2>2. Len(b.csv) \in Nat /\ Len(b.chunk) \in Nat /\ Len(b.chunk) # 0
    BY <1>3
  <2> QED  BY <2>1, <2>2
<1>5. x.kind = "text" /\ x.table = t /\ x.key = c /\ x.rows = b.chunk
  BY <1>2, <1>4 DEF LastFlush, Put
<1>6. Settled(t, N) = c - h
  BY <1>2, <1>4 DEF Settled, AllOf
<1>7. c - h \in Nat /\ c - h < c
  BY <1>4, Slicing
<1>8. ASSUME NEW k \in (c - h + 1)..c
      PROVE  k \in DOMAIN b.csv /\ b.chunk[k - (c - h)] = b.csv[k]
  <2>1. k \in 1..c /\ k - (c - h) \in 1..h /\ (c - h) + (k - (c - h)) = k
    BY <1>4, Slicing
  <2>2. b.chunk[k - (c - h)] = b.csv[(c - h) + (k - (c - h))]
    BY <1>1, <1>2, <1>4, <2>1, TraceHas DEF AllOf
  <2>3. DOMAIN b.csv = 1..c
    BY <1>3, <1>4
  <2> QED  BY <2>1, <2>2, <2>3
<1>9. x.key - Len(x.rows) = c - h
  BY <1>4, <1>5
<1> HIDE DEF x
<1> QED  BY <1>2, <1>4, <1>5, <1>6, <1>7, <1>8, <1>9 DEF IsSlice, x

(* The rows of a slice.                                                    *)
LEMMA SliceCovers ==
    ASSUME NEW x, NEW t, NEW from, NEW to, IsSlice(x, t, from, to), NEW k
    PROVE  Covers(x, k) <=> k \in (from + 1)..to
BY DEF IsSlice, Covers

(* Two full fragments have no row in common.                               *)
LEMMA FlushedBefore ==
    ASSUME NEW t \in Tables, NEW m \in 1..ReadableRows[t], NEW n \in 1..ReadableRows[t],
           Flushed(t, m), Flushed(t, n), m < n
    PROVE  \A k : ~(Covers(FlushAt(t, m), k) /\ Covers(FlushAt(t, n), k))
<1>1. /\ ReadableRows[t] \in Nat /\ m \in 0..ReadableRows[t] /\ n - 1 \in m..ReadableRows[t]
      /\ n - 1 \in 0..ReadableRows[t]
  BY RowsTyped
<1>2. Settled(t, m) <= Settled(t, n - 1) /\ Settled(t, m) \in Nat /\ Settled(t, n - 1) \in Nat
  BY <1>1, TraceGrows, SettledTyped
<1>3. ASSUME NEW k, Covers(FlushAt(t, m), k), Covers(FlushAt(t, n), k) PROVE FALSE
  <2>1. k \in (Settled(t, m - 1) + 1)..Settled(t, m) /\ k \in (Settled(t, n - 1) + 1)..Settled(t, n)
    BY <1>3, FlushAtIs, SliceCovers
  <2>2. k <= Settled(t, m) /\ Settled(t, n - 1) + 1 <= k /\ k \in Int
    BY <2>1
  <2> QED  BY <1>2, <2>2
<1> QED  BY <1>3

(* Nor have a full one and the last one.                                   *)
LEMMA FlushedBeforeLast ==
    ASSUME NEW t \in Tables, NEW m \in 1..ReadableRows[t], Flushed(t, m), AllOf(t).chunk # <<>>
    PROVE  \A k : ~(Covers(FlushAt(t, m), k) /\ Covers(LastFlush(t), k))
<1> DEFINE N == ReadableRows[t]
<1>1. N \in Nat /\ m \in 0..N /\ N \in m..N /\ N \in 0..N
  BY RowsTyped
<1>2. Settled(t, m) <= Settled(t, N) /\ Settled(t, m) \in Nat /\ Settled(t, N) \in Nat
  BY <1>1, TraceGrows, SettledTyped
<1>3. ASSUME NEW k, Covers(FlushAt(t, m), k), Covers(LastFlush(t), k) PROVE FALSE
  <2>1. k \in (Settled(t, m - 1) + 1)..Settled(t, m) /\ k \in (Settled(t, N) + 1)..Len(AllOf(t).csv)
    BY <1>3, FlushAtIs, LastFlushIs, SliceCovers
  <2>2. k <= Settled(t, m) /\ Settled(t, N) + 1 <= k /\ k \in Int
    BY <2>1
  <2> QED  BY <1>2, <2>2
<1> QED  BY <1>3

(* A fragment is a full one or the last one.                               *)
LEMMA FlushesAre ==
    ASSUME NEW t \in Tables, NEW x \in Flushes(t)
    PROVE  \/ \E n \in 1..ReadableRows[t] : Flushed(t, n) /\ x = FlushAt(t, n)
           \/ AllOf(t).chunk # <<>> /\ x = LastFlush(t)
BY DEF Flushes, FlushesTo

(* A fragment of the text of a table is a slice of its rows, no two of them *)
(* share a row, and each row is in one.                                    *)
LEMMA FlushesAreSlices ==
    ASSUME NEW t \in Tables, NEW x \in Flushes(t)
    PROVE  \E from, to : IsSlice(x, t, from, to)
BY FlushesAre, FlushAtIs, LastFlushIs

(* Of two fragments, one is the other or has no row of it.                 *)
LEMMA FlushesApart ==
    ASSUME NEW t \in Tables, NEW x \in Flushes(t), NEW y \in Flushes(t), NEW k, Covers(x, k), Covers(y, k)
    PROVE  x = y
<1> DEFINE N == ReadableRows[t]
<1>1. CASE \E m \in 1..N, n \in 1..N :
              Flushed(t, m) /\ x = FlushAt(t, m) /\ Flushed(t, n) /\ y = FlushAt(t, n)
  <2>1. PICK m \in 1..N, n \in 1..N :
              Flushed(t, m) /\ x = FlushAt(t, m) /\ Flushed(t, n) /\ y = FlushAt(t, n)
    BY <1>1
  <2>2. m \in Int /\ n \in Int
    OBVIOUS
  <2>3. CASE m < n
    BY <2>1, <2>3, FlushedBefore
  <2>4. CASE n < m
    BY <2>1, <2>4, FlushedBefore
  <2>5. CASE m = n
    BY <2>1, <2>5
  <2> QED  BY <2>2, <2>3, <2>4, <2>5
<1>2. CASE x = LastFlush(t) /\ y = LastFlush(t)
  BY <1>2
<1>3. CASE /\ AllOf(t).chunk # <<>>
           /\ \/ x = LastFlush(t) /\ \E n \in 1..N : Flushed(t, n) /\ y = FlushAt(t, n)
              \/ y = LastFlush(t) /\ \E m \in 1..N : Flushed(t, m) /\ x = FlushAt(t, m)
  BY <1>3, FlushedBeforeLast
<1> QED  BY <1>1, <1>2, <1>3, FlushesAre

(* Each row of the file is in a fragment.                                  *)
LEMMA FlushesCover ==
    ASSUME NEW t \in Tables, NEW k \in DOMAIN AllOf(t).csv
    PROVE  \E x \in Flushes(t) : Covers(x, k)
<1> DEFINE N == ReadableRows[t]
<1>1. N \in Nat /\ N \in 0..N
  BY RowsTyped
<1>2. PICK c \in Nat : c = Len(AllOf(t).csv) /\ DOMAIN AllOf(t).csv = 1..c
  BY <1>1, SettledTyped DEF AllOf
<1>3. PICK s \in Nat : s = Settled(t, N)
  BY <1>1, SettledTyped
<1>4. CASE k <= s
  <2>1. k \in 1..s
    BY <1>2, <1>4
  <2>2. PICK m \in 1..N : Flushed(t, m) /\ Settled(t, m - 1) < k /\ k <= Settled(t, m)
    BY <1>1, <1>3, <2>1, TraceCovers
  <2>3. m - 1 \in 0..N /\ m \in 0..N
    BY <1>1
  <2>4. Settled(t, m - 1) \in Nat /\ Settled(t, m) \in Nat
    BY <2>3, SettledTyped
  <2>5. k \in (Settled(t, m - 1) + 1)..Settled(t, m)
    BY <2>1, <2>2, <2>4
  <2>6. FlushAt(t, m) \in Flushes(t)
    BY <2>2 DEF Flushes, FlushesTo
  <2> QED  BY <2>2, <2>5, <2>6, FlushAtIs, SliceCovers
<1>5. CASE s < k
  <2>1. k \in (s + 1)..c
    BY <1>2, <1>5
  <2>2. AllOf(t).chunk # <<>>
    <3>1. ASSUME AllOf(t).chunk = <<>> PROVE FALSE
      <4>1. Settled(t, N) = Len(AllOf(t).csv) - 0
        BY <3>1 DEF Settled, AllOf
      <4>2. s = c
        BY <1>2, <1>3, <4>1
      <4> QED  BY <2>1, <4>2
    <3> QED  BY <3>1
  <2>3. LastFlush(t) \in Flushes(t)
    BY <2>2 DEF Flushes
  <2> QED  BY <1>2, <1>3, <2>1, <2>2, <2>3, LastFlushIs, SliceCovers
<1>6. k \in Int
  BY <1>2
<1> QED  BY <1>3, <1>4, <1>5, <1>6

-----------------------------------------------------------------------------
(* The invariant *)

(* What a fragment of a table is, whenever it was written. *)
Canonical(x) ==
    /\ x.kind = "text" => x \in Flushes(x.table)
    /\ x.kind = "table" => x.rows = AllOf(x.table).csv

(* A table that names its file has its text with it. *)
WithText(s) == \A x \in s : x.kind = "table" => Flushes(x.table) \subseteq s

(* The table in hand is as far as its rows are read. *)
ReadingInv ==
    /\ pc = "rows" =>
        /\ row \in 0..ReadableRows[table]
        /\ csv = At(table, row).csv /\ chunk = At(table, row).chunk /\ chars = At(table, row).chars
        /\ FlushesTo(table, row) \subseteq buffer
    /\ pc = "emit" => csv = AllOf(table).csv /\ Flushes(table) \subseteq buffer

(* What is stored and what is buffered, each table after its text.         *)
FragmentsInv ==
    /\ \A x \in fragments \union buffer : Canonical(x)
    /\ WithText(fragments) /\ WithText(buffer)

(* All rows that are not empty can be read and decoded; or there is nothing *)
(* to tell that of, or it was logged.                                      *)
Whole(t) == Readable(t) = {k \in DOMAIN Rows[t] : Rows[t][k] > 0}
Told(f, t) == Kind[f] = "access" \/ <<f, t>> \in logged \/ Whole(t)
(* There is a table with its file.                                         *)
Emitted(t, s) == \E x \in s : x.kind = "table" /\ x.table = t

(* It is one that SQLite is not asked for.                                 *)
LeftOut(f, t) == Kind[f] = "sqlite" /\ t \in Misnamed

(* A success has its tables.                                               *)
SuccessInv ==
    \A f \in Jobs : status[f] = "success" =>
        \A n \in DOMAIN Sheets[f] :
            \/ Emitted(Sheets[f][n], fragments) /\ Told(f, Sheets[f][n])
            \/ LeftOut(f, Sheets[f][n])

(* Each table of the file is to be read, in hand, or done with. *)
SheetsInv ==
    /\ pc \notin {"idle", "reject"} => \A n \in DOMAIN Sheets[file] :
        \/ \E k \in DOMAIN sheets : sheets[k] = Sheets[file][n]
        \/ pc \in {"rows", "emit"} /\ table = Sheets[file][n]
        \/ Emitted(Sheets[file][n], buffer) /\ Told(file, Sheets[file][n])
        \/ LeftOut(file, Sheets[file][n])
    /\ pc \in {"members", "queue"} /\ ingestor \in Tabular => sheets = <<>>
    /\ pc \in {"sheets", "rows", "emit"} => ingestor \in Tabular
    /\ pc = "rows" => \A k \in 1..row :
        Decodable(table, k) \/ Rows[table][k] = 0 \/ <<file, table>> \in logged
    /\ pc = "emit" => Told(file, table)

(* All about tables.                                                       *)
TablesInv == ReadingInv /\ FragmentsInv /\ SuccessInv /\ SheetsInv

-----------------------------------------------------------------------------
(* The steps *)

(* A row that leaves nothing in the file. *)
PassesRow ==
    /\ AtRow /\ pc' = pc /\ row' = row + 1 /\ ~Decodable(table, row + 1)
    /\ UNCHANGED <<status, fragments, buffer, sheets, table, csv, chunk, chars, file, ingestor>>
    /\ logged \subseteq logged'
    /\ Rows[table][row + 1] = 0 \/ <<file, table>> \in logged'

(* The last row of a table was read, or it breaks off and that is known.   *)
ClosesTable ==
    /\ pc = "rows" /\ Close /\ logged \subseteq logged'
    /\ \/ row = Len(Rows[table])
       \/ row = ReadableRows[table] /\ (ingestor = "access" \/ <<file, table>> \in logged')

(* A pass ends.                                                            *)
EndsPass(st) == pc # "idle" /\ Finalize(st) /\ (st = "success" => Succeed)

(* A step among what is no table. *)
Aside ==
    /\ pc \in {"unpack", "members", "queue"} /\ pc' \in {"members", "queue"}
    /\ pc = "unpack" => ingestor \in Archives
    /\ UNCHANGED <<status, fragments, buffer, sheets, reading, file, ingestor>>
    /\ logged \subseteq logged'

(* All that steps do to the tables.                                        *)
LEMMA TableSteps ==
    ASSUME TypeInv, [Next]_vars
    PROVE  \/ Start \/ (\E st : EndsPass(st)) \/ Aside \/ UNCHANGED vars
           \/ (Open /\ ingestor \in Tabular) \/ PassesRow \/ ReadRow \/ ClosesTable \/ EmitTable
           \/ FindEmbedded \/ LeaveOut \/ CursorRaises
<1> USE DEF store, history, taken, members, writer, reading
<1>1. CASE Reject \/ RejectEmail \/ RejectSheet \/ RejectDbf \/ RejectTable \/ RejectPst
           \/ RaiseAfterCrawl \/ Raise
  <2>1. pc # "idle" /\ Finalize("failure")
    BY <1>1 DEF Reject, RejectEmail, RejectSheet, RejectDbf, RejectTable, RejectPst, RaiseAfterCrawl,
                Raise, Raises, RunsAgain, GivesUp, Ends, BreaksOff
  <2> QED  BY <2>1 DEF EndsPass
<1>2. CASE Succeed
  BY <1>2 DEF Succeed, Ends, EndsPass
<1>3. CASE UnpackAll \/ ReadPst \/ ReadPstFails \/ CrawlAgain
  BY <1>3 DEF UnpackAll, ReadPst, ReadPstFails, CrawlAgain, Crawl, Is, Archives, Aside
<1>4. CASE UnpackZip \/ UnpackTar \/ UnpackRar
  <2>1. pc = "unpack" /\ ingestor \in Archives /\ UnpackMembers
    BY <1>4 DEF UnpackZip, UnpackTar, UnpackRar, Is, Archives
  <2>2. (\E found : Crawl(found)) /\ logged \subseteq logged'
    BY <2>1 DEF UnpackMembers
  <2> QED  BY <2>1, <2>2 DEF Crawl, Aside
<1>5. CASE Decompress
  <2>1. pc = "unpack" /\ ingestor \in Archives
    BY <1>5 DEF Decompress, Is, Archives
  <2>2. CASE file \in Damaged
    BY <1>5, <2>1, <2>2 DEF Decompress, EndsPass, RunsAgain, GivesUp
  <2>3. CASE file \notin Damaged
    BY <1>5, <2>1, <2>3 DEF Decompress, Crawl, Aside
  <2> QED  BY <2>2, <2>3
<1>6. CASE StoreMember \/ QueueMember \/ OpenMessage \/ CloseMessage \/ PassOverMember \/ Sweep
  BY <1>6 DEF StoreMember, QueueMember, OpenMessage, CloseMessage, EndOfMessage, PassOverMember,
              PassOver, Sweep, Aside
<1>7. CASE OpenSheet \/ OpenTable \/ OpenOwn
  BY <1>7 DEF OpenSheet, OpenTable, OpenOwn, Is, Tabular
<1>8. CASE SkipRow \/ PassOverRow
  BY <1>8 DEF SkipRow, PassOverRow, AtRow, Decodable, PassesRow
<1>9. CASE CloseSheet \/ CutShort \/ ExportEnds
  BY <1>9 DEF CloseSheet, CutShort, ExportEnds, BreaksOff, Is, ClosesTable
<1> QED  BY <1>1, <1>2, <1>3, <1>4, <1>5, <1>6, <1>7, <1>8, <1>9 DEF Next

(* Initially there are no tables.                                          *)
LEMMA TablesInit == Init => TablesInv
BY JobsAreFiles DEF Init, TablesInv, ReadingInv, FragmentsInv, WithText, SuccessInv, SheetsInv

(* What the steps of the invariant have in common. *)
LEMMA SuccessStays ==
    ASSUME SuccessInv, UNCHANGED <<status, fragments>>, logged \subseteq logged'
    PROVE  SuccessInv'
BY DEF SuccessInv, Told, Emitted, LeftOut

(* The fragments, if no step writes any.                                   *)
LEMMA FragmentsStay ==
    ASSUME FragmentsInv, UNCHANGED <<fragments, buffer>> PROVE FragmentsInv'
BY DEF FragmentsInv, WithText, Canonical

(* Text that is put into the buffer is text that belongs there. *)
LEMMA TextPut ==
    ASSUME FragmentsInv, NEW t \in Tables, NEW x \in Flushes(t), fragments' = fragments,
           buffer' = buffer \union {x}
    PROVE  FragmentsInv'
<1>1. x.kind = "text" /\ x.table = t
  BY FlushesAreSlices DEF IsSlice
<1>2. \A y \in fragments \union buffer' : Canonical(y)
  BY <1>1 DEF FragmentsInv, Canonical
<1> QED  BY <1>1, <1>2 DEF FragmentsInv, WithText, Canonical

(* A file is with the ingestor of its kind.                                *)
LEMMA InHandIs == ASSUME TypeInv, RoutedInv, pc \notin {"idle", "reject"} PROVE ingestor = Kind[file]
BY JobsAreFiles DEF RoutedInv, TypeInv, JobTyped

(* Members have no tables.                                                 *)
LEMMA AsideTables == ASSUME TablesInv, Aside PROVE TablesInv'
<1>1. /\ pc \in {"unpack", "members", "queue"} /\ pc' \in {"members", "queue"}
      /\ pc = "unpack" => ingestor \in Archives
      /\ UNCHANGED <<status, fragments, buffer, sheets, table, file, ingestor>> /\ logged \subseteq logged'
  BY DEF Aside, reading
<1>2. ReadingInv' /\ FragmentsInv' /\ SuccessInv'
  BY <1>1, FragmentsStay, SuccessStays DEF TablesInv, ReadingInv
<1>3. SheetsInv'
  <2>1. pc = "unpack" => ingestor \notin Tabular
    BY <1>1 DEF Archives, Tabular, Workbooks, Databases, OwnTables
  <2> QED  BY <1>1, <2>1 DEF TablesInv, SheetsInv, Emitted, Told, LeftOut
<1> QED  BY <1>2, <1>3 DEF TablesInv

(* Nothing changes.                                                        *)
LEMMA StutterTables == ASSUME TablesInv, UNCHANGED vars PROVE TablesInv'
<1>1. /\ UNCHANGED <<pc, file, ingestor, status, fragments, buffer, sheets, logged>>
      /\ UNCHANGED <<table, row, csv, chunk, chars>>
  BY DEF vars, store, history, job, taken, reading, writer
<1>2. FragmentsInv' /\ SuccessInv'
  BY <1>1, FragmentsStay, SuccessStays DEF TablesInv
<1>3. ReadingInv'
  BY <1>1 DEF TablesInv, ReadingInv
<1>4. SheetsInv'
  BY <1>1 DEF TablesInv, SheetsInv, Emitted, Told, LeftOut
<1> QED  BY <1>2, <1>3, <1>4 DEF TablesInv

(* The start of a pass: all its tables are to be read.                     *)
LEMMA StartTables == ASSUME TypeInv, TablesInv, Start PROVE TablesInv'
<1>1. PICK f \in BagToSet(todo) :
        /\ file' = f /\ sheets' = Sheets[f]
        /\ pc' = "reject" \/ pc' = First(ingestor')
  BY DEF Start
<1>2. UNCHANGED <<status, fragments, buffer, logged>>
  BY DEF Start, store, writer
<1>3. f \in Jobs /\ f \in Files
  BY JobsAreFiles DEF TypeInv, BagsTyped
<1>4. /\ pc' \in {"reject", "unpack", "sheets", "members"}
      /\ pc' = "members" => ingestor' \notin Tabular
      /\ pc' = "sheets" => ingestor' \in Tabular
  BY <1>1 DEF First
<1>5. FragmentsInv' /\ SuccessInv' /\ ReadingInv'
  BY <1>2, <1>4, FragmentsStay, SuccessStays DEF TablesInv, ReadingInv
<1>6. SheetsInv'
  BY <1>1, <1>4 DEF SheetsInv
<1> QED  BY <1>5, <1>6 DEF TablesInv

(* A flush replaces a fragment of a table by the same one. *)
LEMMA FlushEmitted ==
    ASSUME NEW s, NEW b, NEW t, Emitted(t, s) \/ Emitted(t, b)
    PROVE  Emitted(t, {x \in s : \A y \in b : ~SameFragment(x, y)} \union b)
BY DEF Emitted, SameFragment

(* A later pass overwrites a text with the same text.                      *)
LEMMA FlushKeepsText ==
    ASSUME NEW t \in Tables, NEW x \in Flushes(t), NEW y, Canonical(y), SameFragment(x, y)
    PROVE  x = y
<1>1. PICK from, to : IsSlice(x, t, from, to)
  BY FlushesAreSlices
<1>2. y \in Flushes(t) /\ y.key = to
  BY <1>1 DEF IsSlice, SameFragment, Canonical
<1>3. PICK from2, to2 : IsSlice(y, t, from2, to2)
  BY <1>2, FlushesAreSlices
<1>4. to2 = to
  BY <1>2, <1>3 DEF IsSlice
<1>5. to \in (from + 1)..to /\ to \in (from2 + 1)..to
  BY <1>1, <1>3, <1>4 DEF IsSlice
<1>6. Covers(x, to) /\ Covers(y, to)
  BY <1>1, <1>3, <1>4, <1>5, SliceCovers
<1> QED  BY <1>2, <1>6, FlushesApart

(* The end of a pass: the buffer is written over what is stored.           *)
LEMMA EndTables ==
    ASSUME TypeInv, RoutedInv, TablesInv, NEW st, EndsPass(st) PROVE TablesInv'
<1>1. /\ pc # "idle" /\ pc' = "idle" /\ status' = [status EXCEPT ![file] = st]
      /\ fragments' = {x \in fragments : \A y \in buffer : ~SameFragment(x, y)} \union buffer
      /\ buffer' = {} /\ logged' = logged
      /\ st = "success" => Succeed
  BY DEF EndsPass, Finalize, history
<1>2. file \in Jobs /\ file \in Files
  BY <1>1, JobsAreFiles DEF TypeInv, JobTyped
<1>3. ReadingInv' /\ SheetsInv'
  BY <1>1 DEF ReadingInv, SheetsInv
<1>4. FragmentsInv'
  <2>1. \A x \in fragments' \union buffer' : Canonical(x) /\ FragmentTyped(x)
    BY <1>1 DEF TablesInv, FragmentsInv, TypeInv, FragmentsTyped
  <2>2. ASSUME NEW x \in fragments', x.kind = "table", NEW z \in Flushes(x.table) PROVE z \in fragments'
    <3>1. CASE x \in buffer
      BY <1>1, <2>2, <3>1 DEF TablesInv, FragmentsInv, WithText
    <3>2. CASE x \in fragments
      <4>1. z \in fragments
        BY <2>2, <3>2 DEF TablesInv, FragmentsInv, WithText
      <4>2. ASSUME NEW y \in buffer, SameFragment(z, y) PROVE z \in buffer
        <5>1. x.table \in Tables
          BY <2>1 DEF FragmentTyped, IsFragment
        <5>2. Canonical(y)
          BY DEF TablesInv, FragmentsInv
        <5> QED  BY <4>2, <5>1, <5>2, FlushKeepsText
      <4> QED  BY <1>1, <4>1, <4>2
    <3> QED  BY <1>1, <2>2, <3>1, <3>2
  <2> QED  BY <1>1, <2>1, <2>2 DEF FragmentsInv, WithText, Canonical
<1>5. ASSUME NEW f \in Jobs, status'[f] = "success", NEW n \in DOMAIN Sheets[f]
      PROVE  \/ Emitted(Sheets[f][n], fragments') /\ Told(f, Sheets[f][n])
             \/ LeftOut(f, Sheets[f][n])
  <2>1. CASE f # file
    <3>1. status[f] = "success"
      BY <1>1, <1>5, <2>1, JobsAreFiles DEF TypeInv, StoreTyped
    <3> QED  BY <1>1, <3>1, FlushEmitted DEF TablesInv, SuccessInv
  <2>2. CASE f = file
    <3>1. Succeed
      BY <1>1, <1>2, <1>5, <2>2 DEF TypeInv, StoreTyped
    <3>2. pc = "members" \/ (pc = "sheets" /\ sheets = <<>>)
      BY <3>1 DEF Succeed
    <3>3. ingestor = Kind[file]
      BY <3>2, InHandIs
    <3>4. Kind[file] \in Tabular
      <4>1. Kind[file] \notin Tabular => Sheets[file] = <<>>
        BY <1>2, HoldingAssumption DEF HoldingAssumption
      <4> QED  BY <1>5, <2>2, <4>1
    <3>5. sheets = <<>>
      BY <3>2, <3>3, <3>4 DEF TablesInv, SheetsInv
    <3>6. \/ Emitted(Sheets[file][n], buffer) /\ Told(file, Sheets[file][n])
          \/ LeftOut(file, Sheets[file][n])
      BY <1>5, <2>2, <3>2, <3>5 DEF TablesInv, SheetsInv
    <3> QED  BY <1>1, <2>2, <3>6, FlushEmitted
  <2> QED  BY <2>1, <2>2
<1>6. SuccessInv'
  BY <1>1, <1>5 DEF SuccessInv, Told, Emitted, LeftOut
<1> QED  BY <1>3, <1>4, <1>6 DEF TablesInv

(* The table in hand has its types.                                        *)
LEMMA TableInHand ==
    ASSUME TypeInv, pc \in {"rows", "emit"}
    PROVE  /\ table \in Tables /\ ReadableRows[table] \in Nat
           /\ file \in Jobs /\ file \in Files /\ row \in Nat /\ csv \in Seq(Nat) /\ chunk \in Seq(Nat)
BY JobsAreFiles, RowsTyped DEF TypeInv, ReadingTyped, JobTyped

(* A table is opened: no row of it was read.                               *)
LEMMA OpenTables == ASSUME TypeInv, TablesInv, Open, ingestor \in Tabular PROVE TablesInv'
<1>1. /\ pc = "sheets" /\ pc' = "rows" /\ sheets # <<>> /\ table' = Head(sheets) /\ sheets' = Tail(sheets)
      /\ row' = 0 /\ csv' = <<>> /\ chunk' = <<>> /\ chars' = 0
      /\ buffer' = buffer \union {Put("initial", Head(sheets), 0, <<>>)}
      /\ UNCHANGED <<status, fragments, file, ingestor, logged>>
  BY DEF Open, store, history, taken
<1>2. PICK t \in Tables, s \in Seq(Tables) : s = sheets /\ t = Head(s)
  BY <1>1 DEF TypeInv, ReadingTyped
<1>3. ReadingInv'
  <2>1. At(t, 0) = Nothing /\ 0 \in 0..ReadableRows[t]
    BY TraceStarts, RowsTyped
  <2>2. FlushesTo(t, 0) = {}
    BY DEF FlushesTo
  <2> QED  BY <1>1, <1>2, <2>1, <2>2 DEF ReadingInv, Nothing
<1>4. FragmentsInv'
  <2>1. Put("initial", t, 0, <<>>).kind = "initial"
    BY DEF Put
  <2> QED  BY <1>1, <1>2, <2>1 DEF TablesInv, FragmentsInv, WithText, Canonical
<1>5. SuccessInv'
  BY <1>1, SuccessStays DEF TablesInv
<1>6. SheetsInv'
  <2> SUFFICES ASSUME NEW n \in DOMAIN Sheets[file]
               PROVE  \/ \E k \in DOMAIN sheets' : sheets'[k] = Sheets[file][n]
                      \/ t = Sheets[file][n]
                      \/ Emitted(Sheets[file][n], buffer') /\ Told(file, Sheets[file][n])
                      \/ LeftOut(file, Sheets[file][n])
    <3>1. \A k \in 1..row' : FALSE
      BY <1>1
    <3>2. \A u : Told(file, u)' <=> Told(file, u)
      BY <1>1 DEF Told
    <3> QED  BY <1>1, <1>2, <3>1, <3>2 DEF SheetsInv, Emitted, LeftOut
  <2>1. CASE \E k \in DOMAIN sheets : sheets[k] = Sheets[file][n]
    <3>1. PICK k \in DOMAIN s : s[k] = Sheets[file][n]
      BY <1>2, <2>1
    <3>2. CASE k = 1
      BY <1>2, <3>1, <3>2
    <3>3. CASE k # 1
      <4>1. k - 1 \in DOMAIN Tail(s) /\ Tail(s)[k - 1] = s[k]
        BY <1>1, <1>2, <3>1, <3>3
      <4> QED  BY <1>1, <1>2, <3>1, <4>1
    <3> QED  BY <3>2, <3>3
  <2>2. CASE Emitted(Sheets[file][n], buffer) /\ Told(file, Sheets[file][n])
    BY <1>1, <2>2 DEF Emitted
  <2> QED  BY <1>1, <2>1, <2>2 DEF TablesInv, SheetsInv
<1> QED  BY <1>3, <1>4, <1>5, <1>6 DEF TablesInv

(* The next row of the table in hand. *)
LEMMA NextRow ==
    ASSUME TypeInv, ReadingInv, AtRow
    PROVE  /\ pc = "rows" /\ table \in Tables /\ row \in 0..(ReadableRows[table] - 1)
           /\ row + 1 \in 0..ReadableRows[table] /\ (row + 1) - 1 = row /\ row + 1 \in Nat
           /\ At(table, row) \in Progress
           /\ csv = At(table, row).csv /\ chunk = At(table, row).chunk /\ chars = At(table, row).chars
           /\ At(table, row + 1) = After(At(table, row), table, row + 1)
           /\ FlushesTo(table, row + 1) \subseteq
                FlushesTo(table, row) \union
                    (IF Flushed(table, row + 1) THEN {FlushAt(table, row + 1)} ELSE {})
<1>1. pc = "rows" /\ table \in Tables /\ ReadableRows[table] \in Nat /\ row \in Nat
      /\ row < ReadableRows[table]
  BY TableInHand DEF AtRow
<1>2. row \in 0..(ReadableRows[table] - 1) /\ row + 1 \in 0..ReadableRows[table] /\ (row + 1) - 1 = row
      /\ row + 1 \in Nat /\ 1..(row + 1) = (1..row) \union {row + 1}
  BY <1>1
<1>3. /\ At(table, row) \in Progress
      /\ At(table, row + 1) = After(At(table, row), table, row + 1)
  BY <1>1, <1>2, TraceGoesOn
<1>4. FlushesTo(table, row + 1) \subseteq
                FlushesTo(table, row) \union
                    (IF Flushed(table, row + 1) THEN {FlushAt(table, row + 1)} ELSE {})
  BY <1>2 DEF FlushesTo
<1> QED  BY <1>1, <1>2, <1>3, <1>4 DEF ReadingInv

(* The sheets are as far as before, once a row was read or passed over. *)
LEMMA RowSheets ==
    ASSUME TypeInv, SheetsInv, pc = "rows", pc' = "rows", buffer \subseteq buffer', row' = row + 1,
           UNCHANGED <<sheets, table, file, ingestor>>, logged \subseteq logged',
           \/ Decodable(table, row + 1) \/ Rows[table][row + 1] = 0 \/ <<file, table>> \in logged'
    PROVE  SheetsInv'
<1>1. 1..(row + 1) = (1..row) \union {row + 1}
  BY DEF TypeInv, ReadingTyped
<1>2. \A k \in 1..row' : Decodable(table, k) \/ Rows[table][k] = 0 \/ <<file, table>> \in logged'
  BY <1>1 DEF SheetsInv
<1>3. \A t : (Told(file, t) => Told(file, t)') /\ (Emitted(t, buffer) => Emitted(t, buffer'))
  BY DEF Told, Emitted
<1> QED  BY <1>2, <1>3 DEF SheetsInv, Emitted, LeftOut

(* A row that leaves nothing in the file.                                  *)
LEMMA PassesTables == ASSUME TypeInv, TablesInv, PassesRow PROVE TablesInv'
<1>1. /\ AtRow /\ pc' = pc /\ row' = row + 1 /\ ~Decodable(table, row + 1)
      /\ UNCHANGED <<status, fragments, buffer, sheets, table, csv, chunk, chars, file, ingestor>>
      /\ logged \subseteq logged'
      /\ Rows[table][row + 1] = 0 \/ <<file, table>> \in logged'
  BY DEF PassesRow
<1>2. FragmentsInv' /\ SuccessInv'
  BY <1>1, FragmentsStay, SuccessStays DEF TablesInv
<1>3. ReadingInv'
  <2>1. At(table, row + 1) = At(table, row) /\ ~Flushed(table, row + 1)
    BY <1>1, NextRow DEF TablesInv, After, Flushed
  <2>2. FlushesTo(table, row + 1) \subseteq buffer
    BY <1>1, <2>1, NextRow DEF TablesInv, ReadingInv
  <2>3. pc' = "rows" /\ row' \in 0..ReadableRows[table]
    BY <1>1, NextRow DEF TablesInv
  <2> QED  BY <1>1, <2>1, <2>2, <2>3 DEF TablesInv, ReadingInv
<1>4. SheetsInv'
  BY <1>1, RowSheets DEF TablesInv, AtRow
<1> QED  BY <1>2, <1>3, <1>4 DEF TablesInv

(* A row of the file, and of the fragment that it may fill.                *)
LEMMA ReadTables == ASSUME TypeInv, TablesInv, ReadRow PROVE TablesInv'
<1>1. /\ AtRow /\ pc' = pc /\ row' = row + 1 /\ Decodable(table, row + 1) /\ csv' = Append(csv, row + 1)
      /\ UNCHANGED <<status, fragments, sheets, table, file, ingestor, logged>>
  BY DEF ReadRow, AtRow, store, history, taken
<1>2. PICK t \in Tables : t = table
  BY <1>1, NextRow DEF TablesInv
<1>3. PICK n \in 1..ReadableRows[t] : n = row + 1
  BY <1>1, <1>2, NextRow, RowsTyped DEF TablesInv
<1>4. PICK s \in Progress : s = At(t, n - 1) /\ csv = s.csv /\ chunk = s.chunk /\ chars = s.chars
  BY <1>1, <1>2, <1>3, NextRow DEF TablesInv
<1>5. /\ At(t, n) = After(s, t, n) /\ n \in 0..ReadableRows[t]
      /\ FlushesTo(t, n) \subseteq buffer \union (IF Flushed(t, n) THEN {FlushAt(t, n)} ELSE {})
  BY <1>1, <1>2, <1>3, <1>4, NextRow DEF TablesInv, ReadingInv
<1>6. /\ Flushed(t, n) <=> Full(s, t, n)
      /\ At(t, n) = [csv |-> Append(s.csv, n),
                     chunk |-> IF Full(s, t, n) THEN <<>> ELSE Append(s.chunk, n),
                     chars |-> IF Full(s, t, n) THEN 0 ELSE s.chars + Rows[t][n]]
  BY <1>1, <1>2, <1>3, <1>4, <1>5 DEF Flushed, After
<1>7. /\ Full(s, t, n) => buffer' = buffer \union {Put("text", t, Len(csv'), Append(s.chunk, n))}
                          /\ chunk' = <<>> /\ chars' = 0
      /\ ~Full(s, t, n) => chunk' = Append(s.chunk, n) /\ chars' = s.chars + Rows[t][n] /\ UNCHANGED buffer
  BY <1>1, <1>2, <1>3, <1>4 DEF ReadRow, Full, FlushChunk
<1>8. csv' = At(t, n).csv /\ chunk' = At(t, n).chunk /\ chars' = At(t, n).chars
  <2>1. csv' = At(t, n).csv
    BY <1>1, <1>3, <1>4, <1>6
  <2>2. CASE Full(s, t, n)
    BY <1>6, <1>7, <2>1, <2>2
  <2>3. CASE ~Full(s, t, n)
    BY <1>6, <1>7, <2>1, <2>3
  <2> QED  BY <2>2, <2>3
<1>9. Full(s, t, n) => /\ buffer' = buffer \union {FlushAt(t, n)} /\ FlushAt(t, n) \in Flushes(t)
  <2>1. Full(s, t, n) => Put("text", t, Len(csv'), Append(s.chunk, n)) = FlushAt(t, n)
    BY <1>4, <1>8 DEF FlushAt
  <2>2. Flushed(t, n) => FlushAt(t, n) \in Flushes(t)
    BY <1>3 DEF Flushes, FlushesTo
  <2> QED  BY <1>6, <1>7, <2>1, <2>2
<1>10. FragmentsInv'
  <2>1. CASE Full(s, t, n)
    BY <1>1, <1>9, <2>1, TextPut DEF TablesInv
  <2>2. CASE ~Full(s, t, n)
    BY <1>1, <1>7, <2>2, FragmentsStay DEF TablesInv
  <2> QED  BY <2>1, <2>2
<1>11. ReadingInv'
  <2>1. FlushesTo(t, n) \subseteq buffer'
    BY <1>5, <1>6, <1>7, <1>9
  <2>2. pc' = "rows"
    BY <1>1 DEF AtRow
  <2> QED  BY <1>1, <1>2, <1>3, <1>5, <1>8, <2>1, <2>2 DEF ReadingInv
<1>12. SuccessInv'
  BY <1>1, SuccessStays DEF TablesInv
<1>13. SheetsInv'
  <2>1. buffer \subseteq buffer'
    BY <1>7
  <2> QED  BY <1>1, <2>1, RowSheets DEF TablesInv, AtRow
<1> QED  BY <1>10, <1>11, <1>12, <1>13 DEF TablesInv

(* The end of a table: what is left is its last fragment.                  *)
LEMMA CloseTables == ASSUME TypeInv, RoutedInv, TablesInv, ClosesTable PROVE TablesInv'
<1>1. /\ pc = "rows" /\ pc' = "emit" /\ logged \subseteq logged'
      /\ \/ row = Len(Rows[table])
         \/ row = ReadableRows[table] /\ (ingestor = "access" \/ <<file, table>> \in logged')
      /\ buffer' = buffer \union (IF chunk = <<>> THEN {} ELSE {Put("text", table, Len(csv), chunk)})
      /\ UNCHANGED <<status, fragments, sheets, table, row, csv, file, ingestor>>
  BY DEF ClosesTable, Close, FlushChunk, store, taken
<1>2. PICK t \in Tables : t = table
  BY <1>1, TableInHand
<1>3. row \in 0..ReadableRows[t]
  BY <1>1, <1>2 DEF TablesInv, ReadingInv
<1>4. PICK N \in Nat : N = ReadableRows[t] /\ N <= Len(Rows[t]) /\ row = N /\ Len(Rows[t]) \in Nat
  BY <1>1, <1>2, <1>3, RowsTyped
<1>5. csv = AllOf(t).csv /\ chunk = AllOf(t).chunk /\ FlushesTo(t, N) \subseteq buffer
  BY <1>1, <1>2, <1>4 DEF TablesInv, ReadingInv, AllOf
<1>6. buffer' = buffer \union (IF AllOf(t).chunk = <<>> THEN {} ELSE {LastFlush(t)})
  BY <1>1, <1>2, <1>5 DEF LastFlush
<1>7. Flushes(t) \subseteq buffer'
  BY <1>4, <1>5, <1>6 DEF Flushes
<1>8. FragmentsInv'
  <2>1. CASE AllOf(t).chunk = <<>>
    BY <1>1, <1>6, <2>1, FragmentsStay DEF TablesInv
  <2>2. CASE AllOf(t).chunk # <<>>
    <3>1. LastFlush(t) \in Flushes(t) /\ buffer' = buffer \union {LastFlush(t)}
      BY <1>6, <2>2 DEF Flushes
    <3> QED  BY <1>1, <3>1, TextPut DEF TablesInv
  <2> QED  BY <2>1, <2>2
<1>9. ReadingInv'
  BY <1>1, <1>2, <1>5, <1>7 DEF ReadingInv
<1>10. SuccessInv'
  BY <1>1, SuccessStays DEF TablesInv
<1>11. Told(file, t)'
  <2>1. CASE row = Len(Rows[t]) /\ <<file, t>> \notin logged
    <3>1. \A k \in 1..N : Decodable(t, k) \/ Rows[t][k] = 0
      BY <1>1, <1>2, <1>4, <2>1 DEF TablesInv, SheetsInv
    <3>2. DOMAIN Rows[t] = 1..N /\ \A k \in 1..N : Rows[t][k] \in Nat
      BY <1>4, <2>1, RowsTyped
    <3>3. Readable(t) = {k \in DOMAIN Rows[t] : Rows[t][k] > 0}
      <4>1. Readable(t) = {k \in 1..N : Decodable(t, k)}
        BY <1>4 DEF Readable
      <4>2. \A k \in 1..N : Decodable(t, k) <=> Rows[t][k] > 0
        BY <3>1, <3>2 DEF Decodable
      <4> QED  BY <3>2, <4>1, <4>2
    <3> QED  BY <3>3 DEF Told, Whole
  <2>2. CASE ingestor = "access"
    BY <1>1, <2>2, InHandIs DEF Told
  <2>3. CASE <<file, t>> \in logged'
    BY <1>1, <2>3 DEF Told
  <2> QED  BY <1>1, <1>2, <2>1, <2>2, <2>3
<1>12. SheetsInv'
  <2>1. \A u : (Told(file, u) => Told(file, u)') /\ (Emitted(u, buffer) => Emitted(u, buffer'))
    BY <1>1, <1>6 DEF Told, Emitted
  <2> QED  BY <1>1, <1>2, <1>11, <2>1 DEF TablesInv, SheetsInv, Emitted, LeftOut
<1> QED  BY <1>8, <1>9, <1>10, <1>12 DEF TablesInv

(* The table, when all its text is in the buffer.                          *)
LEMMA EmitTables == ASSUME TypeInv, TablesInv, EmitTable PROVE TablesInv'
<1>1. /\ pc = "emit" /\ pc' = "sheets" /\ buffer' = buffer \union {Put("table", table, 0, csv)}
      /\ UNCHANGED <<status, fragments, sheets, table, file, ingestor, logged>>
  BY DEF EmitTable, store, history, taken, reading
<1>2. csv = AllOf(table).csv /\ Flushes(table) \subseteq buffer
  BY <1>1 DEF TablesInv, ReadingInv
<1> DEFINE x == Put("table", table, 0, csv)
<1>3. x.kind = "table" /\ x.table = table /\ x.rows = csv
  BY DEF Put
<1>7. buffer' = buffer \union {x}
  BY <1>1
<1> HIDE DEF x
<1>4. FragmentsInv'
  <2>1. \A y \in fragments \union buffer' : Canonical(y)
    BY <1>2, <1>3, <1>7 DEF TablesInv, FragmentsInv, Canonical
  <2>2. WithText(buffer')
    BY <1>2, <1>3, <1>7 DEF TablesInv, FragmentsInv, WithText
  <2> QED  BY <1>1, <2>1, <2>2 DEF TablesInv, FragmentsInv, WithText, Canonical
<1>5. ReadingInv' /\ SuccessInv'
  BY <1>1, SuccessStays DEF TablesInv, ReadingInv
<1>6. SheetsInv'
  <2>1. \A u : Emitted(u, buffer) \/ u = table => Emitted(u, buffer')
    BY <1>3, <1>7 DEF Emitted
  <2>2. Told(file, table)
    BY <1>1 DEF TablesInv, SheetsInv
  <2> QED  BY <1>1, <2>1, <2>2 DEF TablesInv, SheetsInv, Emitted, Told, LeftOut
<1> QED  BY <1>4, <1>5, <1>6 DEF TablesInv

(* After the last sheet of a workbook.                                     *)
LEMMA FindEmbeddedTables == ASSUME TablesInv, FindEmbedded PROVE TablesInv'
<1>1. /\ pc = "sheets" /\ pc' = "members" /\ sheets = <<>>
      /\ UNCHANGED <<status, fragments, buffer, sheets, table, file, ingestor>> /\ logged \subseteq logged'
  BY DEF FindEmbedded, store, history, taken, reading, writer
<1>2. FragmentsInv' /\ ReadingInv' /\ SuccessInv'
  BY <1>1, FragmentsStay, SuccessStays DEF TablesInv, ReadingInv
<1>3. SheetsInv'
  BY <1>1 DEF TablesInv, SheetsInv, Emitted, Told, LeftOut
<1> QED  BY <1>2, <1>3 DEF TablesInv

(* A table whose name does not match is none that is asked for.            *)
LEMMA LeaveOutTables == ASSUME TypeInv, RoutedInv, TablesInv, LeaveOut PROVE TablesInv'
<1>1. /\ pc = "sheets" /\ pc' = "sheets" /\ sheets # <<>> /\ sheets' = Tail(sheets)
      /\ ingestor = "sqlite" /\ Head(sheets) \in Misnamed
      /\ UNCHANGED <<status, fragments, buffer, table, row, csv, chunk, chars, file, ingestor, logged>>
  BY DEF LeaveOut, Valid, Is, store, history, taken, reading, writer
<1>2. PICK s \in Seq(Tables) : s = sheets
  BY DEF TypeInv, ReadingTyped
<1>3. LeftOut(file, Head(s))
  BY <1>1, <1>2, InHandIs DEF LeftOut
<1>4. FragmentsInv' /\ ReadingInv' /\ SuccessInv'
  BY <1>1, FragmentsStay, SuccessStays DEF TablesInv, ReadingInv
<1>5. SheetsInv'
  <2>1. ASSUME NEW k \in DOMAIN s
        PROVE  (\E j \in DOMAIN sheets' : sheets'[j] = s[k]) \/ LeftOut(file, s[k])
    <3>1. CASE k = 1
      BY <1>1, <1>2, <1>3, <3>1
    <3>2. CASE k # 1
      <4>1. k - 1 \in DOMAIN Tail(s) /\ Tail(s)[k - 1] = s[k]
        BY <1>1, <1>2, <3>2
      <4> QED  BY <1>1, <1>2, <4>1
    <3> QED  BY <3>1, <3>2
  <2>2. ASSUME NEW n \in DOMAIN Sheets[file]
        PROVE  \/ \E j \in DOMAIN sheets' : sheets'[j] = Sheets[file][n]
               \/ Emitted(Sheets[file][n], buffer) /\ Told(file, Sheets[file][n])
               \/ LeftOut(file, Sheets[file][n])
    BY <1>1, <1>2, <2>1 DEF TablesInv, SheetsInv
  <2>3. \A u : Told(file, u)' <=> Told(file, u)
    BY <1>1 DEF Told
  <2> QED  BY <1>1, <2>2, <2>3 DEF TablesInv, SheetsInv, Emitted, LeftOut
<1> QED  BY <1>4, <1>5 DEF TablesInv

(* The cursor raises again, at the same row.                               *)
LEMMA CursorTables == ASSUME TablesInv, CursorRaises PROVE TablesInv'
<1>1. /\ pc = "rows" /\ pc' = "rows" /\ logged \subseteq logged'
      /\ UNCHANGED <<status, fragments, buffer, sheets, table, row, csv, chunk, chars, file, ingestor>>
  BY DEF CursorRaises, BreaksOff, store, taken, reading, writer
<1>2. FragmentsInv' /\ ReadingInv' /\ SuccessInv'
  BY <1>1, FragmentsStay, SuccessStays DEF TablesInv, ReadingInv
<1>3. SheetsInv'
  BY <1>1 DEF TablesInv, SheetsInv, Emitted, Told, LeftOut
<1> QED  BY <1>2, <1>3 DEF TablesInv

-----------------------------------------------------------------------------
(* What follows *)

(* Each step keeps the invariant.                                          *)
LEMMA TablesStep == ASSUME TypeInv, RoutedInv, TablesInv, [Next]_vars PROVE TablesInv'
BY TableSteps, StartTables, EndTables, AsideTables, StutterTables, OpenTables, PassesTables, ReadTables,
   CloseTables, EmitTables, FindEmbeddedTables, LeaveOutTables, CursorTables

(* The invariant holds.                                                    *)
LEMMA TablesHold == Spec => [](TypeInv /\ TablesInv)
<1>1. Init => TypeInv /\ RoutedInv /\ TablesInv
  BY TypesInit, TablesInit DEF Init, RoutedInv
<1>2. TypeInv /\ RoutedInv /\ TablesInv /\ [Next]_vars => (TypeInv /\ RoutedInv /\ TablesInv)'
  BY TypesStep, RoutedStep, TablesStep
<1> QED  BY <1>1, <1>2, PTL DEF Spec

(* A set that has one thing in it. *)
LEMMA OneOf == ASSUME NEW x PROVE Cardinality({x}) = 1
BY FS!FS_Singleton DEF Cardinality, FS!Cardinality

(* The rows of a table are the readable ones. *)
LEMMA RowsAre ==
    ASSUME NEW t \in Tables
    PROVE  {AllOf(t).csv[n] : n \in DOMAIN AllOf(t).csv} = Readable(t)
<1>1. ReadableRows[t] \in 0..ReadableRows[t]
  BY RowsTyped
<1> QED  BY <1>1, TraceHas DEF AllOf, Readable

(* Wherever earlier passes broke off in it, however its rows are cut into   *)
(* fragments and whatever bounds there are on those, a table that names its *)
(* file has each row that can be read in the file and in one fragment of    *)
(* its text, in order (table.py:51-90).                                    *)
THEOREM WholeTables == Spec => []TablesAreWhole
<1>1. ASSUME TypeInv, TablesInv, NEW x \in fragments, x.kind = "table"
      PROVE  /\ {x.rows[n] : n \in DOMAIN x.rows} = Readable(x.table)
             /\ \A n \in DOMAIN x.rows :
                 /\ Cardinality({y \in TextOf(x.table) : Covers(y, n)}) = 1
                 /\ \A y \in TextOf(x.table) :
                     Covers(y, n) => y.rows[n - (y.key - Len(y.rows))] = x.rows[n]
  <2>1. PICK t \in Tables : t = x.table
    BY <1>1 DEF TypeInv, FragmentsTyped, FragmentTyped, IsFragment
  <2>2. x.rows = AllOf(t).csv
    BY <1>1, <2>1 DEF TablesInv, FragmentsInv, Canonical
  <2>3. TextOf(t) = Flushes(t)
    <3>1. Flushes(t) \subseteq fragments /\ \A y \in Flushes(t) : y.kind = "text" /\ y.table = t
      BY <1>1, <2>1, FlushesAreSlices DEF TablesInv, FragmentsInv, WithText, IsSlice
    <3>2. \A y \in TextOf(t) : y \in Flushes(t)
      BY <1>1 DEF TextOf, TablesInv, FragmentsInv, Canonical
    <3> QED  BY <3>1, <3>2 DEF TextOf
  <2>4. ASSUME NEW n \in DOMAIN AllOf(t).csv
        PROVE  /\ Cardinality({y \in Flushes(t) : Covers(y, n)}) = 1
               /\ \A y \in Flushes(t) : Covers(y, n) => y.rows[n - (y.key - Len(y.rows))] = AllOf(t).csv[n]
    <3>1. PICK z \in Flushes(t) : Covers(z, n)
      BY FlushesCover
    <3>2. {y \in Flushes(t) : Covers(y, n)} = {z}
      BY <3>1, FlushesApart
    <3>3. ASSUME NEW y \in Flushes(t), Covers(y, n)
          PROVE  y.rows[n - (y.key - Len(y.rows))] = AllOf(t).csv[n]
      <4>1. PICK from, to : IsSlice(y, t, from, to)
        BY FlushesAreSlices
      <4>2. n \in (from + 1)..to
        BY <3>3, <4>1, SliceCovers
      <4> QED  BY <4>1, <4>2 DEF IsSlice
    <3> QED  BY <3>2, <3>3, OneOf
  <2>5. {x.rows[n] : n \in DOMAIN x.rows} = Readable(x.table)
    BY <2>1, <2>2, RowsAre
  <2>6. ASSUME NEW n \in DOMAIN x.rows
        PROVE  /\ Cardinality({y \in TextOf(x.table) : Covers(y, n)}) = 1
               /\ \A y \in TextOf(x.table) :
                   Covers(y, n) => y.rows[n - (y.key - Len(y.rows))] = x.rows[n]
    <3>1. n \in DOMAIN AllOf(t).csv
      BY <2>2, <2>6
    <3>2. TextOf(x.table) = Flushes(t)
      BY <2>1, <2>3
    <3> HIDE DEF TextOf, Flushes, Covers, AllOf
    <3> QED  BY <3>1, <3>2, <2>4, <2>2
  <2> QED  BY <2>5, <2>6
<1>2. TypeInv /\ TablesInv => TablesAreWhole
  BY <1>1 DEF TablesAreWhole
<1> QED  BY <1>2, TablesHold, PTL

(* A success has all tables of its file, but for those of SQLite whose     *)
(* names do not match, and all rows of each that are not empty, unless      *)
(* something about the table was logged; wherever passes break off, and    *)
(* whatever is run again (access.py:54-72, sqlite.py:25-50).               *)
THEOREM SuccessesHaveTables == Spec => []SuccessHasTables
<1>1. ASSUME TypeInv, TablesInv, NEW f \in Jobs, status[f] = "success", Kind[f] # "access",
             NEW n \in DOMAIN Sheets[f], ~LeftOut(f, Sheets[f][n])
      PROVE  \E x \in fragments :
                /\ x.kind = "table" /\ x.table = Sheets[f][n]
                /\ \/ <<f, x.table>> \in logged
                   \/ {x.rows[k] : k \in DOMAIN x.rows} =
                        {k \in DOMAIN Rows[x.table] : Rows[x.table][k] > 0}
  <2>1. Emitted(Sheets[f][n], fragments) /\ Told(f, Sheets[f][n])
    BY <1>1 DEF TablesInv, SuccessInv
  <2>2. PICK x \in fragments : x.kind = "table" /\ x.table = Sheets[f][n]
    BY <2>1 DEF Emitted
  <2>3. x.table \in Tables /\ x.rows = AllOf(x.table).csv
    BY <1>1, <2>2 DEF TypeInv, FragmentsTyped, FragmentTyped, IsFragment, TablesInv, FragmentsInv, Canonical
  <2>4. <<f, x.table>> \in logged \/ Whole(x.table)
    BY <1>1, <2>1, <2>2 DEF Told
  <2> QED  BY <2>2, <2>3, <2>4, RowsAre DEF Whole
<1>2. TypeInv /\ TablesInv => SuccessHasTables
  BY <1>1 DEF SuccessHasTables, LeftOut
<1> QED  BY <1>2, TablesHold, PTL
=============================================================================
