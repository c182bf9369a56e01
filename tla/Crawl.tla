------------------------------- MODULE Crawl -------------------------------
(***************************************************************************)
(* The crawl of a folder: `ingest_path` walks the tree, stores each file   *)
(* in the archive (one after the other, or ahead of time in a thread       *)
(* pool), records it under the crawl origin and queues its ingest job.     *)
(* Runs follow each other; one with `--resume` leaves out what the runs    *)
(* before it have recorded.                                                *)
(***************************************************************************)
EXTENDS Naturals, Sequences, FiniteSets, SequencesExt

CONSTANTS
    Files, Folders,  \* the entries of the tree
    Walk,            \* the order the walk reaches them in
    Irregular,       \* files that may be no regular file when they are stored:
                     \* broken links, sockets, files that vanish or come back
    ThreadCounts,    \* the values of INGESTORS_CRAWL_THREADS
    FlushSize,       \* lakehouse_flush_size
    MaxRuns,         \* bound on runs
    MaxFaults,       \* bound on exceptions of the archive or the database
    MaxCrashes,      \* bound on killed runs
    NoFile

ASSUME CrawlAssumption ==
    /\ IsFiniteSet(Files) /\ Files \intersect Folders = {}
    /\ Walk \in Seq(Files \union Folders) /\ IsInjective(Walk) /\ Files \subseteq ToSet(Walk)
    /\ Irregular \subseteq Files
    /\ ThreadCounts \subseteq Nat \ {0}
    /\ FlushSize \in Nat \ {0}
    /\ MaxRuns \in Nat /\ MaxFaults \in Nat /\ MaxCrashes \in Nat
    /\ NoFile \notin Files

VARIABLES
    recorded,   \* the files in the crawl export
    archive,    \* files whose bytes are in the archive
    missing,    \* files the run has found to be no regular file
    queued,     \* how often each file has been queued
    pc,         \* what the main thread is doing
    threads, skip, rest,  \* the run's threads, its files to leave out, the walk ahead
    pending,    \* files handed to the pool, in order
    storing,    \* files the pool has not stored yet, in order
    broken,     \* files whose store raised
    child,      \* the file the main thread deals with
    unwritten,  \* records put to the writer and not flushed
    count,      \* emitted_count, modulo the flush size
    mine,       \* files this run has queued
    complete,   \* the last run reached its end
    runs, failures, faults, crashes

stored == <<archive, missing>>
outcome == <<recorded, stored, queued>>
run == <<threads, skip>>
pool == <<pending, storing, broken>>
history == <<mine, complete, runs, failures>>
losses == <<faults, crashes>>
vars == <<outcome, pc, run, rest, pool, child, unwritten, count, history, losses>>

-----------------------------------------------------------------------------
(* The run *)

Start ==
    /\ pc = "off" /\ runs < MaxRuns
    /\ \E resume \in BOOLEAN : skip' = IF resume THEN recorded ELSE {}
    /\ threads' \in ThreadCounts
    /\ rest' = Walk
    /\ pending' = <<>> /\ storing' = <<>> /\ broken' = {}
    /\ unwritten' = {} /\ count' = 0
    /\ missing' = {} /\ mine' = {} /\ complete' = FALSE /\ runs' = runs + 1
    /\ pc' = "walk"
    /\ UNCHANGED <<recorded, archive, queued, child, failures, losses>>

(* CrawlManager.emit_entity: every FlushSize-th emission flushes. *)
Emit(records) ==
    /\ count' = (count + 1) % FlushSize
    /\ IF count' = 0
       THEN recorded' = recorded \union unwritten \union records /\ unwritten' = {}
       ELSE unwritten' = unwritten \union records /\ UNCHANGED recorded

(* drain(keep): what may stay in the pool before the walk goes on. *)
Keep == IF rest = <<>> THEN 0 ELSE 2 * threads
Drained == Len(pending) <= 2 * threads

Advance == rest' = Tail(rest)

WalkFolder ==
    /\ pc = "walk" /\ rest # <<>> /\ Drained /\ Head(rest) \in Folders
    /\ Advance
    /\ Emit({})
    /\ UNCHANGED <<stored, queued, pc, run, pool, child, history, losses>>

WalkSkipped ==
    /\ pc = "walk" /\ rest # <<>> /\ Drained /\ Head(rest) \in skip
    /\ Advance
    /\ UNCHANGED <<outcome, pc, run, pool, child, unwritten, count, history, losses>>

(* Manager.store answers a checksum, or None for what is no regular file at *)
(* that moment; the crawl takes either.                                    *)
Store(f) ==
    \/ archive' = archive \union {f} /\ UNCHANGED missing
    \/ f \in Irregular /\ missing' = missing \union {f} /\ UNCHANGED archive

(* threads < 2: the main thread stores the file itself. *)
StoreFile ==
    /\ pc = "walk" /\ rest # <<>> /\ threads < 2 /\ Head(rest) \in Files \ skip
    /\ Store(Head(rest))
    /\ child' = Head(rest)
    /\ pc' = "record"
    /\ Advance
    /\ UNCHANGED <<recorded, queued, run, pool, unwritten, count, history, losses>>

(* Mutant: the walk runs on without draining the pool. *)
SubmitFile_Undrained ==
    /\ pc = "walk" /\ rest # <<>> /\ threads >= 2 /\ Head(rest) \in Files \ skip
    /\ pending' = Append(pending, Head(rest))
    /\ storing' = Append(storing, Head(rest))
    /\ Advance
    /\ UNCHANGED <<outcome, pc, run, broken, child, unwritten, count, history, losses>>

(* Mutant: the file is recorded when the walk finds it. *)
SubmitFile_Recorded ==
    /\ pc = "walk" /\ rest # <<>> /\ threads >= 2 /\ Drained /\ Head(rest) \in Files \ skip
    /\ pending' = Append(pending, Head(rest))
    /\ storing' = Append(storing, Head(rest))
    /\ Emit({Head(rest)})
    /\ Advance
    /\ UNCHANGED <<stored, queued, pc, run, broken, child, history, losses>>

SubmitFile ==
    /\ pc = "walk" /\ rest # <<>> /\ threads >= 2 /\ Drained /\ Head(rest) \in Files \ skip
    /\ pending' = Append(pending, Head(rest))
    /\ storing' = Append(storing, Head(rest))
    /\ Advance
    /\ UNCHANGED <<outcome, pc, run, broken, child, unwritten, count, history, losses>>

(* Mutant: the newest file of the pool is queued first. *)
Take_Newest ==
    /\ pc = "walk" /\ Len(pending) > Keep
    /\ child' = Last(pending)
    /\ pending' = Front(pending)
    /\ pc' = "await"
    /\ UNCHANGED <<outcome, run, rest, storing, broken, unwritten, count, history, losses>>

(* drain: pop the oldest file and wait for its future. *)
Take ==
    /\ pc = "walk" /\ Len(pending) > Keep
    /\ child' = Head(pending)
    /\ pending' = Tail(pending)
    /\ pc' = "await"
    /\ UNCHANGED <<outcome, run, rest, storing, broken, unwritten, count, history, losses>>

(* Mutant: a store that raised never resolves. *)
Await_Hanging ==
    /\ pc = "await" /\ ~Contains(storing, child) /\ child \notin broken
    /\ pc' = "record"
    /\ UNCHANGED <<outcome, run, rest, pool, child, unwritten, count, history, losses>>

(* future.result(): the checksum, or the exception of the store. *)
Await ==
    /\ pc = "await" /\ ~Contains(storing, child)
    /\ pc' = IF child \in broken THEN "failing" ELSE "record"
    /\ UNCHANGED <<outcome, run, rest, pool, child, unwritten, count, history, losses>>

Record ==
    /\ pc = "record"
    /\ Emit({child})
    /\ pc' = "defer"
    /\ UNCHANGED <<stored, queued, run, rest, pool, child, history, losses>>

Defer ==
    /\ pc = "defer"
    /\ queued' = [queued EXCEPT ![child] = @ + 1]
    /\ mine' = mine \union {child}
    /\ child' = NoFile
    /\ pc' = "walk"
    /\ UNCHANGED <<recorded, stored, run, rest, pool, unwritten, count, complete, runs,
                   failures, losses>>

(* manager.close() *)
Flush ==
    /\ recorded' = recorded \union unwritten
    /\ unwritten' = {}
    /\ complete' = TRUE
    /\ pc' = "off"

(* Mutant: the pool is not drained at the end of the walk. *)
Close_Undrained ==
    /\ pc = "walk" /\ rest = <<>> /\ storing = <<>>
    /\ Flush
    /\ UNCHANGED <<stored, queued, run, rest, pool, child, count, mine, runs, failures,
                   losses>>

Close ==
    /\ pc = "walk" /\ rest = <<>> /\ pending = <<>>
    /\ Flush
    /\ UNCHANGED <<stored, queued, run, rest, pool, child, count, mine, runs, failures,
                   losses>>

-----------------------------------------------------------------------------
(* The pool *)

(* Where its threads are: at the oldest files. *)
InFlight == {i \in 1..Len(storing) : i <= threads}

PoolStore ==
    /\ \E i \in InFlight :
        /\ Store(storing[i])
        /\ storing' = RemoveAt(storing, i)
    /\ UNCHANGED <<recorded, queued, pc, run, rest, pending, broken, child, unwritten,
                   count, history, losses>>

PoolRaise ==
    /\ faults < MaxFaults /\ faults' = faults + 1
    /\ \E i \in InFlight :
        /\ broken' = broken \union {storing[i]}
        /\ storing' = RemoveAt(storing, i)
    /\ UNCHANGED <<outcome, pc, run, rest, pending, child, unwritten, count, history, crashes>>

-----------------------------------------------------------------------------
(* Failures *)

(* The file system under the walk raises, the archive on the main thread,  *)
(* or the database while queueing.                                         *)
Raise ==
    /\ faults < MaxFaults /\ faults' = faults + 1
    /\ \/ pc = "walk" /\ rest # <<>> /\ Drained
       \/ pc \in {"record", "defer"}
    /\ pc' = "failing"
    /\ UNCHANGED <<outcome, run, rest, pool, child, unwritten, count, history, crashes>>

(* Records that were not flushed survive or not: the journal is external. *)
Lose ==
    /\ \E kept \in SUBSET unwritten : recorded' = recorded \union kept
    /\ unwritten' = {}
    /\ rest' = <<>> /\ pending' = <<>> /\ storing' = <<>>
    /\ child' = NoFile
    /\ failures' = failures + 1
    /\ pc' = "off"

(* The exception leaves ingest_path, past manager.close(), once the pool   *)
(* has stored what was submitted.                                          *)
Fail ==
    /\ pc = "failing" /\ storing = <<>>
    /\ Lose
    /\ UNCHANGED <<stored, queued, run, broken, count, mine, complete, runs, losses>>

Crash ==
    /\ pc # "off" /\ crashes < MaxCrashes
    /\ crashes' = crashes + 1
    /\ Lose
    /\ UNCHANGED <<stored, queued, run, broken, count, mine, complete, runs, faults>>

Main ==
    \/ WalkFolder \/ WalkSkipped \/ StoreFile \/ SubmitFile
    \/ Take \/ Await \/ Record \/ Defer \/ Close \/ Fail

Init ==
    /\ recorded = {} /\ archive = {} /\ missing = {} /\ queued = [f \in Files |-> 0]
    /\ pc = "off"
    /\ threads \in ThreadCounts /\ skip = {} /\ rest = <<>>
    /\ pending = <<>> /\ storing = <<>> /\ broken = {}
    /\ child = NoFile /\ unwritten = {} /\ count = 0
    /\ mine = {} /\ complete = FALSE /\ runs = 0 /\ failures = 0 /\ faults = 0 /\ crashes = 0

Next ==
    \/ Start \/ Main \/ PoolStore \/ PoolRaise \/ Raise \/ Crash
    \/ pc = "off" /\ runs = MaxRuns /\ UNCHANGED vars

Spec == Init /\ [][Next]_vars
FairSpec == Spec /\ WF_vars(Main) /\ WF_vars(PoolStore)

-----------------------------------------------------------------------------
(* Properties *)

Steps == {"off", "walk", "await", "record", "defer", "failing"}

(* The crawl keeps at most two files per thread in the pool, and one that  *)
(* it is about to drain (directory.py:107-112).                            *)
TypeOK ==
    /\ recorded \subseteq Files /\ archive \subseteq Files /\ missing \subseteq Irregular
    /\ queued \in [Files -> 0..MaxRuns]
    /\ pc \in Steps
    /\ threads \in ThreadCounts /\ skip \subseteq Files
    /\ rest \in Seq(Files \union Folders)
    /\ pending \in Seq(Files) /\ Len(pending) <= 2 * threads + 1
    /\ storing \in Seq(Files) /\ broken \subseteq Files
    /\ child \in Files \union {NoFile}
    /\ unwritten \subseteq Files /\ count \in 0..(FlushSize - 1)
    /\ mine \subseteq Files /\ complete \in BOOLEAN
    /\ runs \in 0..MaxRuns /\ failures \in 0..MaxRuns
    /\ faults \in 0..MaxFaults /\ crashes \in 0..MaxCrashes

(* What this run has still to queue; nothing once it has failed. *)
Ahead ==
    IF pc \in {"off", "failing"} THEN {}
    ELSE Files \intersect ({child} \union ToSet(pending) \union (ToSet(rest) \ skip))

Promise == INSTANCE CrawlPromise WITH ahead <- Ahead

(* Stored ahead of time in a pool or one after the other, files are queued  *)
(* in the order of the walk, each after its bytes are in the archive or     *)
(* after this run has found no regular file under its name, which is queued *)
(* without a checksum (directory.py:98-113, manager.py:219-223).            *)
KeepsPromise == Promise!Spec

(* A run that reaches its end has queued every file it did not leave out    *)
(* (directory.py:112, tasks.py:170).                                        *)
EndsComplete == complete => mine \union skip = Files

(* A run that fails may record one file that is not queued, and no more:   *)
(* a file is recorded right before it is queued (directory.py:77-81).      *)
LossIsBounded ==
    Cardinality({f \in recorded \union unwritten : queued[f] = 0})
        <= failures + (IF pc \in {"defer", "failing"} THEN 1 ELSE 0)

(* Every run ends, and waits for nothing when a store raises              *)
(* (directory.py:105).                                                    *)
RunsEnd == pc # "off" ~> pc = "off"

(* After a run that reached its end every file has been queued: a resumed   *)
(* run skips only the files a previous one has dealt with (usage.md:26).    *)
ResumeCompletes == complete => \A f \in Files : queued[f] > 0

=============================================================================
