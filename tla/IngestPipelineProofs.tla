------------------------ MODULE IngestPipelineProofs ------------------------
(***************************************************************************)
(* What the runs of MCIngestPipeline show on a small instance, proved for  *)
(* all files, uploads, workers and bounds: first what batches and their    *)
(* jobs promise, then what the store, the archive and the next stages hold *)
(* of a file.  For the store six invariants are inductive together with    *)
(* the types: how far each worker has got with what it emits, and what     *)
(* follows from that for members, for opt-outs and for files that failed.  *)
(* Last, that the pipeline implements BatchPromise.                        *)
(***************************************************************************)
EXTENDS IngestPipeline, TLAPS

USE PipelineAssumption, NoJobAssumption

-----------------------------------------------------------------------------
(* Bags of jobs *)

(* Deferring a job keeps the table a bag and adds only that job to it. *)
LEMMA BagAddJob ==
    ASSUME NEW B, NEW x, IsABag(B)
    PROVE  /\ IsABag(BagAdd(B, x))
           /\ BagToSet(BagAdd(B, x)) = BagToSet(B) \union {x}
BY DEF IsABag, BagToSet, BagAdd

(* Fetching a job keeps the table a bag and takes at most that job from it. *)
LEMMA BagRemoveJob ==
    ASSUME NEW B, NEW x, IsABag(B)
    PROVE  /\ IsABag(BagRemove(B, x))
           /\ BagToSet(BagRemove(B, x)) \subseteq BagToSet(B)
           /\ BagToSet(B) \subseteq BagToSet(BagRemove(B, x)) \union {x}
BY DEF IsABag, BagToSet, BagRemove

(* The empty table is a bag without jobs. *)
LEMMA NoJobs == IsABag(EmptyBag) /\ BagToSet(EmptyBag) = {}
BY DEF IsABag, BagToSet, EmptyBag, SetToBag

(* A job that is deferred for the first time is a job. *)
LEMMA NewJobType ==
    ASSUME NEW op \in {"ingest"} \union Stages, NEW d \in Docs,
           NEW p \in Docs \union {NoParent}, NEW b \in Batches, NEW c \in Contexts
    PROVE  NewJob(op, d, p, b, c) \in Job
BY DEF NewJob, Job

-----------------------------------------------------------------------------
(* Type correctness *)

(* A flush of well typed writes leaves the store well typed. *)
LEMMA FlushType ==
    ASSUME TypeOK, NEW writes \in SUBSET Writes, Flush(writes)
    PROVE  /\ status' \in [Entities -> {"absent", "emitted", "success", "failure"}]
           /\ placed' \subseteq Entities \X Docs
<1>1. \A e \in Entities : (\E x \in writes : x.entity = e) =>
          (CHOOSE x \in writes : x.entity = e) \in writes
  OBVIOUS
<1>2. \A x \in writes : x.status \in {"emitted", "success", "failure"}
  BY DEF Writes
<1>3. status' \in [Entities -> {"absent", "emitted", "success", "failure"}]
  BY <1>1, <1>2 DEF Flush, Own, TypeOK
<1>4. placed' \subseteq Entities \X Docs
  BY DEF Flush, Placements, Writes, TypeOK
<1> QED BY <1>3, <1>4

(* A put to the writer of a worker keeps the types. *)
LEMMA WriteType ==
    ASSUME TypeOK, NEW w \in Workers, NEW x \in Writes, Write(w, x)
    PROVE  /\ buffer' \in [Workers -> SUBSET Writes]
           /\ status' \in [Entities -> {"absent", "emitted", "success", "failure"}]
           /\ placed' \subseteq Entities \X Docs
<1>1. buffer[w] \union {x} \in SUBSET Writes
  BY DEF TypeOK
<1> QED BY <1>1, FlushType DEF Write, TypeOK, store

(* Discarding a manager leaves the state of its worker well typed. *)
LEMMA DiscardType ==
    ASSUME TypeOK, NEW w \in Workers, Discard(w)
    PROVE  /\ pc' \in [Workers -> Steps]
           /\ job' \in [Workers -> Job \union {NoJob}]
           /\ left' \in [Workers -> SUBSET Entities]
           /\ member' \in [Workers -> Docs \union {NoParent}]
           /\ buffer' \in [Workers -> SUBSET Writes]
           /\ emitted' \in [Workers -> SUBSET Entities]
BY DEF Discard, TypeOK, Steps

(* A worker that is not idle runs an ingest job, and what its ingestor has *)
(* left to deal with, or queues next, is found inside the file of the job. *)
BusyHasJob ==
    \A w \in Workers :
        /\ pc[w] # "idle" => job[w] \in Job /\ job[w].op = "ingest"
        /\ pc[w] \in {"ingest", "queue"} => left[w] \subseteq Contents[job[w].doc]
        /\ pc[w] = "queue" => member[w] \in Members(job[w].doc)

(* A finalize of a worker's job leaves its writer and the store well typed. *)
LEMMA FinalizeType ==
    ASSUME TypeOK, NEW w \in Workers, job[w] \in Job,
           NEW st \in {"success", "failure"}, Finalize(w, st)
    PROVE  /\ status' \in [Entities -> {"absent", "emitted", "success", "failure"}]
           /\ placed' \subseteq Entities \X Docs
           /\ buffer' \in [Workers -> SUBSET Writes]
           /\ emitted' \in [Workers -> SUBSET Entities]
<1>1. Put(job[w].doc, st, job[w].parent) \in Writes
  BY DEF Put, Writes, Job, Entities
<1>2. buffer[w] \union {Put(job[w].doc, st, job[w].parent)} \in SUBSET Writes
  BY <1>1 DEF TypeOK
<1>3. /\ status' \in [Entities -> {"absent", "emitted", "success", "failure"}]
      /\ placed' \subseteq Entities \X Docs
  BY <1>2, FlushType DEF Finalize
<1>4. job[w].doc \in Entities
  BY DEF Job, Entities
<1>5. /\ buffer' \in [Workers -> SUBSET Writes]
      /\ emitted' \in [Workers -> SUBSET Entities]
  BY <1>4 DEF Finalize, TypeOK
<1> QED BY <1>3, <1>5

(* The pipeline starts well typed. *)
LEMMA InitType == Init => TypeOK /\ BusyHasJob
BY NoJobs DEF Init, TypeOK, BusyHasJob, Steps

(* Every step of a client keeps the types. *)
LEMMA UploadKeepsType ==
    ASSUME TypeOK, BusyHasJob, NEW u \in Uploads, Upload(u) \/ UploadFail(u)
    PROVE  TypeOK' /\ BusyHasJob'
<1> USE DEF TypeOK, BusyHasJob, clients, rows, store, worker, losses
<1>0. u \in UploadType
  OBVIOUS
<1>1. CASE UploadStore(u)
  BY <1>0, <1>1 DEF UploadStore, UploadType
<1>2. CASE UploadQueue(u)
  <2>1. NewJob("ingest", u.doc, NoParent, u.batch, u.context) \in Job
    BY <1>0, NewJobType DEF UploadType
  <2>2. IsABag(todo') /\ BagToSet(todo') \subseteq Job
    BY <1>2, <2>1, BagAddJob DEF UploadQueue
  <2> QED BY <1>2, <2>2 DEF UploadQueue
<1>3. CASE UploadClose(u)
  BY <1>0, <1>3 DEF UploadClose, UploadType
<1>4. CASE UploadFail(u)
  BY <1>4 DEF UploadFail, Fault
<1> QED BY <1>1, <1>2, <1>3, <1>4 DEF Upload

(* Every step in which a worker fetches a job and deals with the contents *)
(* of its file keeps the types.                                           *)
LEMMA IngestKeepsType ==
    ASSUME TypeOK, BusyHasJob, NEW w \in Workers,
           \/ Fetch(w) \/ Load(w) \/ EmitPart(w) \/ StoreMember(w) \/ QueueMember(w)
    PROVE  TypeOK' /\ BusyHasJob'
<1> USE DEF TypeOK, BusyHasJob, clients, rows, store, worker, losses, Goto, Steps
<1>1. CASE Fetch(w)
  <2>1. PICK j \in BagToSet(todo) :
            /\ j.op = "ingest"
            /\ todo' = BagRemove(todo, j)
            /\ job' = [job EXCEPT ![w] = j]
    BY <1>1 DEF Fetch
  <2>2. IsABag(todo') /\ BagToSet(todo') \subseteq Job
    BY <2>1, BagRemoveJob
  <2>3. j \in Job
    BY <2>1
  <2>4. BusyHasJob'
    BY <1>1, <2>1, <2>3 DEF Fetch
  <2> QED BY <1>1, <2>1, <2>2, <2>3, <2>4 DEF Fetch
<1>2. CASE Load(w)
  <2>1. Contents[job[w].doc] \in SUBSET Entities
    BY <1>2 DEF Load, Job
  <2> QED BY <1>2, <2>1 DEF Load
<1>3. CASE EmitPart(w)
  <2>1. PICK e \in left[w] \intersect Parts :
            /\ left' = [left EXCEPT ![w] = @ \ {e}]
            /\ Write(w, Put(e, "emitted", NoParent))
            /\ emitted' = [emitted EXCEPT ![w] = @ \union {e}]
    BY <1>3 DEF EmitPart
  <2>2. Put(e, "emitted", NoParent) \in Writes /\ e \in Entities
    BY <2>1 DEF Put, Writes, Entities
  <2>3. /\ buffer' \in [Workers -> SUBSET Writes]
        /\ status' \in [Entities -> {"absent", "emitted", "success", "failure"}]
        /\ placed' \subseteq Entities \X Docs
    BY <2>1, <2>2, WriteType
  <2>4. /\ left' \in [Workers -> SUBSET Entities] /\ emitted' \in [Workers -> SUBSET Entities]
        /\ \A v \in Workers : left'[v] \subseteq left[v]
    BY <2>1, <2>2
  <2>5. UNCHANGED <<clients, archive, rows, pc, job, member, losses>>
    BY <1>3 DEF EmitPart
  <2>6. BusyHasJob'
    BY <2>4, <2>5
  <2> QED BY <2>3, <2>4, <2>5, <2>6
<1>4. CASE StoreMember(w)
  BY <1>4 DEF StoreMember, Members
<1>5. CASE QueueMember(w)
  <2>1. ChildJob(job[w], member[w]) \in Job
    BY <1>5, NewJobType DEF QueueMember, ChildJob, Job, Members
  <2>2. IsABag(todo') /\ BagToSet(todo') \subseteq Job
    BY <1>5, <2>1, BagAddJob DEF QueueMember
  <2> QED BY <1>5, <2>2 DEF QueueMember
<1> QED BY <1>1, <1>2, <1>3, <1>4, <1>5

(* Every step that ends the run of an ingestor keeps the types. *)
LEMMA OutcomeKeepsType ==
    ASSUME TypeOK, BusyHasJob, NEW w \in Workers,
           \/ IngestSucceed(w) \/ IngestReject(w) \/ IngestSkip(w) \/ IngestRaise(w)
           \/ TaskRaise(w) \/ Close(w)
    PROVE  TypeOK' /\ BusyHasJob'
<1> USE DEF TypeOK, BusyHasJob, clients, rows, store, worker, losses, Goto, Steps
<1>1. CASE IngestSucceed(w)
  BY <1>1, FinalizeType DEF IngestSucceed
<1>2. CASE IngestReject(w)
  BY <1>2, FinalizeType DEF IngestReject
<1>3. CASE IngestRaise(w)
  BY <1>3, FinalizeType DEF IngestRaise, Raises, Fault
<1>4. CASE TaskRaise(w)
  BY <1>4 DEF TaskRaise, Fault
<1>5. CASE Close(w)
  BY <1>5, FlushType DEF Close
<1>6. CASE IngestSkip(w)
  BY <1>6 DEF IngestSkip, Fault
<1> QED BY <1>1, <1>2, <1>3, <1>4, <1>5, <1>6

(* Every step after the manager of a job was closed keeps the types. *)
LEMMA EndKeepsType ==
    ASSUME TypeOK, BusyHasJob, NEW w \in Workers,
           \/ DeferAnalyze(w) \/ DeferIndex(w) \/ Finish(w) \/ Retry(w) \/ Crash(w)
    PROVE  TypeOK' /\ BusyHasJob'
<1> USE DEF TypeOK, BusyHasJob, clients, rows, store, worker, losses, Goto, Steps
<1>1. CASE DeferAnalyze(w) \/ DeferIndex(w)
  <2>1. \A op \in Stages : StageJob(job[w], op) \in Job
    BY <1>1, NewJobType DEF DeferAnalyze, DeferIndex, StageJob, Job
  <2>2. \A op \in Stages, S \in SUBSET Entities : Defer(w, op, S) =>
            /\ IsABag(todo') /\ BagToSet(todo') \subseteq Job
            /\ deferred' \subseteq Stages \X Entities \X Batches
    <3> SUFFICES ASSUME NEW op \in Stages, NEW S \in SUBSET Entities, Defer(w, op, S)
                 PROVE  /\ IsABag(todo') /\ BagToSet(todo') \subseteq Job
                        /\ deferred' \subseteq Stages \X Entities \X Batches
      OBVIOUS
    <3>1. IsABag(todo') /\ BagToSet(todo') \subseteq Job
      BY <2>1, BagAddJob DEF Defer
    <3>2. job[w].batch \in Batches
      BY <1>1 DEF DeferAnalyze, DeferIndex, Job
    <3> QED BY <3>1, <3>2 DEF Defer
  <2>3. ToAnalyze(w) \in SUBSET Entities /\ emitted[w] \in SUBSET Entities
    BY DEF ToAnalyze
  <2>4. /\ IsABag(todo') /\ BagToSet(todo') \subseteq Job
        /\ deferred' \subseteq Stages \X Entities \X Batches
    BY <1>1, <2>2, <2>3 DEF DeferAnalyze, DeferIndex, Stages
  <2> QED BY <1>1, <2>4 DEF DeferAnalyze, DeferIndex
<1>2. CASE Finish(w)
  BY <1>2, DiscardType DEF Finish, Discard
<1>3. CASE Retry(w)
  <2>1. job[w] \in Job
    BY <1>3 DEF Retry
  <2>2. job[w].attempt < Retries => [job[w] EXCEPT !.attempt = @ + 1] \in Job
    BY <2>1 DEF Job
  <2>3. IsABag(todo') /\ BagToSet(todo') \subseteq Job /\ failed' \subseteq Job
    BY <1>3, <2>1, <2>2, BagAddJob DEF Retry
  <2> QED BY <1>3, <2>3, DiscardType DEF Retry, Discard
<1>4. CASE Crash(w)
  BY <1>4, DiscardType DEF Crash, Discard
<1> QED BY <1>1, <1>2, <1>3, <1>4

(* Every step keeps the types. *)
LEMMA NextType == TypeOK /\ BusyHasJob /\ [Next]_vars => TypeOK' /\ BusyHasJob'
<1> SUFFICES ASSUME TypeOK, BusyHasJob, [Next]_vars
             PROVE  TypeOK' /\ BusyHasJob'
  OBVIOUS
<1>1. CASE UNCHANGED vars
  BY <1>1 DEF TypeOK, BusyHasJob, vars, clients, rows, store, worker, losses
<1>2. CASE RunStage
  <2>1. IsABag(todo') /\ BagToSet(todo') \subseteq Job
    BY <1>2, BagRemoveJob DEF RunStage, TypeOK
  <2> QED
    BY <1>2, <2>1 DEF RunStage, TypeOK, BusyHasJob, clients, store, worker, losses
<1>3. CASE Next
  BY <1>1, <1>2, <1>3, UploadKeepsType, IngestKeepsType, OutcomeKeepsType, EndKeepsType
     DEF Next, Step
<1> QED BY <1>1, <1>3

(* The variables keep their types, and the attempts of a job never exceed *)
(* the configured retries (tasks.py:49).                                  *)
THEOREM TypeCorrect == Spec => [](TypeOK /\ BusyHasJob)
BY InitType, NextType, PTL DEF Spec

-----------------------------------------------------------------------------
(* A done batch stays done *)

(* A job that is new to the table is of the batch of a job it held before, *)
(* or of an upload that was still going on.                                *)
LEMMA BatchesOfNewJobs ==
    ASSUME TypeOK, BusyHasJob, [Next]_vars, NEW j \in Unfinished'
    PROVE  \/ \E i \in Unfinished : i.batch = j.batch
           \/ \E u \in Uploads : u.batch = j.batch /\ up[u] \in {"new", "stored"}
<1> USE DEF Unfinished, Running, TypeOK, BusyHasJob, Goto, Steps
<1>1. CASE UNCHANGED vars
  BY <1>1 DEF vars, rows, worker
<1>2. CASE \E u \in Uploads : Upload(u) \/ UploadFail(u)
  <2>1. PICK u \in Uploads : Upload(u) \/ UploadFail(u)
    BY <1>2
  <2>2. CASE UploadQueue(u)
    BY <2>2, BagAddJob DEF UploadQueue, worker, NewJob
  <2>3. CASE ~UploadQueue(u)
    BY <2>1, <2>3 DEF Upload, UploadStore, UploadClose, UploadFail, rows, worker
  <2> QED BY <2>2, <2>3
<1>3. CASE RunStage
  BY <1>3, BagRemoveJob DEF RunStage, worker
<1>4. ASSUME NEW w \in Workers, Step(w) \/ IngestSkip(w) \/ IngestRaise(w) \/ TaskRaise(w) \/ Crash(w)
      PROVE  \E i \in Unfinished : i.batch = j.batch
  <2>1. CASE Fetch(w)
    <3>1. PICK k \in BagToSet(todo) :
              todo' = BagRemove(todo, k) /\ job' = [job EXCEPT ![w] = k]
      BY <2>1 DEF Fetch
    <3>2. BagToSet(todo') \subseteq BagToSet(todo)
      BY <3>1, BagRemoveJob
    <3> QED BY <2>1, <3>1, <3>2 DEF Fetch
  <2>2. CASE Load(w) \/ EmitPart(w) \/ StoreMember(w) \/ IngestSucceed(w)
             \/ IngestReject(w) \/ IngestSkip(w) \/ IngestRaise(w) \/ TaskRaise(w) \/ Close(w)
    BY <2>2 DEF Load, EmitPart, StoreMember, IngestSucceed, IngestReject, IngestSkip,
                IngestRaise, Raises, TaskRaise, Close, rows
  <2>3. CASE QueueMember(w)
    <3>1. ChildJob(job[w], member[w]).batch = job[w].batch
      BY DEF ChildJob, NewJob
    <3> QED BY <2>3, <3>1, BagAddJob DEF QueueMember
  <2>4. CASE DeferAnalyze(w) \/ DeferIndex(w)
    <3>1. \A op \in Stages : StageJob(job[w], op).batch = job[w].batch
      BY DEF StageJob, NewJob
    <3> QED BY <2>4, <3>1, BagAddJob DEF DeferAnalyze, DeferIndex, Defer, Stages
  <2>5. CASE Finish(w) \/ Crash(w)
    BY <2>5 DEF Finish, Crash, Discard
  <2>6. CASE Retry(w)
    <3>1. job[w] \in Job /\ w \in Running
      BY <2>6 DEF Retry
    <3> DEFINE again == [job[w] EXCEPT !.attempt = @ + 1]
    <3>2. again.batch = job[w].batch
      BY <3>1 DEF Job
    <3>3. todo' = todo \/ todo' = BagAdd(todo, again)
      BY <2>6 DEF Retry
    <3> HIDE DEF again
    <3>4. \A k \in BagToSet(todo') : k \in BagToSet(todo) \/ k.batch = job[w].batch
      BY <3>2, <3>3, BagAddJob
    <3> QED BY <2>6, <3>1, <3>4 DEF Retry, Discard
  <2> QED BY <1>4, <2>1, <2>2, <2>3, <2>4, <2>5, <2>6 DEF Step
<1> QED BY <1>1, <1>2, <1>3, <1>4 DEF Next

(* A batch that reports done stays done once its uploads are over: a job   *)
(* defers its children and its stages, in its batch, before it ends        *)
(* (api.py:78).                                                            *)
THEOREM DoneStable == Spec => DoneIsStable
<1>1. TypeOK /\ BusyHasJob /\ [Next]_vars =>
          [\A b \in Batches : BatchDone(b) /\ UploadsOver(b) => BatchDone(b)']_vars
  <2> SUFFICES ASSUME TypeOK, BusyHasJob, [Next]_vars, NEW b \in Batches,
                      BatchDone(b), UploadsOver(b)
               PROVE  BatchDone(b)'
    OBVIOUS
  <2> QED BY BatchesOfNewJobs DEF BatchDone, UploadsOver
<1> QED BY <1>1, TypeCorrect, PTL DEF Spec, DoneIsStable

-----------------------------------------------------------------------------
(* A done batch is complete *)

(* All ingest jobs, ended or not, and what they are about. *)
Held == {j \in Unfinished \union succeeded \union failed : j.op = "ingest"}
Accounts == {<<j.doc, j.parent, j.batch>> : j \in Held}

(* The file of an upload that was queued has its job. *)
UploadsAccounted ==
    \A u \in Uploads : up[u] \in {"queued", "returned"} =>
        <<u.doc, NoParent, u.batch>> \in Accounts

(* Files that may be handed over and leave a member behind. *)
Partial == Fragile \union Lenient

(* What a worker's ingestor has dealt with has its job, but for the member *)
(* that is queued next; all of it has once the file itself was emitted     *)
(* without the ingestor having rejected it.                                *)
WorkerAccounted(w) ==
    /\ pc[w] \in {"idle", "load", "ingest", "queue"} => emitted[w] \subseteq Parts
    /\ pc[w] \in {"close", "analyze", "index"} =>
        emitted[w] \subseteq Parts \union {job[w].doc}
    /\ pc[w] \in {"ingest", "queue"} /\ job[w].doc \notin Partial =>
        \A c \in Members(job[w].doc) \ left[w] :
            \/ pc[w] = "queue" /\ c = member[w]
            \/ <<c, job[w].doc, job[w].batch>> \in Accounts
    /\ pc[w] \in {"close", "analyze", "index"} /\ job[w].doc \in emitted[w] \ Partial =>
        \A c \in Members(job[w].doc) : <<c, job[w].doc, job[w].batch>> \in Accounts

(* The members of a file that was handed over to index have their jobs. *)
IndexedAccounted ==
    \A d \in Docs \ Partial, b \in Batches : <<"index", d, b>> \in deferred =>
        \A c \in Members(d) : <<c, d, b>> \in Accounts

(* What follows from an ingest job is in the table before the job ends. *)
MembersAccounted ==
    /\ UploadsAccounted
    /\ \A w \in Workers : WorkerAccounted(w)
    /\ IndexedAccounted

(* An ingest job stays in the table, as itself or as the attempt after it. *)
LEMMA AccountsKept ==
    ASSUME TypeOK, BusyHasJob, [Next]_vars
    PROVE  Accounts \subseteq Accounts'
<1> SUFFICES ASSUME NEW j \in Held
             PROVE  \E i \in Held' : i.doc = j.doc /\ i.parent = j.parent /\ i.batch = j.batch
  BY DEF Accounts
<1> USE DEF Held, Unfinished, Running, TypeOK, BusyHasJob, Goto, Steps
<1>1. CASE UNCHANGED vars
  BY <1>1 DEF vars, rows, worker
<1>2. CASE \E u \in Uploads : Upload(u) \/ UploadFail(u)
  <2>1. PICK u \in Uploads : Upload(u) \/ UploadFail(u)
    BY <1>2
  <2>2. CASE UploadQueue(u)
    BY <2>2, BagAddJob DEF UploadQueue, worker
  <2>3. CASE ~UploadQueue(u)
    BY <2>1, <2>3 DEF Upload, UploadStore, UploadClose, UploadFail, rows, worker
  <2> QED BY <2>2, <2>3
<1>3. CASE RunStage
  <2>1. PICK k \in BagToSet(todo) : k.op \in Stages /\ todo' = BagRemove(todo, k)
    BY <1>3 DEF RunStage
  <2>2. j # k
    BY <2>1 DEF Stages
  <2>3. j \in BagToSet(todo) => j \in BagToSet(todo')
    BY <2>1, <2>2, BagRemoveJob
  <2> QED BY <1>3, <2>3 DEF RunStage, worker
<1>4. ASSUME NEW w \in Workers, Step(w) \/ IngestSkip(w) \/ IngestRaise(w) \/ TaskRaise(w) \/ Crash(w)
      PROVE  \E i \in Held' : i.doc = j.doc /\ i.parent = j.parent /\ i.batch = j.batch
  <2>1. CASE Fetch(w)
    <3>1. PICK k \in BagToSet(todo) :
              todo' = BagRemove(todo, k) /\ job' = [job EXCEPT ![w] = k]
      BY <2>1 DEF Fetch
    <3>2. BagToSet(todo) \subseteq BagToSet(todo') \union {k}
      BY <3>1, BagRemoveJob
    <3> QED BY <2>1, <3>1, <3>2 DEF Fetch
  <2>2. CASE Load(w) \/ EmitPart(w) \/ StoreMember(w) \/ IngestSucceed(w)
             \/ IngestReject(w) \/ IngestSkip(w) \/ IngestRaise(w) \/ TaskRaise(w) \/ Close(w)
    BY <2>2 DEF Load, EmitPart, StoreMember, IngestSucceed, IngestReject, IngestSkip,
                IngestRaise, Raises, TaskRaise, Close, rows
  <2>3. CASE QueueMember(w)
    BY <2>3, BagAddJob DEF QueueMember
  <2>4. CASE DeferAnalyze(w) \/ DeferIndex(w)
    BY <2>4, BagAddJob DEF DeferAnalyze, DeferIndex, Defer
  <2>5. CASE Finish(w) \/ Crash(w)
    BY <2>5 DEF Finish, Crash, Discard
  <2>6. CASE Retry(w)
    <3>1. job[w] \in Job /\ w \in Running
      BY <2>6 DEF Retry
    <3> DEFINE again == [job[w] EXCEPT !.attempt = @ + 1]
    <3>2. /\ again.batch = job[w].batch /\ again.doc = job[w].doc
          /\ again.parent = job[w].parent /\ again.op = job[w].op
      BY <3>1 DEF Job
    <3>3. \/ todo' = BagAdd(todo, again) /\ failed' = failed
          \/ todo' = todo /\ failed' = failed \union {job[w]}
      BY <2>6 DEF Retry
    <3> HIDE DEF again
    <3>4. \/ BagToSet(todo') = BagToSet(todo) \union {again} /\ failed' = failed
          \/ todo' = todo /\ failed' = failed \union {job[w]}
      BY <3>3, BagAddJob
    <3> QED BY <2>6, <3>1, <3>2, <3>4 DEF Retry, Discard
  <2> QED BY <1>4, <2>1, <2>2, <2>3, <2>4, <2>5, <2>6 DEF Step
<1> QED BY <1>1, <1>2, <1>3, <1>4 DEF Next

(* Deferring an ingest job accounts for its file. *)
LEMMA DeferredAccounted ==
    ASSUME TypeOK, NEW d \in Docs, NEW p, NEW b, NEW c,
           todo' = BagAdd(todo, NewJob("ingest", d, p, b, c))
    PROVE  <<d, p, b>> \in Accounts'
BY BagAddJob DEF TypeOK, Accounts, Held, Unfinished, NewJob

(* A step of another worker leaves what a worker accounts for. *)
LEMMA OthersAccounted ==
    ASSUME NEW w, WorkerAccounted(w), Accounts \subseteq Accounts',
           pc'[w] = pc[w], job'[w] = job[w], left'[w] = left[w],
           member'[w] = member[w], emitted'[w] = emitted[w]
    PROVE  WorkerAccounted(w)'
BY DEF WorkerAccounted

(* A step that reports no upload queued keeps the uploads accounted for. *)
LEMMA UploadsStayAccounted ==
    ASSUME UploadsAccounted, Accounts \subseteq Accounts', up' = up
    PROVE  UploadsAccounted'
BY DEF UploadsAccounted

(* A step that hands nothing over keeps what is indexed accounted for. *)
LEMMA IndexedStaysAccounted ==
    ASSUME IndexedAccounted, Accounts \subseteq Accounts', deferred' = deferred
    PROVE  IndexedAccounted'
BY DEF IndexedAccounted

(* The jobs of a client step: an upload is accounted for when it is queued. *)
LEMMA UploadKeepsAccounts ==
    ASSUME TypeOK, BusyHasJob, MembersAccounted, Accounts \subseteq Accounts',
           NEW u \in Uploads, Upload(u) \/ UploadFail(u)
    PROVE  MembersAccounted'
<1>1. u \in UploadType
  OBVIOUS
<1>2. UNCHANGED worker /\ UNCHANGED deferred
  BY DEF Upload, UploadStore, UploadQueue, UploadClose, UploadFail, rows
<1>3. \A w \in Workers : WorkerAccounted(w)'
  BY <1>2, OthersAccounted DEF MembersAccounted, worker
<1>4. IndexedAccounted'
  BY <1>2, IndexedStaysAccounted DEF MembersAccounted
<1>5. UploadsAccounted'
  <2>1. CASE UploadQueue(u)
    <3>1. <<u.doc, NoParent, u.batch>> \in Accounts'
      BY <1>1, <2>1, DeferredAccounted DEF UploadQueue, UploadType
    <3> QED BY <2>1, <3>1 DEF MembersAccounted, UploadsAccounted, UploadQueue, TypeOK
  <2>2. CASE UploadStore(u) \/ UploadClose(u) \/ UploadFail(u)
    BY <2>2 DEF UploadStore, UploadClose, UploadFail, MembersAccounted, UploadsAccounted, TypeOK
  <2> QED BY <2>1, <2>2 DEF Upload
<1> QED BY <1>3, <1>4, <1>5 DEF MembersAccounted

(* A step of a worker keeps what the worker itself accounts for. *)
LEMMA StepKeepsAccounts ==
    ASSUME TypeOK, BusyHasJob, Accounts \subseteq Accounts', NEW w \in Workers,
           WorkerAccounted(w),
           Step(w) \/ IngestSkip(w) \/ IngestRaise(w) \/ TaskRaise(w) \/ Crash(w)
    PROVE  WorkerAccounted(w)'
<1> USE DEF TypeOK, BusyHasJob, WorkerAccounted, Goto, Steps
<1>1. CASE Fetch(w)
  BY <1>1 DEF Fetch
<1>2. CASE Load(w)
  <2>1. job[w].doc \in Docs /\ emitted[w] \subseteq Parts /\ pc[w] = "load"
    BY <1>2 DEF Load, Job
  <2>2. CASE pc' = [pc EXCEPT ![w] = "ingest"] /\ left' = [left EXCEPT ![w] = Contents[job[w].doc]]
    <3>1. Members(job[w].doc) \ left'[w] = {}
      BY <2>2 DEF Members
    <3> QED BY <1>2, <2>1, <2>2, <3>1 DEF Load
  <2>3. CASE pc' = [pc EXCEPT ![w] = "close"]
    BY <1>2, <2>1, <2>3 DEF Load
  <2> QED BY <1>2, <2>2, <2>3 DEF Load
<1>3. CASE EmitPart(w)
  BY <1>3 DEF EmitPart, Members
<1>4. CASE StoreMember(w)
  BY <1>4 DEF StoreMember
<1>5. CASE QueueMember(w)
  <2>1. <<member[w], job[w].doc, job[w].batch>> \in Accounts'
    BY <1>5, DeferredAccounted DEF QueueMember, ChildJob, Members
  <2> QED BY <1>5, <2>1 DEF QueueMember
<1>6. CASE IngestSucceed(w)
  BY <1>6 DEF IngestSucceed, Finalize
<1>7. CASE IngestReject(w)
  BY <1>7 DEF IngestReject, Finalize, Partial
<1>8. CASE IngestRaise(w) \/ TaskRaise(w)
  BY <1>8 DEF IngestRaise, TaskRaise, Raises
<1>9. CASE Close(w)
  BY <1>9 DEF Close
<1>10. CASE DeferAnalyze(w) \/ DeferIndex(w)
  BY <1>10 DEF DeferAnalyze, DeferIndex
<1>11. CASE Finish(w) \/ Retry(w) \/ Crash(w)
  BY <1>11 DEF Finish, Retry, Crash, Discard
<1>12. CASE IngestSkip(w)
  BY <1>12 DEF IngestSkip, Partial
<1> QED
  BY <1>1, <1>2, <1>3, <1>4, <1>5, <1>6, <1>7, <1>8, <1>9, <1>10, <1>11, <1>12 DEF Step

(* A step of a worker hands a file over only with its members accounted for. *)
LEMMA StepKeepsIndexed ==
    ASSUME TypeOK, BusyHasJob, Accounts \subseteq Accounts', NEW w \in Workers,
           WorkerAccounted(w), IndexedAccounted,
           Step(w) \/ IngestSkip(w) \/ IngestRaise(w) \/ TaskRaise(w) \/ Crash(w)
    PROVE  IndexedAccounted'
<1>1. CASE DeferIndex(w)
  <2>1. deferred' = deferred \union {<<"index", e, job[w].batch>> : e \in emitted[w]}
    BY <1>1 DEF DeferIndex, Defer
  <2>2. \A d \in Docs : d \in emitted[w] => d = job[w].doc
    BY <1>1 DEF DeferIndex, WorkerAccounted
  <2>3. job[w].doc \in emitted[w] \ Partial =>
            \A c \in Members(job[w].doc) : <<c, job[w].doc, job[w].batch>> \in Accounts
    BY <1>1 DEF DeferIndex, WorkerAccounted
  <2> SUFFICES ASSUME NEW d \in Docs \ Partial, NEW b \in Batches,
                      <<"index", d, b>> \in deferred', NEW c \in Members(d)
               PROVE  <<c, d, b>> \in Accounts'
    BY DEF IndexedAccounted
  <2>4. CASE <<"index", d, b>> \in deferred
    BY <2>4 DEF IndexedAccounted
  <2>5. CASE <<"index", d, b>> \notin deferred
    <3>1. d \in emitted[w] /\ b = job[w].batch
      BY <2>1, <2>5
    <3> QED BY <2>2, <2>3, <3>1
  <2> QED BY <2>4, <2>5
<1>2. CASE DeferAnalyze(w)
  <2>1. \A t \in deferred' : t \in deferred \/ t[1] = "analyze"
    BY <1>2 DEF DeferAnalyze, Defer
  <2> QED BY <2>1 DEF IndexedAccounted
<1>3. CASE ~DeferIndex(w) /\ ~DeferAnalyze(w)
  BY <1>3, IndexedStaysAccounted
     DEF Step, Fetch, Load, EmitPart, StoreMember, QueueMember, IngestSucceed, IngestReject,
         IngestSkip, IngestRaise, TaskRaise, Close, Finish, Retry, Crash, rows
<1> QED BY <1>1, <1>2, <1>3

(* Every step keeps the members accounted for. *)
LEMMA NextKeepsAccounts ==
    TypeOK /\ BusyHasJob /\ MembersAccounted /\ [Next]_vars => MembersAccounted'
<1> SUFFICES ASSUME TypeOK, BusyHasJob, MembersAccounted, [Next]_vars
             PROVE  MembersAccounted'
  OBVIOUS
<1>1. Accounts \subseteq Accounts'
  BY AccountsKept
<1>2. ASSUME UNCHANGED worker, UNCHANGED deferred, UNCHANGED up
      PROVE  MembersAccounted'
  BY <1>1, <1>2, OthersAccounted, UploadsStayAccounted, IndexedStaysAccounted
     DEF MembersAccounted, worker
<1>3. CASE UNCHANGED vars \/ RunStage
  BY <1>2, <1>3 DEF vars, clients, rows, RunStage
<1>4. ASSUME NEW w \in Workers, Step(w) \/ IngestSkip(w) \/ IngestRaise(w) \/ TaskRaise(w) \/ Crash(w)
      PROVE  MembersAccounted'
  <2>1. \A x \in Workers \ {w} :
            /\ pc'[x] = pc[x] /\ job'[x] = job[x] /\ left'[x] = left[x]
            /\ member'[x] = member[x] /\ emitted'[x] = emitted[x]
    BY <1>4
       DEF TypeOK, Step, Fetch, Load, EmitPart, StoreMember, QueueMember, IngestSucceed,
           IngestReject, IngestSkip, IngestRaise, TaskRaise, Close, DeferAnalyze,
           DeferIndex, Finish, Retry, Crash, Discard, Finalize, Goto
  <2>2. up' = up
    BY <1>4
       DEF Step, Fetch, Load, EmitPart, StoreMember, QueueMember, IngestSucceed,
           IngestReject, IngestSkip, IngestRaise, TaskRaise, Close, DeferAnalyze,
           DeferIndex, Finish, Retry, Crash, clients
  <2>3. \A x \in Workers : WorkerAccounted(x)'
    BY <1>1, <1>4, <2>1, OthersAccounted, StepKeepsAccounts DEF MembersAccounted
  <2> QED
    BY <1>1, <1>4, <2>2, <2>3, UploadsStayAccounted, StepKeepsIndexed DEF MembersAccounted
<1> QED BY <1>1, <1>3, <1>4, UploadKeepsAccounts DEF Next

(* A done batch has ended the job of every upload that was answered and of *)
(* every file found inside a file it handed over (tasks.py:53, api.py:78). *)
THEOREM DoneComplete == Spec => []DoneIsComplete
<1>1. Init => MembersAccounted
  BY DEF Init, MembersAccounted, UploadsAccounted, WorkerAccounted, IndexedAccounted
<1>2. Spec => []MembersAccounted
  BY <1>1, NextKeepsAccounts, TypeCorrect, PTL DEF Spec
<1>3. MembersAccounted => DoneIsComplete
  <2> SUFFICES ASSUME MembersAccounted, NEW b \in Batches, BatchDone(b)
               PROVE  /\ \A u \in Uploads : u.batch = b /\ up[u] = "returned" =>
                          \E j \in succeeded \union failed : Matches(j, u.doc, NoParent, b)
                      /\ \A d \in Docs \ Partial : <<"index", d, b>> \in deferred =>
                          \A c \in Members(d) :
                              \E j \in succeeded \union failed : Matches(j, c, d, b)
    BY DEF DoneIsComplete, Partial
  <2>1. \A d, p : <<d, p, b>> \in Accounts =>
            \E j \in succeeded \union failed : Matches(j, d, p, b)
    BY DEF Accounts, Held, BatchDone, Matches
  <2> QED BY <2>1 DEF MembersAccounted, UploadsAccounted, IndexedAccounted
<1> QED BY <1>2, <1>3, PTL

-----------------------------------------------------------------------------
(* Steps of a worker *)

(* What a worker can do next. *)
WorkerStep(w) == Step(w) \/ IngestSkip(w) \/ IngestRaise(w) \/ TaskRaise(w) \/ Crash(w)

-----------------------------------------------------------------------------
(* The store *)

(* A flush writes its entities, and leaves the others as they are. *)
LEMMA FlushWrites ==
    ASSUME TypeOK, NEW writes \in SUBSET Writes, Flush(writes)
    PROVE  \A e \in Entities :
              /\ status'[e] # status[e] => \E x \in writes : x.entity = e /\ x.status = status'[e]
              /\ (\E x \in writes : x.entity = e) =>
                    \E x \in writes : x.entity = e /\ x.status = status'[e]
              /\ status[e] # "absent" \/ (\E x \in writes : x.entity = e) => status'[e] # "absent"
<1> SUFFICES ASSUME NEW e \in Entities
             PROVE  /\ status'[e] # status[e] =>
                        \E x \in writes : x.entity = e /\ x.status = status'[e]
                    /\ (\E x \in writes : x.entity = e) =>
                        \E x \in writes : x.entity = e /\ x.status = status'[e]
                    /\ status[e] # "absent" \/ (\E x \in writes : x.entity = e) =>
                        status'[e] # "absent"
  OBVIOUS
<1>1. CASE \E x \in writes : x.entity = e
  <2> DEFINE last == CHOOSE x \in writes : x.entity = e
  <2>1. last \in writes /\ last.entity = e
    BY <1>1
  <2>2. status'[e] = last.status
    BY <1>1 DEF Flush, Own
  <2>3. last.status # "absent"
    BY <2>1 DEF Writes
  <2> HIDE DEF last
  <2> QED BY <2>1, <2>2, <2>3, <1>1
<1>2. CASE ~\E x \in writes : x.entity = e
  <2>1. status'[e] = status[e]
    BY <1>2 DEF Flush, Own
  <2> QED BY <1>2, <2>1
<1> QED BY <1>1, <1>2

(* What a finalize writes. *)
FinalWrites(w, st) == buffer[w] \union {Put(job[w].doc, st, job[w].parent)}

(* These are entities, each at a place of its job. *)
LEMMA FinalizeWrites ==
    ASSUME TypeOK, NEW w \in Workers, job[w] \in Job, NEW st \in {"success", "failure"}
    PROVE  FinalWrites(w, st) \in SUBSET Writes
<1>1. Put(job[w].doc, st, job[w].parent) \in Writes
  BY DEF Put, Writes, Job, Entities
<1> QED BY <1>1 DEF FinalWrites, TypeOK

(* The emission of a part goes to the buffer, or to the store with it. *)
LEMMA EmitWrites ==
    ASSUME TypeOK, BusyHasJob, NEW w \in Workers, EmitPart(w)
    PROVE  \E e \in left[w] \intersect Parts, writes \in SUBSET Writes :
              /\ e \in Contents[job[w].doc]
              /\ left' = [left EXCEPT ![w] = @ \ {e}]
              /\ emitted' = [emitted EXCEPT ![w] = @ \union {e}]
              /\ \A x \in writes : x \in buffer[w] \/ x.entity = e
              /\ buffer[w] \subseteq writes /\ \E x \in writes : x.entity = e
              /\ \/ buffer' = [buffer EXCEPT ![w] = writes] /\ UNCHANGED store
                 \/ Flush(writes) /\ buffer' = [buffer EXCEPT ![w] = {}]
<1>1. PICK e \in left[w] \intersect Parts :
          /\ left' = [left EXCEPT ![w] = @ \ {e}]
          /\ Write(w, Put(e, "emitted", NoParent))
          /\ emitted' = [emitted EXCEPT ![w] = @ \union {e}]
  BY DEF EmitPart
<1> DEFINE x == Put(e, "emitted", NoParent)
<1>2. x \in Writes /\ x.entity = e
  BY DEF Put, Writes, Entities
<1> HIDE DEF x
<1> DEFINE writes == buffer[w] \union {x}
<1>3. /\ writes \in SUBSET Writes /\ \A y \in writes : y \in buffer[w] \/ y.entity = e
      /\ buffer[w] \subseteq writes /\ \E y \in writes : y.entity = e
  BY <1>2 DEF TypeOK
<1>4. \/ buffer' = [buffer EXCEPT ![w] = writes] /\ UNCHANGED store
      \/ Flush(writes) /\ buffer' = [buffer EXCEPT ![w] = {}]
  BY <1>1 DEF Write, x
<1>5. e \in Contents[job[w].doc]
  BY DEF EmitPart, BusyHasJob
<1> HIDE DEF writes
<1> QED BY <1>1, <1>3, <1>4, <1>5

(* The writes of a step that writes to the store. *)
LEMMA StoreSteps ==
    ASSUME TypeOK, BusyHasJob, [Next]_vars
    PROVE  UNCHANGED store \/ \E writes \in SUBSET Writes : Flush(writes)
<1> USE DEF TypeOK, BusyHasJob
<1>1. CASE UNCHANGED vars \/ RunStage \/ \E u \in Uploads : Upload(u) \/ UploadFail(u)
  BY <1>1 DEF vars, RunStage, Upload, UploadStore, UploadQueue, UploadClose, UploadFail, store
<1>2. ASSUME NEW w \in Workers, WorkerStep(w)
      PROVE  UNCHANGED store \/ \E writes \in SUBSET Writes : Flush(writes)
  <2>1. CASE IngestSucceed(w)
    BY <2>1, FinalizeWrites DEF IngestSucceed, Finalize, FinalWrites
  <2>2. CASE IngestReject(w)
    BY <2>2, FinalizeWrites DEF IngestReject, Finalize, FinalWrites
  <2>3. CASE IngestRaise(w)
    BY <2>3, FinalizeWrites DEF IngestRaise, Raises, Finalize, FinalWrites
  <2>4. CASE Close(w)
    BY <2>4 DEF Close
  <2>5. CASE EmitPart(w)
    BY <2>5, EmitWrites
  <2>6. CASE ~(IngestSucceed(w) \/ IngestReject(w) \/ IngestRaise(w) \/ Close(w) \/ EmitPart(w))
    BY <1>2, <2>6
       DEF WorkerStep, Step, Fetch, Load, StoreMember, QueueMember, IngestSkip,
           TaskRaise, DeferAnalyze, DeferIndex, Finish, Retry, Crash
  <2> QED BY <2>1, <2>2, <2>3, <2>4, <2>5, <2>6
<1> QED BY <1>1, <1>2 DEF Next, WorkerStep

(* Nothing leaves the archive, the store, or what was handed over. *)
LEMMA NothingIsLost ==
    ASSUME TypeOK, BusyHasJob, [Next]_vars
    PROVE  /\ archive \subseteq archive' /\ placed \subseteq placed'
           /\ deferred \subseteq deferred'
           /\ \A e \in Entities : status[e] # "absent" => status'[e] # "absent"
<1>1. placed \subseteq placed' /\ \A e \in Entities : status[e] # "absent" => status'[e] # "absent"
  <2>1. CASE UNCHANGED store
    BY <2>1 DEF store
  <2>2. ASSUME NEW writes \in SUBSET Writes, Flush(writes)
        PROVE  placed \subseteq placed'
    BY <2>2 DEF Flush, Placements
  <2> QED BY <2>1, <2>2, StoreSteps, FlushWrites
<1>2. archive \subseteq archive' /\ deferred \subseteq deferred'
  <2>1. CASE UNCHANGED vars \/ RunStage \/ \E u \in Uploads : Upload(u) \/ UploadFail(u)
    BY <2>1 DEF vars, rows, RunStage, Upload, UploadStore, UploadQueue, UploadClose, UploadFail
  <2>2. ASSUME NEW w \in Workers, WorkerStep(w)
        PROVE  archive \subseteq archive' /\ deferred \subseteq deferred'
    BY <2>2
       DEF WorkerStep, Step, Fetch, Load, EmitPart, StoreMember, QueueMember, IngestSucceed,
           IngestReject, IngestSkip, IngestRaise, TaskRaise, Close, DeferAnalyze, DeferIndex,
           Defer, Finish, Retry, Crash, rows
  <2> QED BY <2>1, <2>2 DEF Next, WorkerStep
<1> QED BY <1>1, <1>2

(* A step of a worker leaves the others alone. *)
LEMMA OthersStay ==
    ASSUME TypeOK, NEW w \in Workers, WorkerStep(w), NEW v \in Workers \ {w}
    PROVE  /\ pc'[v] = pc[v] /\ job'[v] = job[v] /\ left'[v] = left[v]
           /\ member'[v] = member[v] /\ buffer'[v] = buffer[v] /\ emitted'[v] = emitted[v]
BY DEF TypeOK, WorkerStep, Step, Fetch, Load, EmitPart, Write, StoreMember, QueueMember, IngestSucceed,
       IngestReject, IngestSkip, IngestRaise, TaskRaise, Close, DeferAnalyze, DeferIndex,
       Finish, Retry, Crash, Discard, Finalize, Goto

(* A step that is no worker's leaves all of them alone, and the store. *)
LEMMA WorkersStay ==
    ASSUME [Next]_vars, ~\E w \in Workers : WorkerStep(w)
    PROVE  UNCHANGED <<worker, store>>
BY DEF Next, WorkerStep, vars, RunStage, Upload, UploadStore, UploadQueue, UploadClose, UploadFail

-----------------------------------------------------------------------------
(* What is handed over is stored *)

Emittable(d) == {d} \union (Contents[d] \intersect Parts)

(* How far a worker has got with the entities of its job: what its writer   *)
(* holds was emitted, what was emitted is in the store or with the writer,  *)
(* and is the file, whose bytes are there, or a part of it.                 *)
WorkerEmits(w) ==
    /\ \A x \in buffer[w] : x.entity \in emitted[w] \intersect Parts
    /\ \A e \in emitted[w] : status[e] # "absent" \/ \E x \in buffer[w] : x.entity = e
    /\ pc[w] \in {"idle", "load"} => emitted[w] = {}
    /\ pc[w] \in {"ingest", "queue"} =>
        /\ job[w].doc \in archive /\ emitted[w] \subseteq Parts
        /\ Contents[job[w].doc] \intersect Parts \subseteq left[w] \union emitted[w]
    /\ pc[w] \in {"analyze", "index", "finish"} => buffer[w] = {}
    /\ \A e \in emitted[w] : job[w].doc \in archive /\ e \in Emittable(job[w].doc)

(* And a file is in the store only if its bytes are in the archive. *)
EmittedIsWritten ==
    /\ \A w \in Workers : WorkerEmits(w)
    /\ \A d \in Docs : status[d] # "absent" => d \in archive
    /\ HandedOverIsStored

(* A step of another worker, or of none, leaves what a worker has written. *)
LEMMA OthersEmits ==
    ASSUME TypeOK, BusyHasJob, [Next]_vars, NEW v \in Workers, WorkerEmits(v),
           pc'[v] = pc[v], job'[v] = job[v], left'[v] = left[v],
           buffer'[v] = buffer[v], emitted'[v] = emitted[v]
    PROVE  WorkerEmits(v)'
<1>1. archive \subseteq archive' /\ \A e \in Entities : status[e] # "absent" => status'[e] # "absent"
  BY NothingIsLost
<1>2. emitted[v] \subseteq Entities
  BY DEF TypeOK
<1> QED BY <1>1, <1>2 DEF WorkerEmits

(* A worker that finalizes its job, or closes its manager, writes all. *)
LEMMA FlushEmits ==
    ASSUME TypeOK, BusyHasJob, [Next]_vars, NEW w \in Workers, pc[w] # "idle", WorkerEmits(w),
           NEW writes \in SUBSET Writes, Flush(writes), buffer[w] \subseteq writes,
           buffer' = [buffer EXCEPT ![w] = {}],
           \A e \in emitted'[w] : e \in emitted[w] \/ \E x \in writes : x.entity = e,
           emitted[w] \subseteq emitted'[w], emitted'[w] \subseteq Entities,
           \A e \in emitted'[w] : job[w].doc \in archive /\ e \in Emittable(job[w].doc),
           UNCHANGED <<job, archive>>, pc'[w] \notin {"idle", "load", "ingest", "queue"}
    PROVE  WorkerEmits(w)'
<1>1. \A e \in emitted'[w] : status'[e] # "absent"
  BY FlushWrites DEF WorkerEmits
<1> QED BY <1>1 DEF WorkerEmits, TypeOK

(* A step of a worker keeps its own account of what it emits. *)
LEMMA StepEmits ==
    ASSUME TypeOK, BusyHasJob, [Next]_vars, NEW w \in Workers, WorkerEmits(w), WorkerStep(w)
    PROVE  WorkerEmits(w)'
<1> USE DEF TypeOK, BusyHasJob, Goto, Steps
<1>1. CASE IngestSucceed(w) \/ IngestReject(w) \/ IngestRaise(w)
  <2>1. PICK st \in {"success", "failure"} : Finalize(w, st)
    BY <1>1 DEF IngestSucceed, IngestReject, IngestRaise
  <2>2. job[w] \in Job /\ pc[w] \in {"ingest", "queue"} /\ UNCHANGED <<job, archive>>
    BY <1>1 DEF IngestSucceed, IngestReject, IngestRaise, Raises
  <2>3. pc'[w] \in {"close", "raise"}
    BY <1>1 DEF IngestSucceed, IngestReject, IngestRaise
  <2>4. FinalWrites(w, st) \in SUBSET Writes /\ Flush(FinalWrites(w, st))
    BY <2>1, <2>2, FinalizeWrites DEF Finalize, FinalWrites
  <2>5. /\ buffer' = [buffer EXCEPT ![w] = {}]
        /\ emitted'[w] = emitted[w] \union {job[w].doc}
    BY <2>1 DEF Finalize
  <2>6. (\E x \in FinalWrites(w, st) : x.entity = job[w].doc) /\ job[w].doc \in Entities
    <3>1. Put(job[w].doc, st, job[w].parent).entity = job[w].doc
      BY DEF Put
    <3> QED BY <2>2, <3>1 DEF FinalWrites, Job, Entities
  <2>7. \A e \in emitted'[w] : job[w].doc \in archive /\ e \in Emittable(job[w].doc)
    BY <2>2, <2>5 DEF WorkerEmits, Emittable
  <2>8. buffer[w] \subseteq FinalWrites(w, st)
    BY DEF FinalWrites
  <2> HIDE DEF FinalWrites
  <2>9. emitted[w] \subseteq Entities
    OBVIOUS
  <2> QED BY <2>2, <2>3, <2>4, <2>5, <2>6, <2>7, <2>8, <2>9, FlushEmits
<1>2. CASE Close(w)
  <2>1. buffer[w] \in SUBSET Writes /\ Flush(buffer[w])
    BY <1>2 DEF Close
  <2>2. pc[w] = "close" /\ pc'[w] \in {"analyze", "finish"} /\ UNCHANGED <<job, archive, emitted>>
    BY <1>2 DEF Close
  <2> QED BY <1>2, <2>1, <2>2, FlushEmits DEF Close, WorkerEmits
<1>3. CASE Fetch(w)
  BY <1>3 DEF Fetch, WorkerEmits
<1>4. CASE Load(w)
  BY <1>4 DEF Load, WorkerEmits
<1>5. CASE EmitPart(w)
  <2>1. PICK e \in left[w] \intersect Parts :
            \E writes \in SUBSET Writes :
              /\ e \in Contents[job[w].doc]
              /\ left' = [left EXCEPT ![w] = @ \ {e}]
              /\ emitted' = [emitted EXCEPT ![w] = @ \union {e}]
              /\ \A x \in writes : x \in buffer[w] \/ x.entity = e
              /\ buffer[w] \subseteq writes /\ \E x \in writes : x.entity = e
              /\ \/ buffer' = [buffer EXCEPT ![w] = writes] /\ UNCHANGED store
                 \/ Flush(writes) /\ buffer' = [buffer EXCEPT ![w] = {}]
    BY <1>5, EmitWrites
  <2>2. pc[w] = "ingest" /\ UNCHANGED <<pc, job, archive>>
    BY <1>5 DEF EmitPart
  <2>3. PICK writes \in SUBSET Writes :
            /\ \A x \in writes : x \in buffer[w] \/ x.entity = e
            /\ buffer[w] \subseteq writes /\ \E x \in writes : x.entity = e
            /\ \/ buffer' = [buffer EXCEPT ![w] = writes] /\ UNCHANGED store
               \/ Flush(writes) /\ buffer' = [buffer EXCEPT ![w] = {}]
    BY <2>1
  <2>4. e \in Parts /\ emitted'[w] = emitted[w] \union {e} /\ left'[w] = left[w] \ {e}
    BY <2>1
  <2>5. CASE buffer' = [buffer EXCEPT ![w] = writes] /\ UNCHANGED store
    BY <2>1, <2>2, <2>3, <2>4, <2>5 DEF WorkerEmits, Emittable, store
  <2>6. CASE Flush(writes) /\ buffer' = [buffer EXCEPT ![w] = {}]
    <3>1. \A f \in emitted'[w] : status'[f] # "absent"
      <4>1. \A f \in emitted'[w] : f \in Entities /\ (f \in emitted[w] \/ f = e)
        BY <2>4 DEF Entities
      <4> QED BY <2>3, <2>6, <4>1, FlushWrites DEF WorkerEmits
    <3> QED BY <2>1, <2>2, <2>4, <2>6, <3>1 DEF WorkerEmits, Emittable
  <2> QED BY <2>3, <2>5, <2>6
<1>6. CASE StoreMember(w) \/ QueueMember(w) \/ IngestSkip(w)
  <2>1. /\ pc[w] \in {"ingest", "queue"} /\ pc'[w] \in {"ingest", "queue"}
        /\ UNCHANGED <<job, buffer, emitted, status>> /\ archive \subseteq archive'
    BY <1>6 DEF StoreMember, QueueMember, IngestSkip, store
  <2>2. left[w] \intersect Parts \subseteq left'[w]
    <3>1. left' = left \/ \E d \in left[w] \intersect Docs : left' = [left EXCEPT ![w] = @ \ {d}]
      BY <1>6 DEF StoreMember, QueueMember, IngestSkip
    <3> QED BY <3>1
  <2> QED BY <2>1, <2>2 DEF WorkerEmits
<1>7. CASE TaskRaise(w) \/ DeferAnalyze(w) \/ DeferIndex(w)
  BY <1>7 DEF TaskRaise, DeferAnalyze, DeferIndex, WorkerEmits, store
<1>8. CASE Finish(w) \/ Retry(w) \/ Crash(w)
  BY <1>8 DEF Finish, Retry, Crash, Discard, WorkerEmits
<1> QED BY <1>1, <1>2, <1>3, <1>4, <1>5, <1>6, <1>7, <1>8 DEF WorkerStep, Step

(* A file that is in the store has its bytes in the archive. *)
LEMMA StepArchived ==
    ASSUME TypeOK, BusyHasJob, [Next]_vars, EmittedIsWritten, NEW d \in Docs, status'[d] # "absent"
    PROVE  d \in archive'
<1> USE DEF TypeOK, BusyHasJob
<1>1. archive \subseteq archive' /\ d \in Entities
  BY NothingIsLost DEF Entities
<1>2. CASE status[d] # "absent"
  BY <1>1, <1>2 DEF EmittedIsWritten
<1>3. CASE status[d] = "absent"
  <2>1. PICK w \in Workers : WorkerStep(w) /\ ~UNCHANGED store
    BY <1>3, WorkersStay DEF store
  <2>2. WorkerEmits(w) /\ \A x \in buffer[w] : x.entity # d
    <3>1. WorkerEmits(w)
      BY DEF EmittedIsWritten
    <3>2. \A x \in buffer[w] : x.entity \in Parts
      BY <3>1 DEF WorkerEmits
    <3> QED BY <3>1, <3>2
  <2>3. CASE IngestSucceed(w) \/ IngestReject(w) \/ IngestRaise(w)
    <3>1. PICK st \in {"success", "failure"} : Finalize(w, st)
      BY <2>3 DEF IngestSucceed, IngestReject, IngestRaise
    <3>2. job[w] \in Job /\ pc[w] \in {"ingest", "queue"}
      BY <2>3 DEF IngestSucceed, IngestReject, IngestRaise, Raises
    <3>3. FinalWrites(w, st) \in SUBSET Writes /\ Flush(FinalWrites(w, st))
      BY <3>1, <3>2, FinalizeWrites DEF Finalize, FinalWrites
    <3>4. \E x \in FinalWrites(w, st) : x.entity = d
      BY <1>1, <1>3, <3>3, FlushWrites
    <3>5. d = job[w].doc
      BY <2>2, <3>4 DEF FinalWrites, Put
    <3> QED BY <1>1, <2>2, <3>2, <3>5 DEF WorkerEmits
  <2>4. CASE Close(w)
    <3>1. buffer[w] \in SUBSET Writes /\ Flush(buffer[w])
      BY <2>4 DEF Close
    <3> QED BY <1>1, <1>3, <2>2, <3>1, FlushWrites
  <2>5. CASE EmitPart(w)
    <3>1. PICK e \in Parts, writes \in SUBSET Writes :
              /\ \A x \in writes : x \in buffer[w] \/ x.entity = e
              /\ UNCHANGED store \/ Flush(writes)
      BY <2>5, EmitWrites
    <3>2. \A x \in writes : x.entity # d
      BY <2>2, <3>1
    <3> QED BY <1>1, <1>3, <2>1, <3>1, <3>2, FlushWrites
  <2>6. CASE ~(IngestSucceed(w) \/ IngestReject(w) \/ IngestRaise(w) \/ Close(w) \/ EmitPart(w))
    BY <2>1, <2>6
       DEF WorkerStep, Step, Fetch, Load, StoreMember, QueueMember, IngestSkip,
           TaskRaise, DeferAnalyze, DeferIndex, Finish, Retry, Crash
  <2> QED BY <2>3, <2>4, <2>5, <2>6
<1> QED BY <1>2, <1>3

(* What a step hands over was emitted by a worker whose manager is closed. *)
LEMMA HandsOver ==
    ASSUME TypeOK, BusyHasJob, [Next]_vars, NEW t \in deferred', t \notin deferred
    PROVE  \E w \in Workers :
              /\ pc[w] \in {"analyze", "index"} /\ t[2] \in emitted[w] /\ t[3] = job[w].batch
              /\ t[1] = "analyze" => pc[w] = "analyze" /\ t[2] \in ToAnalyze(w)
<1>1. PICK w \in Workers : WorkerStep(w)
  BY DEF Next, WorkerStep, vars, rows, RunStage, Upload, UploadStore, UploadQueue,
         UploadClose, UploadFail
<1>2. CASE DeferAnalyze(w)
  BY <1>2 DEF DeferAnalyze, Defer, ToAnalyze
<1>3. CASE DeferIndex(w)
  BY <1>3 DEF DeferIndex, Defer
<1>4. CASE ~DeferAnalyze(w) /\ ~DeferIndex(w)
  BY <1>1, <1>4
     DEF WorkerStep, Step, Fetch, Load, EmitPart, StoreMember, QueueMember, IngestSucceed,
         IngestReject, IngestSkip, IngestRaise, TaskRaise, Close, Finish, Retry, Crash, rows
<1> QED BY <1>2, <1>3, <1>4

(* Initially nothing is emitted, stored or handed over. *)
LEMMA EmittedInit == Init => EmittedIsWritten
BY DEF Init, EmittedIsWritten, WorkerEmits, HandedOverIsStored, Entities

(* Every step keeps the account of what is emitted. *)
LEMMA EmittedStep ==
    TypeOK /\ BusyHasJob /\ EmittedIsWritten /\ [Next]_vars => EmittedIsWritten'
<1> SUFFICES ASSUME TypeOK, BusyHasJob, EmittedIsWritten, [Next]_vars
             PROVE  EmittedIsWritten'
  OBVIOUS
<1>1. ASSUME NEW v \in Workers PROVE WorkerEmits(v)'
  <2>1. WorkerEmits(v)
    BY DEF EmittedIsWritten
  <2>2. CASE WorkerStep(v)
    BY <2>1, <2>2, StepEmits
  <2>3. CASE \E w \in Workers \ {v} : WorkerStep(w)
    BY <2>1, <2>3, OthersStay, OthersEmits
  <2>4. CASE ~\E w \in Workers : WorkerStep(w)
    BY <2>1, <2>4, WorkersStay, OthersEmits DEF worker
  <2> QED BY <2>2, <2>3, <2>4
<1>2. HandedOverIsStored'
  <2> SUFFICES ASSUME NEW t \in deferred' PROVE status'[t[2]] # "absent"
    BY DEF HandedOverIsStored
  <2>1. t[2] \in Entities
    BY NextType DEF TypeOK
  <2>2. CASE t \in deferred
    BY <2>1, <2>2, NothingIsLost DEF EmittedIsWritten, HandedOverIsStored
  <2>3. CASE t \notin deferred
    <3>1. PICK w \in Workers : pc[w] \in {"analyze", "index"} /\ t[2] \in emitted[w]
      BY <2>3, HandsOver
    <3>2. status[t[2]] # "absent"
      BY <3>1 DEF EmittedIsWritten, WorkerEmits
    <3> QED BY <2>1, <3>2, NothingIsLost
  <2> QED BY <2>2, <2>3
<1> QED BY <1>1, <1>2, StepArchived DEF EmittedIsWritten

(* So it holds throughout. *)
LEMMA EmittedInv == Spec => []EmittedIsWritten
BY EmittedInit, EmittedStep, TypeCorrect, PTL DEF Spec

(* What analyze and index are told to read has reached the store: the       *)
(* buffered writes are flushed before the jobs are deferred (tasks.py:62).  *)
THEOREM HandedOverStored == Spec => []HandedOverIsStored
<1>1. EmittedIsWritten => HandedOverIsStored
  BY DEF EmittedIsWritten
<1> QED BY <1>1, EmittedInv, PTL
-----------------------------------------------------------------------------
(* Members *)

SameJob(i, j) ==
    i.op = j.op /\ i.doc = j.doc /\ i.parent = j.parent /\ i.batch = j.batch /\ i.context = j.context

(* An ingest job is that of an upload, of a member a worker has stored, or *)
(* one that was there before, perhaps at another attempt.                  *)
LEMMA WhereJobsComeFrom ==
    ASSUME TypeOK, BusyHasJob, [Next]_vars, NEW j \in Unfinished', j.op = "ingest"
    PROVE  \/ \E i \in Unfinished : SameJob(i, j)
           \/ \E u \in Uploads :
                j.parent = NoParent /\ u.batch = j.batch /\ u.context = j.context
           \/ \E w \in Workers :
                /\ pc[w] = "queue" /\ job[w] \in Unfinished /\ job[w].op = "ingest"
                /\ j.doc = member[w] /\ j.parent = job[w].doc
                /\ j.batch = job[w].batch /\ j.context = job[w].context
<1> USE DEF Unfinished, Running, TypeOK, BusyHasJob, Goto, Steps
<1> DEFINE Before == \E i \in Unfinished : SameJob(i, j)
<1>0. j \in Unfinished => Before
  BY DEF SameJob
<1>1. CASE UNCHANGED vars
  BY <1>0, <1>1 DEF vars, rows, worker
<1>2. CASE \E u \in Uploads : Upload(u) \/ UploadFail(u)
  <2>1. PICK u \in Uploads : Upload(u) \/ UploadFail(u)
    BY <1>2
  <2>2. CASE UploadQueue(u)
    BY <1>0, <2>2, BagAddJob DEF UploadQueue, worker, NewJob
  <2>3. CASE ~UploadQueue(u)
    BY <1>0, <2>1, <2>3 DEF Upload, UploadStore, UploadClose, UploadFail, rows, worker
  <2> QED BY <2>2, <2>3
<1>3. CASE RunStage
  BY <1>0, <1>3, BagRemoveJob DEF RunStage, worker
<1>4. ASSUME NEW w \in Workers, WorkerStep(w), ~QueueMember(w)
      PROVE  Before
  <2>1. CASE Fetch(w)
    <3>1. PICK k \in BagToSet(todo) :
              todo' = BagRemove(todo, k) /\ job' = [job EXCEPT ![w] = k]
      BY <2>1 DEF Fetch
    <3>2. BagToSet(todo') \subseteq BagToSet(todo)
      BY <3>1, BagRemoveJob
    <3> QED BY <1>0, <2>1, <3>1, <3>2 DEF Fetch
  <2>2. CASE Load(w) \/ EmitPart(w) \/ StoreMember(w) \/ IngestSucceed(w)
             \/ IngestReject(w) \/ IngestSkip(w) \/ IngestRaise(w) \/ TaskRaise(w) \/ Close(w)
    BY <1>0, <2>2 DEF Load, EmitPart, StoreMember, IngestSucceed, IngestReject, IngestSkip,
                IngestRaise, Raises, TaskRaise, Close, rows
  <2>3. CASE DeferAnalyze(w) \/ DeferIndex(w)
    <3>1. \A op \in Stages : StageJob(job[w], op).op \in Stages
      BY DEF StageJob, NewJob
    <3>2. j.op \notin Stages
      BY DEF Stages
    <3> QED BY <1>0, <2>3, <3>1, <3>2, BagAddJob DEF DeferAnalyze, DeferIndex, Defer, Stages
  <2>4. CASE Finish(w) \/ Crash(w)
    BY <1>0, <2>4 DEF Finish, Crash, Discard
  <2>5. CASE Retry(w)
    <3>1. job[w] \in Job /\ w \in Running
      BY <2>5 DEF Retry
    <3> DEFINE again == [job[w] EXCEPT !.attempt = @ + 1]
    <3>2. SameJob(job[w], again)
      BY <3>1 DEF Job, SameJob
    <3>3. todo' = todo \/ todo' = BagAdd(todo, again)
      BY <2>5 DEF Retry
    <3> HIDE DEF again
    <3>4. \A k \in BagToSet(todo') : k \in BagToSet(todo) \/ k = again
      BY <3>3, BagAddJob
    <3> QED BY <1>0, <2>5, <3>1, <3>2, <3>4 DEF Retry, Discard
  <2> QED BY <1>4, <2>1, <2>2, <2>3, <2>4, <2>5 DEF WorkerStep, Step
<1>5. ASSUME NEW w \in Workers, QueueMember(w), ~Before
      PROVE  /\ pc[w] = "queue" /\ job[w] \in Unfinished /\ job[w].op = "ingest"
             /\ j.doc = member[w] /\ j.parent = job[w].doc
             /\ j.batch = job[w].batch /\ j.context = job[w].context
  <2>1. pc[w] = "queue" /\ job[w] \in Unfinished /\ job[w].op = "ingest"
    BY <1>5 DEF QueueMember
  <2>2. j \in Unfinished \/ j = ChildJob(job[w], member[w])
    BY <1>5, BagAddJob DEF QueueMember
  <2>3. j = ChildJob(job[w], member[w])
    BY <1>0, <1>5, <2>2
  <2> QED BY <2>1, <2>3 DEF ChildJob, NewJob
<1> QED BY <1>1, <1>2, <1>3, <1>4, <1>5 DEF Next, WorkerStep

(* The bytes of every member whose job has not ended are in the archive, if *)
(* it has any.                                                              *)
MembersAreStored ==
    /\ \A j \in Unfinished :
        j.op = "ingest" /\ j.parent # NoParent => j.doc \in archive \union Irregular
    /\ \A w \in Workers : pc[w] = "queue" => member[w] \in archive \union Irregular

(* Initially there is no member. *)
LEMMA StoredInit == Init => MembersAreStored
BY NoJobs DEF Init, MembersAreStored, Unfinished, Running

(* Every step keeps the members stored: StoreMember comes before QueueMember. *)
LEMMA StoredStep ==
    TypeOK /\ BusyHasJob /\ MembersAreStored /\ [Next]_vars => MembersAreStored'
<1> SUFFICES ASSUME TypeOK, BusyHasJob, MembersAreStored, [Next]_vars
             PROVE  MembersAreStored'
  OBVIOUS
<1>1. archive \subseteq archive'
  BY NothingIsLost
<1>2. ASSUME NEW j \in Unfinished', j.op = "ingest", j.parent # NoParent
      PROVE  j.doc \in archive' \union Irregular
  BY <1>1, <1>2, WhereJobsComeFrom DEF MembersAreStored, SameJob
<1>3. ASSUME NEW v \in Workers, pc'[v] = "queue" PROVE member'[v] \in archive' \union Irregular
  <2>1. CASE WorkerStep(v)
    <3>1. CASE StoreMember(v)
      BY <3>1 DEF StoreMember, TypeOK
    <3>2. CASE ~StoreMember(v)
      BY <1>1, <1>3, <2>1, <3>2
         DEF MembersAreStored, TypeOK, WorkerStep, Step, Fetch, Load, EmitPart, QueueMember,
             IngestSucceed, IngestReject, IngestSkip, IngestRaise, TaskRaise, Close,
             DeferAnalyze, DeferIndex, Finish, Retry, Crash, Discard, Goto
    <3> QED BY <3>1, <3>2
  <2>2. CASE \E w \in Workers \ {v} : WorkerStep(w)
    BY <1>1, <1>3, <2>2, OthersStay DEF MembersAreStored
  <2>3. CASE ~\E w \in Workers : WorkerStep(w)
    BY <1>1, <1>3, <2>3, WorkersStay DEF MembersAreStored, worker
  <2> QED BY <2>1, <2>2, <2>3
<1> QED BY <1>2, <1>3 DEF MembersAreStored

(* How far a worker has got with a member: emitted, placed, handed over. *)
WorkerPlaces(w) ==
    pc[w] # "idle" /\ job[w].parent # NoParent /\ job[w].doc \notin Irregular =>
        /\ pc[w] \in {"close", "analyze", "index"} => job[w].doc \in emitted[w]
        /\ pc[w] \in {"close", "analyze", "index", "finish"} =>
            <<job[w].doc, job[w].parent>> \in placed
        /\ pc[w] = "finish" => <<"index", job[w].doc, job[w].batch>> \in deferred

MembersAreWritten ==
    /\ \A w \in Workers : WorkerPlaces(w)
    /\ PlacementsKept
    /\ MembersAreHandedOver

(* A finalize places the file of the job. *)
LEMMA FinalizePlaces ==
    ASSUME TypeOK, NEW w \in Workers, job[w] \in Job, NEW st, Finalize(w, st)
    PROVE  /\ job[w].parent # NoParent => <<job[w].doc, job[w].parent>> \in placed'
           /\ job[w].doc \in emitted'[w]
<1>1. /\ Put(job[w].doc, st, job[w].parent).entity = job[w].doc
      /\ Put(job[w].doc, st, job[w].parent).parent = job[w].parent
  BY DEF Put
<1>2. placed' = Placements(FinalWrites(w, st), placed)
  BY DEF Finalize, Flush, FinalWrites
<1>3. Put(job[w].doc, st, job[w].parent) \in FinalWrites(w, st)
  BY DEF FinalWrites
<1> HIDE DEF FinalWrites
<1>4. job[w].doc \in emitted'[w]
  BY DEF Finalize, TypeOK
<1> QED BY <1>1, <1>2, <1>3, <1>4 DEF Placements

(* A step of a worker keeps its own account of where it places its file. *)
LEMMA StepPlaces ==
    ASSUME TypeOK, BusyHasJob, [Next]_vars, MembersAreStored, NEW w \in Workers,
           WorkerPlaces(w), WorkerStep(w)
    PROVE  WorkerPlaces(w)'
<1> USE DEF TypeOK, BusyHasJob, WorkerPlaces, Goto, Steps
<1>0. placed \subseteq placed' /\ deferred \subseteq deferred'
  BY NothingIsLost
<1>1. CASE IngestSucceed(w) \/ IngestReject(w) \/ IngestRaise(w)
  <2>1. PICK st \in {"success", "failure"} : Finalize(w, st)
    BY <1>1 DEF IngestSucceed, IngestReject, IngestRaise
  <2>2. job[w] \in Job /\ UNCHANGED job /\ pc'[w] \in {"close", "raise"}
    BY <1>1 DEF IngestSucceed, IngestReject, IngestRaise, Raises
  <2> QED BY <2>1, <2>2, FinalizePlaces
<1>2. CASE Close(w)
  BY <1>0, <1>2 DEF Close
<1>3. CASE Load(w)
  <2>1. job[w] \in Unfinished /\ job[w].op = "ingest"
    BY <1>3 DEF Load, Unfinished, Running
  <2> QED BY <1>3, <2>1 DEF Load, MembersAreStored
<1>4. CASE DeferAnalyze(w)
  BY <1>0, <1>4 DEF DeferAnalyze
<1>5. CASE DeferIndex(w)
  <2>1. deferred' = deferred \union {<<"index", e, job[w].batch>> : e \in emitted[w]}
    BY <1>5 DEF DeferIndex, Defer
  <2> QED BY <1>0, <1>5, <2>1 DEF DeferIndex
<1>6. CASE Fetch(w) \/ EmitPart(w) \/ StoreMember(w) \/ QueueMember(w) \/ IngestSkip(w)
           \/ TaskRaise(w) \/ Finish(w) \/ Retry(w) \/ Crash(w)
  BY <1>6 DEF Fetch, EmitPart, StoreMember, QueueMember, IngestSkip, TaskRaise, Finish, Retry,
              Crash, Discard
<1> QED BY <1>1, <1>2, <1>3, <1>4, <1>5, <1>6 DEF WorkerStep, Step

(* Only a worker at its end adds to the jobs that have succeeded. *)
LEMMA Succeeds ==
    ASSUME TypeOK, [Next]_vars, NEW j \in succeeded', j \notin succeeded
    PROVE  \E w \in Workers : pc[w] = "finish" /\ job[w] = j
<1>1. PICK w \in Workers : Finish(w)
  BY DEF Next, vars, rows, RunStage, Upload, UploadStore, UploadQueue, UploadClose, UploadFail,
         Step, Fetch, Load, EmitPart, StoreMember, QueueMember, IngestSucceed,
         IngestReject, IngestSkip, IngestRaise, TaskRaise, Close, DeferAnalyze, DeferIndex,
         Retry, Crash
<1> QED BY <1>1 DEF Finish

(* Initially no job has written anything. *)
LEMMA WrittenInit == Init => MembersAreWritten
BY DEF Init, MembersAreWritten, WorkerPlaces, PlacementsKept, MembersAreHandedOver

(* Every step keeps the account of what the jobs of members have written. *)
LEMMA WrittenStep ==
    TypeOK /\ BusyHasJob /\ MembersAreStored /\ MembersAreWritten /\ [Next]_vars
        => MembersAreWritten'
<1> SUFFICES ASSUME TypeOK, BusyHasJob, MembersAreStored, MembersAreWritten, [Next]_vars
             PROVE  MembersAreWritten'
  OBVIOUS
<1>0. placed \subseteq placed' /\ deferred \subseteq deferred'
  BY NothingIsLost
<1>1. ASSUME NEW v \in Workers PROVE WorkerPlaces(v)'
  <2>1. WorkerPlaces(v)
    BY DEF MembersAreWritten
  <2>2. CASE WorkerStep(v)
    BY <2>1, <2>2, StepPlaces
  <2>3. CASE \E w \in Workers \ {v} : WorkerStep(w)
    BY <1>0, <2>1, <2>3, OthersStay DEF WorkerPlaces
  <2>4. CASE ~\E w \in Workers : WorkerStep(w)
    BY <1>0, <2>1, <2>4, WorkersStay DEF WorkerPlaces, worker
  <2> QED BY <2>2, <2>3, <2>4
<1>2. ASSUME NEW j \in succeeded', j.parent # NoParent, j.doc \notin Irregular
      PROVE  <<j.doc, j.parent>> \in placed' /\ <<"index", j.doc, j.batch>> \in deferred'
  <2>1. CASE j \in succeeded
    BY <1>0, <1>2, <2>1 DEF MembersAreWritten, PlacementsKept, MembersAreHandedOver
  <2>2. CASE j \notin succeeded
    <3>1. PICK w \in Workers : pc[w] = "finish" /\ job[w] = j
      BY <2>2, Succeeds
    <3> QED BY <1>0, <1>2, <3>1 DEF MembersAreWritten, WorkerPlaces
  <2> QED BY <2>1, <2>2
<1> QED BY <1>1, <1>2 DEF MembersAreWritten, PlacementsKept, MembersAreHandedOver

(* So it holds throughout, with the members stored. *)
LEMMA WrittenInv == Spec => []MembersAreWritten
<1>1. Spec => []MembersAreStored
  BY StoredInit, StoredStep, TypeCorrect, PTL DEF Spec
<1> QED BY <1>1, WrittenInit, WrittenStep, TypeCorrect, PTL DEF Spec

(* A regular file found inside another is never skipped for want of its     *)
(* bytes: its job can only end well after handing it over; what is no       *)
(* regular file is queued without a hash (manager.py:219-245).              *)
THEOREM MembersHandedOver == Spec => []MembersAreHandedOver
<1>1. MembersAreWritten => MembersAreHandedOver
  BY DEF MembersAreWritten
<1> QED BY <1>1, WrittenInv, PTL

(* A regular file keeps every place it was found in, whichever of its jobs  *)
(* writes last (manager.py:49-68).                                          *)
THEOREM PlacesKept == Spec => []PlacementsKept
<1>1. MembersAreWritten => PlacementsKept
  BY DEF MembersAreWritten
<1> QED BY <1>1, WrittenInv, PTL

-----------------------------------------------------------------------------
(* Opting out *)

(* No ingest job asks for an analysis that no upload of its batch wanted. *)
AnalysisIsWanted ==
    /\ \A j \in Unfinished : j.op = "ingest" /\ j.context = "analyze" =>
        \E u \in Uploads : u.batch = j.batch /\ u.context = "analyze"
    /\ OptOutIsKept

(* Every step keeps the accounts of what may be analyzed. *)
LEMMA WantedStep ==
    TypeOK /\ BusyHasJob /\ AnalysisIsWanted /\ [Next]_vars => AnalysisIsWanted'
<1> SUFFICES ASSUME TypeOK, BusyHasJob, AnalysisIsWanted, [Next]_vars
             PROVE  AnalysisIsWanted'
  OBVIOUS
<1>1. ASSUME NEW j \in Unfinished', j.op = "ingest", j.context = "analyze"
      PROVE  \E u \in Uploads : u.batch = j.batch /\ u.context = "analyze"
  BY <1>1, WhereJobsComeFrom DEF AnalysisIsWanted, SameJob
<1>2. ASSUME NEW t \in deferred', t[1] = "analyze"
      PROVE  t[2] \in Analyzable /\ \E u \in Uploads : u.batch = t[3] /\ u.context = "analyze"
  <2>1. CASE t \in deferred
    BY <1>2, <2>1 DEF AnalysisIsWanted, OptOutIsKept
  <2>2. CASE t \notin deferred
    <3>1. PICK w \in Workers :
              pc[w] = "analyze" /\ t[2] \in ToAnalyze(w) /\ t[3] = job[w].batch
      BY <1>2, <2>2, HandsOver
    <3>2. t[2] \in Analyzable /\ job[w].context = "analyze"
      BY <3>1 DEF ToAnalyze
    <3>3. job[w] \in Unfinished /\ job[w].op = "ingest"
      BY <3>1 DEF BusyHasJob, Unfinished, Running
    <3> QED BY <3>1, <3>2, <3>3 DEF AnalysisIsWanted
  <2> QED BY <2>1, <2>2
<1> QED BY <1>1, <1>2 DEF AnalysisIsWanted, OptOutIsKept

(* Nothing of a batch that opted out is analyzed, at any depth, and never a *)
(* container (tasks.py:40-46, 79).                                          *)
THEOREM OptOutKept == Spec => []OptOutIsKept
<1>1. Init => AnalysisIsWanted
  BY NoJobs DEF Init, AnalysisIsWanted, OptOutIsKept, Unfinished, Running
<1>2. AnalysisIsWanted => OptOutIsKept
  BY DEF AnalysisIsWanted
<1> QED BY <1>1, <1>2, WantedStep, TypeCorrect, PTL DEF Spec
-----------------------------------------------------------------------------
(* Failures *)

Early == {"load", "ingest", "queue", "raise"}
Late == {"close", "analyze", "index"}

(* The ingest jobs whose ingestor will be run, or is, or has been given up. *)
Owing ==
    {j \in BagToSet(todo) \union stalled \union failed
            \union {job[w] : w \in {v \in Workers : pc[v] \in Early}} : j.op = "ingest"}

(* A job stays owing, as itself or as the attempt after it, until the      *)
(* ingestor has returned or has rejected its file.                         *)
LEMMA OwingStays ==
    ASSUME TypeOK, BusyHasJob, [Next]_vars, NEW j \in Owing, j.doc \in archive
    PROVE  \/ \E i \in Owing' : i.doc = j.doc
           \/ \E w \in Workers : job[w] = j /\ (IngestSucceed(w) \/ IngestReject(w))
<1> USE DEF Owing, Early, TypeOK, BusyHasJob, Goto, Steps
<1> DEFINE After == \E i \in Owing' : i.doc = j.doc
<1>1. CASE UNCHANGED vars
  BY <1>1 DEF vars, rows, worker
<1>2. CASE \E u \in Uploads : Upload(u) \/ UploadFail(u)
  <2>1. PICK u \in Uploads : Upload(u) \/ UploadFail(u)
    BY <1>2
  <2>2. CASE UploadQueue(u)
    BY <2>2, BagAddJob DEF UploadQueue, worker
  <2>3. CASE ~UploadQueue(u)
    BY <2>1, <2>3 DEF Upload, UploadStore, UploadClose, UploadFail, rows, worker
  <2> QED BY <2>2, <2>3
<1>3. CASE RunStage
  <2>1. PICK k \in BagToSet(todo) : k.op \in Stages /\ todo' = BagRemove(todo, k)
    BY <1>3 DEF RunStage
  <2>2. j # k
    BY <2>1 DEF Stages
  <2>3. j \in BagToSet(todo) => j \in BagToSet(todo')
    BY <2>1, <2>2, BagRemoveJob
  <2> QED BY <1>3, <2>3 DEF RunStage, worker
<1>4. ASSUME NEW w \in Workers, WorkerStep(w), ~(job[w] = j /\ (IngestSucceed(w) \/ IngestReject(w)))
      PROVE  After
  <2>1. CASE Fetch(w)
    <3>1. PICK k \in BagToSet(todo) :
              todo' = BagRemove(todo, k) /\ job' = [job EXCEPT ![w] = k]
      BY <2>1 DEF Fetch
    <3>2. BagToSet(todo) \subseteq BagToSet(todo') \union {k}
      BY <3>1, BagRemoveJob
    <3> QED BY <2>1, <3>1, <3>2 DEF Fetch
  <2>2. CASE Load(w) \/ EmitPart(w) \/ StoreMember(w) \/ IngestSkip(w) \/ IngestRaise(w)
             \/ TaskRaise(w) \/ Close(w) \/ IngestSucceed(w) \/ IngestReject(w)
    BY <1>4, <2>2 DEF Load, EmitPart, StoreMember, IngestSkip, IngestRaise, Raises, TaskRaise,
                      Close, IngestSucceed, IngestReject, rows
  <2>3. CASE QueueMember(w)
    BY <2>3, BagAddJob DEF QueueMember
  <2>4. CASE DeferAnalyze(w) \/ DeferIndex(w)
    BY <2>4, BagAddJob DEF DeferAnalyze, DeferIndex, Defer
  <2>5. CASE Finish(w) \/ Crash(w)
    BY <2>5 DEF Finish, Crash, Discard
  <2>6. CASE Retry(w)
    <3>1. job[w] \in Job /\ job[w].op = "ingest"
      BY <2>6 DEF Retry
    <3> DEFINE again == [job[w] EXCEPT !.attempt = @ + 1]
    <3>2. again.doc = job[w].doc /\ again.op = job[w].op
      BY <3>1 DEF Job
    <3>3. \/ todo' = BagAdd(todo, again) /\ failed' = failed
          \/ todo' = todo /\ failed' = failed \union {job[w]}
      BY <2>6 DEF Retry
    <3> HIDE DEF again
    <3>4. \/ BagToSet(todo') = BagToSet(todo) \union {again} /\ failed' = failed
          \/ todo' = todo /\ failed' = failed \union {job[w]}
      BY <3>3, BagAddJob
    <3> QED BY <2>6, <3>1, <3>2, <3>4 DEF Retry, Discard
  <2> QED BY <1>4, <2>1, <2>2, <2>3, <2>4, <2>5, <2>6 DEF WorkerStep, Step
<1> QED BY <1>1, <1>2, <1>3, <1>4 DEF Next, WorkerStep

(* What a finalize says of the file of its job is what the store has then,  *)
(* and of other files nothing.                                             *)
LEMMA FinalizeTells ==
    ASSUME TypeOK, NEW w \in Workers, job[w] \in Job, WorkerEmits(w), NEW d \in Docs,
           NEW st \in {"success", "failure"}, Finalize(w, st)
    PROVE  status'[d] = IF d = job[w].doc THEN st ELSE status[d]
<1>1. FinalWrites(w, st) \in SUBSET Writes /\ Flush(FinalWrites(w, st)) /\ d \in Entities
  BY FinalizeWrites DEF Finalize, FinalWrites, Entities
<1>2. \A x \in FinalWrites(w, st) : x.entity = d => d = job[w].doc /\ x.status = st
  BY DEF FinalWrites, Put, WorkerEmits
<1>3. Put(job[w].doc, st, job[w].parent) \in FinalWrites(w, st)
  BY DEF FinalWrites
<1>4. Put(job[w].doc, st, job[w].parent).entity = job[w].doc
  BY DEF Put
<1> QED BY <1>1, <1>2, <1>3, <1>4, FlushWrites

(* A failure of a file is recorded by a run of its ingestor that raises. *)
LEMMA FailureIsNew ==
    ASSUME TypeOK, BusyHasJob, [Next]_vars, EmittedIsWritten, NEW d \in Docs \ Fragile,
           status'[d] = "failure", status[d] # "failure"
    PROVE  \E w \in Workers : IngestRaise(w) /\ job[w].doc = d
<1> USE DEF TypeOK, BusyHasJob
<1>1. PICK w \in Workers : WorkerStep(w) /\ ~UNCHANGED store
  BY WorkersStay DEF store
<1>2. WorkerEmits(w) /\ d \in Entities
  BY DEF EmittedIsWritten, Entities
<1>3. CASE IngestSucceed(w) \/ IngestReject(w) \/ IngestRaise(w)
  <2>1. job[w] \in Job
    BY <1>3 DEF IngestSucceed, IngestReject, IngestRaise, Raises
  <2>2. CASE IngestSucceed(w)
    BY <1>2, <2>1, <2>2, FinalizeTells DEF IngestSucceed
  <2>3. CASE IngestReject(w)
    BY <1>2, <2>1, <2>3, FinalizeTells DEF IngestReject
  <2>4. CASE IngestRaise(w)
    BY <1>2, <2>1, <2>4, FinalizeTells DEF IngestRaise
  <2> QED BY <1>3, <2>2, <2>3, <2>4
<1>4. CASE Close(w)
  <2>1. buffer[w] \in SUBSET Writes /\ Flush(buffer[w])
    BY <1>4 DEF Close
  <2>2. \A x \in buffer[w] : x.entity # d
    BY <1>2 DEF WorkerEmits
  <2> QED BY <1>2, <2>1, <2>2, FlushWrites
<1>5. CASE EmitPart(w)
  <2>1. PICK e \in Parts, writes \in SUBSET Writes :
            /\ \A x \in writes : x \in buffer[w] \/ x.entity = e
            /\ UNCHANGED store \/ Flush(writes)
    BY <1>5, EmitWrites
  <2>2. \A x \in writes : x.entity # d
    BY <1>2, <2>1 DEF WorkerEmits
  <2> QED BY <1>1, <1>2, <2>1, <2>2, FlushWrites
<1>6. CASE ~(IngestSucceed(w) \/ IngestReject(w) \/ IngestRaise(w) \/ Close(w) \/ EmitPart(w))
  BY <1>1, <1>6
     DEF WorkerStep, Step, Fetch, Load, StoreMember, QueueMember, IngestSkip,
         TaskRaise, DeferAnalyze, DeferIndex, Finish, Retry, Crash
<1> QED BY <1>3, <1>4, <1>5, <1>6

FailuresAreOwed ==
    \A d \in Docs \ Fragile : status[d] = "failure" => \E j \in Owing : j.doc = d

(* Every step leaves a failure of a healthy file with a job that owes. *)
LEMMA FailuresStep ==
    TypeOK /\ BusyHasJob /\ EmittedIsWritten /\ FailuresAreOwed /\ [Next]_vars => FailuresAreOwed'
<1> SUFFICES ASSUME TypeOK, BusyHasJob, EmittedIsWritten, FailuresAreOwed, [Next]_vars,
                    NEW d \in Docs \ Fragile, status'[d] = "failure"
             PROVE  \E j \in Owing' : j.doc = d
  BY DEF FailuresAreOwed
<1>1. CASE status[d] = "failure"
  <2>1. PICK j \in Owing : j.doc = d
    BY <1>1 DEF FailuresAreOwed
  <2>2. d \in archive
    BY <1>1 DEF EmittedIsWritten
  <2>3. ASSUME NEW w \in Workers, job[w] = j, IngestSucceed(w)
        PROVE  FALSE
    <3>1. job[w] \in Job /\ WorkerEmits(w) /\ Finalize(w, "success")
      BY <2>3 DEF IngestSucceed, BusyHasJob, EmittedIsWritten
    <3> QED BY <2>1, <2>3, <3>1, FinalizeTells
  <2>4. ASSUME NEW w \in Workers, job[w] = j, IngestReject(w)
        PROVE  FALSE
    BY <2>1, <2>4 DEF IngestReject
  <2> QED BY <2>1, <2>2, <2>3, <2>4, OwingStays
<1>2. CASE status[d] # "failure"
  <2>1. PICK w \in Workers : IngestRaise(w) /\ job[w].doc = d
    BY <1>2, FailureIsNew
  <2> QED BY <2>1 DEF IngestRaise, Raises, Owing, Early, Goto, TypeOK, BusyHasJob
<1> QED BY <1>1, <1>2

(* A failure recorded for a file whose ingestor never rejects it is not the *)
(* last word: the job that recorded it, or another of that file, is to run  *)
(* again, or is reported as failed (manager.py:293-296).                    *)
THEOREM FailureRetried == Spec => []FailureOwesRetry
<1>1. Init => FailuresAreOwed
  BY DEF Init, FailuresAreOwed, Entities
<1>2. TypeOK /\ BusyHasJob /\ FailuresAreOwed => FailureOwesRetry
  BY DEF FailuresAreOwed, FailureOwesRetry, Owing, Early, Unfinished, Running
<1> QED BY <1>1, <1>2, FailuresStep, EmittedInv, TypeCorrect, PTL DEF Spec

-----------------------------------------------------------------------------
(* What is stored is handed over *)

(* Parts of files whose ingestor raises now here, now there. *)
Abandoned == UNION {Contents[d] \intersect Parts : d \in Fragile}

(* Who will hand over an entity that is stored: a job whose ingestor will   *)
(* emit it, or a worker that has emitted it.                               *)
Owed(e) ==
    \/ \E b \in Batches : <<"index", e, b>> \in deferred
    \/ \E j \in Owing : j.doc \in archive /\ e \in Emittable(j.doc)
    \/ \E w \in Workers : pc[w] \in Late /\ e \in emitted[w]

StoredIsOwed == \A e \in Entities \ Abandoned : status[e] # "absent" => Owed(e)

(* Of what the ingestor has returned from, or rejected, nothing is lost but *)
(* the parts of a file that was rejected.                                   *)
LEMMA OutcomeOwed ==
    ASSUME TypeOK, BusyHasJob, EmittedIsWritten, NEW w \in Workers,
           IngestSucceed(w) \/ IngestReject(w),
           NEW e \in Emittable(job[w].doc) \ Abandoned
    PROVE  Owed(e)'
<1> USE DEF TypeOK, BusyHasJob, Goto, Steps
<1>1. pc'[w] \in Late /\ emitted'[w] = emitted[w] \union {job[w].doc}
  BY DEF IngestSucceed, IngestReject, Finalize, Late
<1>2. e \in emitted'[w]
  <2>1. CASE IngestSucceed(w)
    BY <1>1, <2>1 DEF IngestSucceed, EmittedIsWritten, WorkerEmits, Emittable
  <2>2. CASE IngestReject(w)
    BY <1>1, <2>2 DEF IngestReject, Abandoned, Emittable
  <2> QED BY <2>1, <2>2
<1> QED BY <1>1, <1>2 DEF Owed

(* What a worker has emitted, it hands over, or its job is run again. *)
LEMMA LateOwed ==
    ASSUME TypeOK, BusyHasJob, EmittedIsWritten, [Next]_vars, NEW w \in Workers, WorkerStep(w),
           pc[w] \in Late, NEW e \in emitted[w]
    PROVE  Owed(e)'
<1> USE DEF TypeOK, BusyHasJob, Goto, Steps, Late
<1>1. job[w] \in Job /\ job[w].op = "ingest" /\ job[w].doc \in archive /\ e \in Emittable(job[w].doc)
  BY DEF EmittedIsWritten, WorkerEmits
<1>2. archive \subseteq archive'
  BY NothingIsLost
<1>3. CASE Close(w) \/ DeferAnalyze(w)
  BY <1>3 DEF Close, DeferAnalyze, Owed
<1>4. CASE DeferIndex(w)
  <2>1. <<"index", e, job[w].batch>> \in deferred' /\ job[w].batch \in Batches
    BY <1>1, <1>4 DEF DeferIndex, Defer, Job
  <2> QED BY <2>1 DEF Owed
<1>5. CASE TaskRaise(w) \/ Crash(w)
  <2>1. job[w] \in Owing'
    BY <1>1, <1>5 DEF TaskRaise, Crash, Owing, Early, rows
  <2> QED BY <1>1, <1>2, <2>1 DEF Owed
<1>6. CASE ~(Close(w) \/ DeferAnalyze(w) \/ DeferIndex(w) \/ TaskRaise(w) \/ Crash(w))
  BY <1>6 DEF WorkerStep, Step, Fetch, Load, EmitPart, StoreMember, QueueMember, IngestSucceed,
              IngestReject, IngestSkip, IngestRaise, Raises, Finish, Retry
<1> QED BY <1>3, <1>4, <1>5, <1>6

(* What is owed stays owed, by the job, its next attempt, or index. *)
LEMMA OwedStays ==
    ASSUME TypeOK, BusyHasJob, EmittedIsWritten, [Next]_vars,
           NEW e \in Entities \ Abandoned, Owed(e)
    PROVE  Owed(e)'
<1>1. archive \subseteq archive' /\ deferred \subseteq deferred'
  BY NothingIsLost
<1>2. CASE \E b \in Batches : <<"index", e, b>> \in deferred
  BY <1>1, <1>2 DEF Owed
<1>3. ASSUME NEW j \in Owing, j.doc \in archive, e \in Emittable(j.doc)
      PROVE  Owed(e)'
  <2>1. CASE \E i \in Owing' : i.doc = j.doc
    BY <1>1, <1>3, <2>1 DEF Owed
  <2>2. CASE \E w \in Workers : job[w] = j /\ (IngestSucceed(w) \/ IngestReject(w))
    BY <1>3, <2>2, OutcomeOwed
  <2> QED BY <1>3, <2>1, <2>2, OwingStays
<1>4. ASSUME NEW w \in Workers, pc[w] \in Late, e \in emitted[w]
      PROVE  Owed(e)'
  <2>1. CASE WorkerStep(w)
    BY <1>4, <2>1, LateOwed
  <2>2. CASE \E v \in Workers \ {w} : WorkerStep(v)
    BY <1>4, <2>2, OthersStay DEF Owed
  <2>3. CASE ~\E v \in Workers : WorkerStep(v)
    BY <1>4, <2>3, WorkersStay DEF Owed, worker
  <2> QED BY <2>1, <2>2, <2>3
<1> QED BY <1>2, <1>3, <1>4 DEF Owed

(* What is stored for the first time is owed by the worker that wrote it. *)
LEMMA StoredAnew ==
    ASSUME TypeOK, BusyHasJob, EmittedIsWritten, [Next]_vars,
           NEW e \in Entities \ Abandoned, status[e] = "absent", status'[e] # "absent"
    PROVE  Owed(e)'
<1> USE DEF TypeOK, BusyHasJob
<1>1. PICK w \in Workers : WorkerStep(w) /\ ~UNCHANGED store
  BY WorkersStay DEF store
<1>2. WorkerEmits(w) /\ archive \subseteq archive'
  BY NothingIsLost DEF EmittedIsWritten
<1>3. CASE IngestSucceed(w) \/ IngestReject(w) \/ IngestRaise(w)
  <2>1. PICK st \in {"success", "failure"} : Finalize(w, st)
    BY <1>3 DEF IngestSucceed, IngestReject, IngestRaise
  <2>2. job[w] \in Job /\ job[w].op = "ingest" /\ pc[w] \in {"ingest", "queue"}
    BY <1>3 DEF IngestSucceed, IngestReject, IngestRaise, Raises
  <2>3. FinalWrites(w, st) \in SUBSET Writes /\ Flush(FinalWrites(w, st))
    BY <2>1, <2>2, FinalizeWrites DEF Finalize, FinalWrites
  <2>4. \E x \in FinalWrites(w, st) : x.entity = e
    BY <2>3, FlushWrites
  <2>5. e \in emitted[w] \union {job[w].doc}
    BY <1>2, <2>4 DEF FinalWrites, Put, WorkerEmits
  <2>6. e \in Emittable(job[w].doc) /\ job[w].doc \in archive
    BY <1>2, <2>2, <2>5 DEF WorkerEmits, Emittable
  <2>7. CASE IngestSucceed(w) \/ IngestReject(w)
    BY <2>6, <2>7, OutcomeOwed
  <2>8. CASE IngestRaise(w)
    <3>1. job[w] \in Owing'
      BY <2>2, <2>8 DEF IngestRaise, Owing, Early, Goto
    <3> QED BY <1>2, <2>6, <3>1 DEF Owed
  <2> QED BY <1>3, <2>7, <2>8
<1>4. CASE Close(w)
  <2>1. buffer[w] \in SUBSET Writes /\ Flush(buffer[w])
    BY <1>4 DEF Close
  <2>2. \E x \in buffer[w] : x.entity = e
    BY <2>1, FlushWrites
  <2>3. e \in emitted[w]
    BY <1>2, <2>2 DEF WorkerEmits
  <2> QED BY <1>1, <1>4, <2>3, LateOwed DEF Close, Late
<1>5. CASE EmitPart(w)
  <2>1. PICK p \in Parts, writes \in SUBSET Writes :
            /\ p \in Contents[job[w].doc]
            /\ \A x \in writes : x \in buffer[w] \/ x.entity = p
            /\ UNCHANGED store \/ Flush(writes)
    BY <1>5, EmitWrites
  <2>2. \E x \in writes : x.entity = e
    BY <1>1, <2>1, FlushWrites
  <2>3. e \in emitted[w] \/ e = p
    BY <1>2, <2>1, <2>2 DEF WorkerEmits
  <2>4. pc[w] = "ingest" /\ job[w].op = "ingest" /\ job[w].doc \in archive
    BY <1>2, <1>5 DEF EmitPart, WorkerEmits
  <2>5. e \in Emittable(job[w].doc)
    BY <1>2, <2>1, <2>3 DEF WorkerEmits, Emittable
  <2>6. job[w] \in Owing'
    BY <1>5, <2>4 DEF EmitPart, Owing, Early
  <2>7. job'[w] = job[w]
    BY <1>5 DEF EmitPart
  <2> QED BY <1>2, <2>4, <2>5, <2>6 DEF Owed
<1>6. CASE ~(IngestSucceed(w) \/ IngestReject(w) \/ IngestRaise(w) \/ Close(w) \/ EmitPart(w))
  BY <1>1, <1>6
     DEF WorkerStep, Step, Fetch, Load, StoreMember, QueueMember, IngestSkip,
         TaskRaise, DeferAnalyze, DeferIndex, Finish, Retry, Crash
<1> QED BY <1>3, <1>4, <1>5, <1>6

(* What reached the store is handed to index, unless a job that emits it    *)
(* has not ended or has failed: a retry hands over what the attempt before  *)
(* it wrote and did not defer (tasks.py:63-82).                             *)
THEOREM StoredHandedOver == Spec => []StoredIsHandedOver
<1>1. Init => StoredIsOwed
  BY DEF Init, StoredIsOwed
<1>2. TypeOK /\ BusyHasJob /\ EmittedIsWritten /\ StoredIsOwed /\ [Next]_vars => StoredIsOwed'
  BY OwedStays, StoredAnew DEF StoredIsOwed
<1>3. TypeOK /\ BusyHasJob /\ EmittedIsWritten /\ StoredIsOwed => StoredIsHandedOver
  <2> SUFFICES ASSUME TypeOK, BusyHasJob, EmittedIsWritten,
                      NEW e \in Entities \ Abandoned, Owed(e)
               PROVE  \/ \E b \in Batches : <<"index", e, b>> \in deferred
                      \/ \E j \in Unfinished \union failed :
                            j.op = "ingest" /\ e \in {j.doc} \union (Contents[j.doc] \intersect Parts)
    BY DEF StoredIsOwed, StoredIsHandedOver, Abandoned
  <2>1. Owing \subseteq Unfinished \union failed /\ \A j \in Owing : j.op = "ingest"
    BY DEF Owing, Early, Unfinished, Running
  <2>2. ASSUME NEW w \in Workers, pc[w] \in Late, e \in emitted[w]
        PROVE  job[w] \in Unfinished /\ job[w].op = "ingest" /\ e \in Emittable(job[w].doc)
    BY <2>2 DEF Late, BusyHasJob, EmittedIsWritten, WorkerEmits, Unfinished, Running
  <2> QED BY <2>1, <2>2 DEF Owed, Emittable
<1> QED BY <1>1, <1>2, <1>3, EmittedInv, TypeCorrect, PTL DEF Spec

-----------------------------------------------------------------------------
(* What a batch promises *)

(* What the pipeline is to whoever waits for a batch. *)
Ongoing == {WorkOf(j) : j \in Unfinished}
Ended == {WorkOf(j) : j \in succeeded \union failed}
Open == {u \in Uploads : up[u] \in {"new", "stored"}}
Answered == {u \in Uploads : up[u] = "returned"}

(* Work that is accounted for goes on or has ended. *)
LEMMA AccountsAreWork ==
    ASSUME NEW d, NEW p, NEW b, <<d, p, b>> \in Accounts
    PROVE  Promise!Work("ingest", d, p, b) \in Ongoing \union Ended
<1>1. PICK j \in Held : j.doc = d /\ j.parent = p /\ j.batch = b
  BY DEF Accounts
<1>2. WorkOf(j) = Promise!Work("ingest", d, p, b)
  BY <1>1 DEF WorkOf, Promise!Work, Held
<1> QED BY <1>2 DEF Ongoing, Ended, Held

(* The steps of a worker that neither find nor hand on nor end anything. *)
LEMMA QuietSteps ==
    ASSUME TypeOK, BusyHasJob, NEW w \in Workers,
           \/ Fetch(w) \/ Load(w) \/ EmitPart(w) \/ StoreMember(w) \/ IngestSucceed(w)
           \/ IngestReject(w) \/ IngestSkip(w) \/ IngestRaise(w) \/ TaskRaise(w)
           \/ Close(w) \/ Crash(w)
    PROVE  Unfinished' = Unfinished /\ UNCHANGED <<up, succeeded, failed, deferred>>
<1> USE DEF Unfinished, Running, TypeOK, BusyHasJob, Goto, Steps
<1>1. CASE Fetch(w)
  <2>1. PICK k \in BagToSet(todo) :
            todo' = BagRemove(todo, k) /\ job' = [job EXCEPT ![w] = k]
    BY <1>1 DEF Fetch
  <2>2. /\ BagToSet(todo') \subseteq BagToSet(todo)
        /\ BagToSet(todo) \subseteq BagToSet(todo') \union {k}
    BY <2>1, BagRemoveJob
  <2>3. pc[w] = "idle" /\ pc' = [pc EXCEPT ![w] = "load"] /\ stalled' = stalled
    BY <1>1 DEF Fetch
  <2>4. {job'[v] : v \in Running'} = {job[v] : v \in Running} \union {k}
    BY <2>1, <2>3
  <2>5. Unfinished' = Unfinished
    BY <2>2, <2>3, <2>4, <2>1
  <2> QED BY <1>1, <2>5 DEF Fetch, clients
<1>2. CASE Crash(w)
  <2>1. /\ pc[w] # "idle" /\ stalled' = stalled \union {job[w]} /\ todo' = todo
        /\ pc' = [pc EXCEPT ![w] = "idle"] /\ job' = [job EXCEPT ![w] = NoJob]
    BY <1>2 DEF Crash, Discard
  <2>2. {job'[v] : v \in Running'} \union {job[w]} = {job[v] : v \in Running}
    BY <2>1
  <2>3. Unfinished' = Unfinished
    BY <2>1, <2>2
  <2> QED BY <1>2, <2>3 DEF Crash, clients
<1>3. CASE Load(w) \/ EmitPart(w) \/ StoreMember(w) \/ IngestSucceed(w)
           \/ IngestReject(w) \/ IngestSkip(w) \/ IngestRaise(w) \/ TaskRaise(w) \/ Close(w)
  <2>1. UNCHANGED <<todo, stalled, job, up, succeeded, failed, deferred>>
    BY <1>3 DEF Load, EmitPart, StoreMember, IngestSucceed, IngestReject, IngestSkip,
                IngestRaise, TaskRaise, Close, rows, clients
  <2>2. Running' = Running
    BY <1>3 DEF Load, EmitPart, StoreMember, IngestSucceed, IngestReject, IngestSkip,
                IngestRaise, Raises, TaskRaise, Close
  <2> QED BY <2>1, <2>2
<1> QED BY <1>1, <1>2, <1>3

(* The end of a job takes nothing but that job from the unfinished ones. *)
LEMMA JobEnds ==
    ASSUME TypeOK, BusyHasJob, NEW w \in Workers, pc[w] # "idle", Discard(w),
           stalled' = stalled, BagToSet(todo) \subseteq BagToSet(todo')
    PROVE  Unfinished' \union {job[w]} = Unfinished \union BagToSet(todo')
<1>1. pc' = [pc EXCEPT ![w] = "idle"] /\ job' = [job EXCEPT ![w] = NoJob]
  BY DEF Discard
<1>2. {job'[v] : v \in Running'} \union {job[w]} = {job[v] : v \in Running}
  BY <1>1 DEF TypeOK, Running, Steps
<1> QED BY <1>2 DEF Unfinished

(* A job that is deferred joins the unfinished ones. *)
LEMMA JobJoins ==
    ASSUME TypeOK, NEW j, todo' = BagAdd(todo, j), Running' = Running, UNCHANGED <<stalled, job>>
    PROVE  Unfinished' = Unfinished \union {j}
BY BagAddJob DEF Unfinished, TypeOK

(* A client step is a request, an answer, a refusal, or nothing to a batch. *)
LEMMA UploadKeepsPromise ==
    ASSUME TypeOK, MembersAccounted, NEW u \in Uploads, Upload(u) \/ UploadFail(u)
    PROVE  [Promise!Next]_(Promise!vars)
<1>1. UNCHANGED <<pc, job, succeeded, failed, stalled, deferred>> /\ Ended' = Ended
  BY DEF Upload, UploadStore, UploadQueue, UploadClose, UploadFail, rows, worker, Ended
<1>2. CASE UploadQueue(u)
  <2> DEFINE j == NewJob("ingest", u.doc, NoParent, u.batch, u.context)
  <2>1. todo' = BagAdd(todo, j) /\ up' = [up EXCEPT ![u] = "queued"] /\ up[u] \in {"new", "stored"}
    BY <1>2 DEF UploadQueue
  <2>2. WorkOf(j) = Promise!Asked(u)
    BY DEF WorkOf, NewJob, Promise!Asked, Promise!Work
  <2> HIDE DEF j
  <2>3. Unfinished' = Unfinished \union {j}
    BY <1>1, <2>1, JobJoins DEF Running
  <2>4. Ongoing' = Ongoing \union {Promise!Asked(u)}
    BY <2>2, <2>3 DEF Ongoing
  <2>5. u \in Open /\ Open' = Open \ {u} /\ Answered' = Answered
    BY <2>1 DEF TypeOK, Open, Answered
  <2>6. Promise!Request
    BY <1>1, <2>4, <2>5 DEF Promise!Request, Ongoing, Ended, Open, Answered
  <2> QED BY <2>6 DEF Promise!Next
<1>3. CASE ~UploadQueue(u)
  <2>1. Ongoing' = Ongoing
    BY <1>1, <1>3 DEF Upload, UploadStore, UploadClose, UploadFail, rows, Ongoing, Unfinished, Running
  <2>2. CASE UploadStore(u)
    <3>1. Open' = Open /\ Answered' = Answered
      BY <2>2 DEF UploadStore, TypeOK, Open, Answered
    <3> QED BY <1>1, <2>1, <3>1 DEF Promise!vars, Ongoing, Ended, Open, Answered
  <2>3. CASE UploadClose(u)
    <3>1. u \notin Open /\ Open' = Open /\ Answered' = Answered \union {u}
      BY <2>3 DEF UploadClose, TypeOK, Open, Answered
    <3>2. <<u.doc, NoParent, u.batch>> \in Accounts
      BY <2>3 DEF UploadClose, MembersAccounted, UploadsAccounted
    <3>3. Promise!Asked(u) \in Ongoing \union Ended
      BY <3>2, AccountsAreWork DEF Promise!Asked
    <3>4. Promise!Answer
      BY <1>1, <2>1, <3>1, <3>3 DEF Promise!Answer, Ongoing, Ended, Open, Answered
    <3> QED BY <3>4 DEF Promise!Next
  <2>4. CASE UploadFail(u)
    <3>1. Answered' = Answered /\ Open' = Open \ {u}
      BY <2>4 DEF UploadFail, TypeOK, Open, Answered
    <3>2. CASE u \in Open
      <4>1. Promise!Refuse
        BY <1>1, <2>1, <3>1, <3>2 DEF Promise!Refuse, Ongoing, Ended, Open, Answered
      <4> QED BY <4>1 DEF Promise!Next
    <3>3. CASE u \notin Open
      BY <1>1, <2>1, <3>1, <3>3 DEF Promise!vars, Ongoing, Ended, Open, Answered
    <3> QED BY <3>2, <3>3
  <2> QED BY <1>3, <2>2, <2>3, <2>4 DEF Upload
<1> QED BY <1>2, <1>3

(* A member that is queued was found inside of work of its batch. *)
LEMMA QueueFinds ==
    ASSUME TypeOK, BusyHasJob, NEW w \in Workers, QueueMember(w)
    PROVE  Promise!Next
<1> DEFINE j == ChildJob(job[w], member[w])
           work == WorkOf(job[w])
<1>1. pc[w] = "queue" /\ todo' = BagAdd(todo, j) /\ pc' = [pc EXCEPT ![w] = "ingest"]
  BY DEF QueueMember, Goto
<1>2. UNCHANGED <<up, succeeded, failed, stalled, deferred, job>>
  BY DEF QueueMember, clients
<1>3. Running' = Running /\ w \in Running
  BY <1>1 DEF TypeOK, Running, Steps
<1>4. Unfinished' = Unfinished \union {j}
  BY <1>1, <1>2, <1>3, JobJoins
<1>5. member[w] \in Contents[job[w].doc] \intersect Docs /\ job[w].op = "ingest"
  BY <1>1 DEF BusyHasJob, Members
<1>6. work.op = "ingest" /\ work \in Ongoing
  BY <1>3, <1>5 DEF WorkOf, Ongoing, Unfinished
<1>7. WorkOf(j) \in Promise!Inside(work)
  BY <1>5 DEF WorkOf, ChildJob, NewJob, Promise!Inside, Promise!Work
<1> HIDE DEF j, work
<1>8. Ongoing' = Ongoing \union {WorkOf(j)}
  BY <1>4 DEF Ongoing
<1>9. Promise!Find
  BY <1>2, <1>6, <1>7, <1>8 DEF Promise!Find, Ongoing
<1> QED BY <1>9 DEF Promise!Next

(* What is deferred to a stage is the file, or is in it, and if the file    *)
(* then all that was found inside of it is in the batch.                    *)
LEMMA DeferHandsOn ==
    ASSUME TypeOK, BusyHasJob, NEW w \in Workers, WorkerAccounted(w), WorkerEmits(w),
           pc[w] \in {"analyze", "index"}, NEW stage \in Stages, NEW given \in SUBSET emitted[w],
           Defer(w, stage, given), Running' = Running,
           UNCHANGED <<up, succeeded, failed, stalled, job>>
    PROVE  Promise!Next
<1> DEFINE j == StageJob(job[w], stage)
           work == WorkOf(job[w])
<1>1. todo' = BagAdd(todo, j)
  BY DEF Defer
<1>2. Unfinished' = Unfinished \union {j}
  BY <1>1, JobJoins
<1>3. job[w].op = "ingest" /\ job[w] \in Unfinished
  BY DEF BusyHasJob, Unfinished, Running
<1>4. /\ work \in Ongoing /\ work.op = "ingest"
      /\ work.doc = job[w].doc /\ work.parent = job[w].parent /\ work.batch = job[w].batch
  BY <1>3 DEF WorkOf, Ongoing
<1>5. given \in SUBSET ({work.doc} \union (Contents[work.doc] \intersect Parts))
  BY <1>4 DEF WorkerEmits, Emittable
<1>6. work.doc \in given \ Partial => Promise!Inside(work) \subseteq Ongoing \union Ended
  <2> SUFFICES ASSUME work.doc \in given \ Partial, NEW i \in Promise!Inside(work)
               PROVE  i \in Ongoing \union Ended
    OBVIOUS
  <2>1. PICK c \in Contents[job[w].doc] \intersect Docs :
            i = Promise!Work("ingest", c, job[w].doc, job[w].batch)
    BY <1>4 DEF Promise!Inside
  <2>2. <<c, job[w].doc, job[w].batch>> \in Accounts
    BY <1>4 DEF WorkerAccounted, Members
  <2> QED BY <2>1, <2>2, AccountsAreWork
<1>7. WorkOf(j) = Promise!Work(stage, work.doc, work.parent, work.batch)
  BY <1>4 DEF WorkOf, StageJob, NewJob, Promise!Work
<1>8. deferred' = deferred \union {<<stage, e, work.batch>> : e \in given}
  BY <1>4 DEF Defer
<1> HIDE DEF j, work
<1>9. Ongoing' = Ongoing \union {Promise!Work(stage, work.doc, work.parent, work.batch)}
  BY <1>2, <1>7 DEF Ongoing
<1>10. stage \in Promise!Stages
  BY DEF Stages, Promise!Stages
<1>11. Promise!HandOn
  <2>1. work.doc \in given \ (Fragile \union Lenient) => Promise!Inside(work) \subseteq Ongoing \union Ended
    BY <1>6 DEF Partial
  <2> QED BY <1>4, <1>5, <1>8, <1>9, <1>10, <2>1 DEF Promise!HandOn, Ongoing, Ended
<1> QED BY <1>11 DEF Promise!Next

(* The end of a job is the end of its work, or of one of several like it. *)
LEMMA EndIsPromised ==
    ASSUME NEW j \in Unfinished, Unfinished' \subseteq Unfinished, Unfinished \subseteq Unfinished' \union {j},
           Ended' = IF j.op = "ingest" THEN Ended \union {WorkOf(j)} ELSE Ended,
           UNCHANGED <<up, deferred>>
    PROVE  Promise!Next
<1>1. WorkOf(j) \in Ongoing /\ WorkOf(j).op = j.op
  BY DEF Ongoing, WorkOf
<1>2. Ongoing' \in {Ongoing, Ongoing \ {WorkOf(j)}}
  <2>1. Ongoing' \subseteq Ongoing /\ Ongoing \subseteq Ongoing' \union {WorkOf(j)}
    BY DEF Ongoing
  <2> QED BY <2>1
<1>3. Promise!End
  BY <1>1, <1>2 DEF Promise!End, Ongoing, Ended
<1> QED BY <1>3 DEF Promise!Next

(* A job that finished, or is given up, ends; one that is retried does not. *)
LEMMA WorkerEnds ==
    ASSUME TypeOK, BusyHasJob, NEW w \in Workers, Finish(w) \/ Retry(w)
    PROVE  [Promise!Next]_(Promise!vars)
<1> DEFINE more == job[w].attempt < Retries
<1>1. /\ pc[w] # "idle" /\ Discard(w) /\ stalled' = stalled /\ UNCHANGED <<up, deferred>>
      /\ job[w] \in Job /\ job[w].op = "ingest" /\ job[w] \in Unfinished
  BY DEF Finish, Retry, BusyHasJob, Unfinished, Running, clients
<1>2. CASE Finish(w) \/ (Retry(w) /\ ~more)
  <2>0. todo' = todo
    BY <1>2 DEF Finish, Retry
  <2>1. Unfinished' \union {job[w]} = Unfinished \union BagToSet(todo)
    BY <1>1, <2>0, JobEnds
  <2>2. Unfinished' \subseteq Unfinished /\ Unfinished \subseteq Unfinished' \union {job[w]}
    BY <2>1 DEF Unfinished
  <2>3. (succeeded \union failed)' = succeeded \union failed \union {job[w]}
    BY <1>2 DEF Finish, Retry
  <2>4. Ended' = Ended \union {WorkOf(job[w])}
    BY <2>3 DEF Ended
  <2> QED BY <1>1, <2>2, <2>4, EndIsPromised
<1>3. CASE Retry(w) /\ more
  <2> DEFINE again == [job[w] EXCEPT !.attempt = @ + 1]
  <2>1. todo' = BagAdd(todo, again) /\ failed' = failed /\ succeeded' = succeeded
    BY <1>3 DEF Retry
  <2>2. WorkOf(again) = WorkOf(job[w])
    BY <1>1 DEF WorkOf, Job
  <2> HIDE DEF again
  <2>3. BagToSet(todo') = BagToSet(todo) \union {again}
    BY <2>1, BagAddJob DEF TypeOK
  <2>4. Unfinished' \union {job[w]} = Unfinished \union {again}
    BY <1>1, <2>3, JobEnds DEF Unfinished
  <2>5. again \in Unfinished'
    BY <2>3 DEF Unfinished
  <2>6. Ongoing' = Ongoing
    BY <1>1, <2>2, <2>4, <2>5 DEF Ongoing
  <2> QED BY <1>1, <2>1, <2>6 DEF Promise!vars, Ongoing
<1> HIDE DEF more
<1> QED BY <1>2, <1>3

(* Every step of the pipeline is one the batch promises, or none to it. *)
LEMMA PromiseStep ==
    TypeOK /\ BusyHasJob /\ MembersAccounted /\ EmittedIsWritten /\ [Next]_vars
        => [Promise!Next]_(Promise!vars)
<1> SUFFICES ASSUME TypeOK, BusyHasJob, MembersAccounted, EmittedIsWritten, [Next]_vars
             PROVE  [Promise!Next]_(Promise!vars)
  OBVIOUS
<1>1. ASSUME Unfinished' = Unfinished, UNCHANGED <<up, succeeded, failed, deferred>>
      PROVE  UNCHANGED Promise!vars
  BY <1>1 DEF Promise!vars
<1>2. CASE UNCHANGED vars
  <2>1. Unfinished' = Unfinished /\ UNCHANGED <<up, succeeded, failed, deferred>>
    BY <1>2 DEF vars, clients, rows, worker, Unfinished, Running
  <2> QED BY <1>1, <2>1
<1>3. CASE RunStage
  <2>1. PICK j \in BagToSet(todo) : j.op \in Stages /\ todo' = BagRemove(todo, j)
    BY <1>3 DEF RunStage
  <2>2. UNCHANGED <<up, succeeded, failed, stalled, deferred, pc, job>> /\ j.op # "ingest"
    BY <1>3, <2>1 DEF RunStage, clients, worker, Stages
  <2>3. /\ BagToSet(todo') \subseteq BagToSet(todo)
        /\ BagToSet(todo) \subseteq BagToSet(todo') \union {j}
    BY <2>1, BagRemoveJob DEF TypeOK
  <2>4. /\ j \in Unfinished /\ Unfinished' \subseteq Unfinished
        /\ Unfinished \subseteq Unfinished' \union {j}
    BY <2>2, <2>3 DEF Unfinished, Running
  <2>5. Ended' = Ended
    BY <2>2 DEF Ended
  <2> QED BY <2>2, <2>4, <2>5, EndIsPromised
<1>4. ASSUME NEW w \in Workers, WorkerStep(w)
      PROVE  [Promise!Next]_(Promise!vars)
  <2>1. WorkerAccounted(w) /\ WorkerEmits(w)
    BY DEF MembersAccounted, EmittedIsWritten
  <2>2. CASE QueueMember(w)
    BY <2>2, QueueFinds
  <2>3. CASE Finish(w) \/ Retry(w)
    BY <2>3, WorkerEnds
  <2>4. CASE DeferAnalyze(w) \/ DeferIndex(w)
    <3>1. Running' = Running /\ pc[w] \in {"analyze", "index"}
      BY <2>4 DEF DeferAnalyze, DeferIndex, Goto, Running, TypeOK, Steps
    <3>2. UNCHANGED <<up, succeeded, failed, stalled, job>>
      BY <2>4 DEF DeferAnalyze, DeferIndex, clients
    <3>3. CASE DeferAnalyze(w) /\ ToAnalyze(w) = {}
      <4>1. Unfinished' = Unfinished /\ UNCHANGED deferred
        BY <3>1, <3>2, <3>3 DEF DeferAnalyze, Unfinished
      <4> QED BY <1>1, <3>2, <4>1
    <3>4. CASE ~(DeferAnalyze(w) /\ ToAnalyze(w) = {})
      <4>1. \E stage \in Stages, given \in SUBSET emitted[w] : Defer(w, stage, given)
        BY <2>4, <3>4 DEF DeferAnalyze, DeferIndex, ToAnalyze, Stages
      <4> QED BY <2>1, <3>1, <3>2, <4>1, DeferHandsOn
    <3> QED BY <3>3, <3>4
  <2>5. CASE ~QueueMember(w) /\ ~Finish(w) /\ ~Retry(w) /\ ~DeferAnalyze(w) /\ ~DeferIndex(w)
    <3>1. Unfinished' = Unfinished /\ UNCHANGED <<up, succeeded, failed, deferred>>
      BY <1>4, <2>5, QuietSteps DEF WorkerStep, Step
    <3> QED BY <1>1, <3>1
  <2> QED BY <2>2, <2>3, <2>4, <2>5
<1> QED BY <1>2, <1>3, <1>4, UploadKeepsPromise DEF Next, WorkerStep

(* Initially every request is open and there is no work. *)
LEMMA PromiseInit == Init => Promise!Init
<1> SUFFICES ASSUME Init PROVE Promise!Init
  OBVIOUS
<1>1. BagToSet(todo) = {} /\ Running = {}
  BY NoJobs DEF Init, Running
<1>2. Unfinished = {}
  BY <1>1 DEF Init, Unfinished
<1> QED BY <1>2 DEF Init, Promise!Init

(* To whoever waits for a batch, its work comes from requests to it and     *)
(* from unfinished work of the same batch, and a file is handed on once the *)
(* jobs of its members are in the batch, for any number of workers that     *)
(* share the jobs, raise and are killed (tasks.py:53-84, api.py:78).        *)
THEOREM BatchKept == Spec => KeepsPromise
<1>1. Init => MembersAccounted
  BY DEF Init, MembersAccounted, UploadsAccounted, WorkerAccounted, IndexedAccounted
<1> QED BY <1>1, PromiseInit, PromiseStep, NextKeepsAccounts, TypeCorrect, EmittedInv, PTL
     DEF Spec, KeepsPromise, Promise!Spec

=============================================================================
