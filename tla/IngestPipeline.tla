--------------------------- MODULE IngestPipeline ---------------------------
(***************************************************************************)
(* The ingest pipeline: clients hand files to `ingest_path` (or existing   *)
(* entities to `ingest_entity`), procrastinate keeps the jobs, and workers *)
(* run the `ingest` task of tasks.py over them, each with a `Manager` of   *)
(* its own.  A worker loads the file, lets an ingestor emit the entities   *)
(* it finds and queue the files inside it, writes its entities to the      *)
(* fragment store, and hands what it emitted to `analyze` and `index`.     *)
(*                                                                         *)
(* The archive, the job table and the fragment store outlive a worker; its *)
(* buffered writes and its memory store of emitted entities do not.        *)
(***************************************************************************)
EXTENDS Naturals, FiniteSets, Bags, BagsExt

CONSTANTS
    Docs,        \* files, by content: each is a Document entity of its own
    Parts,       \* entities an ingestor emits beside the file's own (pages, rows)
    Contents,    \* the parts and the embedded files of each file
    Irregular,   \* members that are no regular files where they are found
    Fragile,     \* files whose ingestor may raise a ProcessingException
    Lenient,     \* files whose ingestor passes over a member that raises
    Analyzable,  \* entities whose schema is Analyzable, not in SKIP_ANALYSIS
    Batches,     \* batch names, the absent one of the cli included
    Uploads,     \* the requests clients make, records of UploadType
    Workers,     \* worker threads, one job at a time each
    Retries,     \* defer.tasks.ingest.retries
    MaxFaults,   \* bound on unexpected exceptions
    MaxCrashes,  \* bound on killed workers
    NoParent,    \* the parent of a file nothing contains
    NoJob        \* what an idle worker runs

Entities == Docs \union Parts
Contexts == {"analyze", "skip_analyze"}
Stages == {"analyze", "index"}
UploadType == [kind: {"file", "entity"}, doc: Docs, batch: Batches, context: Contexts]

ASSUME PipelineAssumption ==
    /\ Docs \intersect Parts = {}
    /\ NoParent \notin Docs
    /\ Contents \in [Docs -> SUBSET Entities]
    /\ Fragile \subseteq Docs /\ Lenient \subseteq Docs /\ Irregular \subseteq Docs
    /\ Analyzable \subseteq Entities
    /\ Uploads \subseteq {u \in UploadType : u.doc \notin Irregular}
    /\ Retries \in Nat
    /\ MaxFaults \in Nat
    /\ MaxCrashes \in Nat

Job == [op: {"ingest"} \union Stages, doc: Docs, parent: Docs \union {NoParent},
        batch: Batches, context: Contexts, attempt: 0..Retries]

ASSUME NoJobAssumption == NoJob \notin Job

VARIABLES
    up,         \* how far each client request got
    recorded,   \* files recorded in the store under the crawl origin
    archive,    \* files whose bytes are in the archive
    todo,       \* procrastinate: the jobs to run, a bag
    succeeded,  \* procrastinate: the ingest jobs that finished
    failed,     \* procrastinate: the ingest jobs that ran out of retries
    stalled,    \* procrastinate: jobs "doing" whose worker was killed
    deferred,   \* what the analyze and index jobs ever deferred were given
    status,     \* store: processingStatus of an entity's own fragment
    placed,     \* store: placement fragments, pairs of a file and its parent
    pc, job,    \* what each worker is doing, on which job
    left,       \* contents its ingestor has not dealt with yet
    member,     \* the embedded file it has stored and queues next
    buffer,     \* entities put to its writer and not flushed yet
    emitted,    \* Manager.emitted: what this attempt emitted
    faults, crashes

clients == <<up, recorded>>
rows == <<todo, succeeded, failed, stalled, deferred>>
store == <<status, placed>>
worker == <<pc, job, left, member, buffer, emitted>>
losses == <<faults, crashes>>
vars == <<clients, archive, rows, store, worker, losses>>

-----------------------------------------------------------------------------
(* Jobs *)

NewJob(op, doc, parent, batch, context) ==
    [op |-> op, doc |-> doc, parent |-> parent, batch |-> batch,
     context |-> context, attempt |-> 0]

Running == {w \in Workers : pc[w] # "idle"}

(* The jobs procrastinate holds that have not ended. *)
Unfinished == BagToSet(todo) \union {job[w] : w \in Running} \union stalled

(* Mutant: the status counts forget the jobs that are being run. *)
BatchDone_TodoOnly(b) == \A j \in BagToSet(todo) : j.batch # b

(* Batch.done of the api: nothing of the batch is todo or doing. *)
BatchDone(b) == \A j \in Unfinished : j.batch # b

(* Mutant: the child job is not deferred into the batch of its parent. *)
ChildJob_OtherBatch(j, d) ==
    NewJob("ingest", d, j.doc, CHOOSE b \in Batches : b # j.batch, j.context)

(* Mutant: the child job does not inherit the opt-out of its parent. *)
ChildJob_DefaultContext(j, d) == NewJob("ingest", d, j.doc, j.batch, "analyze")

(* Manager.queue_entity from a worker: the child job stays in the batch and *)
(* in the context of the job that found the file.                           *)
ChildJob(j, d) == NewJob("ingest", d, j.doc, j.batch, j.context)

(* An unexpected exception, anywhere: MaxFaults bounds how many. *)
Fault ==
    /\ faults < MaxFaults
    /\ faults' = faults + 1
    /\ UNCHANGED crashes

-----------------------------------------------------------------------------
(* The writer of a Manager: a put is buffered, a flush supersedes the       *)
(* entity's own fragment and adds the fragment of its placement.            *)

Put(e, st, parent) == [entity |-> e, status |-> st, parent |-> parent]

Own(writes, old) ==
    [e \in Entities |->
        IF \E x \in writes : x.entity = e
        THEN (CHOOSE x \in writes : x.entity = e).status
        ELSE old[e]]

(* Mutant: parents in the main fragment, where an emission supersedes them. *)
Placements_Superseding(writes, old) ==
    {p \in old : \A x \in writes : x.entity # p[1]}
        \union {<<x.entity, x.parent>> : x \in {y \in writes : y.parent # NoParent}}

Placements(writes, old) ==
    old \union {<<x.entity, x.parent>> : x \in {y \in writes : y.parent # NoParent}}

(* Mutant: the buffer is dropped instead of written. *)
Flush_Dropped(writes) == UNCHANGED store

Flush(writes) ==
    /\ status' = Own(writes, status)
    /\ placed' = Placements(writes, placed)

(* A put: the writer flushes by itself when it is full, at a size that is  *)
(* its own.                                                                *)
Write(w, x) ==
    \/ /\ buffer' = [buffer EXCEPT ![w] = @ \union {x}]
       /\ UNCHANGED store
    \/ /\ Flush(buffer[w] \union {x})
       /\ buffer' = [buffer EXCEPT ![w] = {}]

(* Manager.finalize: emit the file itself, under its status, and flush. *)
Finalize(w, st) ==
    /\ Flush(buffer[w] \union {Put(job[w].doc, st, job[w].parent)})
    /\ buffer' = [buffer EXCEPT ![w] = {}]
    /\ emitted' = [emitted EXCEPT ![w] = @ \union {job[w].doc}]

-----------------------------------------------------------------------------
(* Clients: tasks.ingest_path for a single file, tasks.ingest_entity *)

UploadStore(u) ==
    /\ u.kind = "file" /\ up[u] = "new"
    /\ archive' = archive \union {u.doc}
    /\ up' = [up EXCEPT ![u] = "stored"]
    /\ UNCHANGED <<recorded, rows, store, worker, losses>>

UploadQueue(u) ==
    /\ \/ u.kind = "file" /\ up[u] = "stored"
       \/ u.kind = "entity" /\ up[u] = "new"
    /\ todo' = BagAdd(todo, NewJob("ingest", u.doc, NoParent, u.batch, u.context))
    /\ up' = [up EXCEPT ![u] = "queued"]
    /\ UNCHANGED <<recorded, archive, succeeded, failed, stalled, deferred, store, worker, losses>>

(* manager.close() flushes the entity emitted before it was queued. *)
UploadClose(u) ==
    /\ up[u] = "queued"
    /\ recorded' = IF u.kind = "file" THEN recorded \union {u.doc} ELSE recorded
    /\ up' = [up EXCEPT ![u] = "returned"]
    /\ UNCHANGED <<archive, rows, store, worker, losses>>

(* An exception in ingest_path leaves what was done before it. *)
UploadFail(u) ==
    /\ Fault
    /\ up[u] \in {"new", "stored", "queued"}
    /\ up' = [up EXCEPT ![u] = "failed"]
    /\ UNCHANGED <<recorded, archive, rows, store, worker>>

Upload(u) == UploadStore(u) \/ UploadQueue(u) \/ UploadClose(u)

-----------------------------------------------------------------------------
(* Workers: tasks.ingest *)

Goto(w, step) == pc' = [pc EXCEPT ![w] = step]

Fetch(w) ==
    /\ pc[w] = "idle"
    /\ \E j \in BagToSet(todo) :
        /\ j.op = "ingest"
        /\ todo' = BagRemove(todo, j)
        /\ job' = [job EXCEPT ![w] = j]
    /\ Goto(w, "load")
    /\ UNCHANGED <<clients, archive, succeeded, failed, stalled, deferred, store,
                   left, member, buffer, emitted, losses>>

(* Manager.ingest_entity: a file the archive lacks is logged, not emitted. *)
Load(w) ==
    /\ pc[w] = "load"
    /\ IF job[w].doc \in archive
       THEN /\ left' = [left EXCEPT ![w] = Contents[job[w].doc]]
            /\ Goto(w, "ingest")
       ELSE /\ Goto(w, "close")
            /\ UNCHANGED left
    /\ UNCHANGED <<clients, archive, rows, store, job, member, buffer, emitted, losses>>

(* Mutant: what an ingestor emits is written, but not collected. *)
EmitPart_Uncollected(w) ==
    /\ pc[w] = "ingest"
    /\ \E e \in left[w] \intersect Parts :
        /\ left' = [left EXCEPT ![w] = @ \ {e}]
        /\ Write(w, Put(e, "emitted", NoParent))
    /\ UNCHANGED <<clients, archive, rows, pc, job, member, emitted, losses>>

(* The ingestor emits a page, a row, ... of the file. *)
EmitPart(w) ==
    /\ pc[w] = "ingest"
    /\ \E e \in left[w] \intersect Parts :
        /\ left' = [left EXCEPT ![w] = @ \ {e}]
        /\ Write(w, Put(e, "emitted", NoParent))
        /\ emitted' = [emitted EXCEPT ![w] = @ \union {e}]
    /\ UNCHANGED <<clients, archive, rows, pc, job, member, losses>>

(* Mutant: the embedded file is queued without being archived. *)
StoreMember_Unstored(w) ==
    /\ pc[w] = "ingest"
    /\ \E d \in left[w] \intersect Docs :
        /\ left' = [left EXCEPT ![w] = @ \ {d}]
        /\ member' = [member EXCEPT ![w] = d]
    /\ Goto(w, "queue")
    /\ UNCHANGED <<clients, archive, rows, store, job, buffer, emitted, losses>>

(* The ingestor finds a file inside: Manager.store, then queue_entity.  A  *)
(* link that leads nowhere, a socket, a device has nothing to store, and   *)
(* is queued without a hash.                                               *)
StoreMember(w) ==
    /\ pc[w] = "ingest"
    /\ \E d \in left[w] \intersect Docs :
        /\ left' = [left EXCEPT ![w] = @ \ {d}]
        /\ archive' = archive \union ({d} \ Irregular)
        /\ member' = [member EXCEPT ![w] = d]
    /\ Goto(w, "queue")
    /\ UNCHANGED <<clients, rows, store, job, buffer, emitted, losses>>

QueueMember(w) ==
    /\ pc[w] = "queue"
    /\ todo' = BagAdd(todo, ChildJob(job[w], member[w]))
    /\ Goto(w, "ingest")
    /\ UNCHANGED <<clients, archive, succeeded, failed, stalled, deferred, store,
                   job, left, member, buffer, emitted, losses>>

(* Manager.ingest: the ingestor returned. *)
IngestSucceed(w) ==
    /\ pc[w] = "ingest" /\ left[w] = {}
    /\ Finalize(w, "success")
    /\ Goto(w, "close")
    /\ UNCHANGED <<clients, archive, rows, job, left, member, losses>>

(* Manager.ingest: the ingestor raised a ProcessingException (the file is  *)
(* damaged, a converter timed out), perhaps after emitting and queueing    *)
(* some of it.  That is the result of the file: the job goes on.           *)
IngestReject(w) ==
    /\ pc[w] = "ingest" /\ job[w].doc \in Fragile
    /\ Finalize(w, "failure")
    /\ Goto(w, "close")
    /\ UNCHANGED <<clients, archive, rows, job, left, member, losses>>

(* mbox and OLM catch whatever a member raises, the archive and the job     *)
(* table included, log it and go on: the member is lost to a success.      *)
IngestSkip(w) ==
    /\ Fault
    /\ job[w] # NoJob /\ job[w].doc \in Lenient
    /\ \/ /\ pc[w] = "ingest"
          /\ \E d \in left[w] \intersect Docs : left' = [left EXCEPT ![w] = @ \ {d}]
          /\ UNCHANGED pc
       \/ /\ pc[w] = "queue"
          /\ Goto(w, "ingest")
          /\ UNCHANGED left
    /\ UNCHANGED <<clients, archive, rows, store, job, member, buffer, emitted>>

Raises(w) ==
    \/ pc[w] = "ingest"
    \/ pc[w] = "queue" /\ job[w].doc \notin Lenient

(* Mutant: every exception is taken for the result of the file. *)
IngestRaise_Swallowed(w) ==
    /\ Fault
    /\ Raises(w)
    /\ Finalize(w, "failure")
    /\ Goto(w, "close")
    /\ UNCHANGED <<clients, archive, rows, job, left, member>>

(* Any other exception leaves Manager.ingest through its finally. *)
IngestRaise(w) ==
    /\ Fault
    /\ Raises(w)
    /\ Finalize(w, "failure")
    /\ Goto(w, "raise")
    /\ UNCHANGED <<clients, archive, rows, job, left, member>>

(* An exception of the archive, or while deferring the next stages. *)
TaskRaise(w) ==
    /\ Fault
    /\ pc[w] \in {"load", "analyze", "index"}
    /\ Goto(w, "raise")
    /\ UNCHANGED <<clients, archive, rows, store, job, left, member, buffer, emitted>>

(* Manager.close, and on to the next stages if anything was emitted. *)
Close(w) ==
    /\ pc[w] = "close"
    /\ Flush(buffer[w])
    /\ buffer' = [buffer EXCEPT ![w] = {}]
    /\ Goto(w, IF emitted[w] = {} THEN "finish" ELSE "analyze")
    /\ UNCHANGED <<clients, archive, rows, job, left, member, emitted, losses>>

ToAnalyze(w) ==
    IF job[w].context = "analyze" THEN emitted[w] \intersect Analyzable ELSE {}

(* Mutant: the next stage is not deferred into the batch of the job. *)
StageJob_OtherBatch(j, op) ==
    NewJob(op, j.doc, j.parent, CHOOSE b \in Batches : b # j.batch, j.context)

StageJob(j, op) == NewJob(op, j.doc, j.parent, j.batch, j.context)

Defer(w, op, entities) ==
    /\ todo' = BagAdd(todo, StageJob(job[w], op))
    /\ deferred' = deferred \union {<<op, e, job[w].batch>> : e \in entities}

DeferAnalyze(w) ==
    /\ pc[w] = "analyze"
    /\ IF ToAnalyze(w) # {}
       THEN Defer(w, "analyze", ToAnalyze(w))
       ELSE UNCHANGED <<todo, deferred>>
    /\ Goto(w, "index")
    /\ UNCHANGED <<clients, archive, succeeded, failed, stalled, store, job, left,
                   member, buffer, emitted, losses>>

DeferIndex(w) ==
    /\ pc[w] = "index"
    /\ Defer(w, "index", emitted[w])
    /\ Goto(w, "finish")
    /\ UNCHANGED <<clients, archive, succeeded, failed, stalled, store, job, left,
                   member, buffer, emitted, losses>>

(* The manager and its state go with the job. *)
Discard(w) ==
    /\ pc' = [pc EXCEPT ![w] = "idle"]
    /\ job' = [job EXCEPT ![w] = NoJob]
    /\ left' = [left EXCEPT ![w] = {}]
    /\ member' = [member EXCEPT ![w] = NoParent]
    /\ buffer' = [buffer EXCEPT ![w] = {}]
    /\ emitted' = [emitted EXCEPT ![w] = {}]

Finish(w) ==
    /\ pc[w] = "finish"
    /\ succeeded' = succeeded \union {job[w]}
    /\ Discard(w)
    /\ UNCHANGED <<clients, archive, todo, failed, stalled, deferred, store, losses>>

(* Mutant: retries are not counted. *)
Retry_Unbounded(w) ==
    /\ pc[w] = "raise"
    /\ todo' = BagAdd(todo, [job[w] EXCEPT !.attempt = @ + 1])
    /\ Discard(w)
    /\ UNCHANGED <<clients, archive, succeeded, failed, stalled, deferred, store, losses>>

(* Mutant: a job out of retries is never given up. *)
Retry_Stuck(w) ==
    /\ pc[w] = "raise" /\ job[w].attempt < Retries
    /\ todo' = BagAdd(todo, [job[w] EXCEPT !.attempt = @ + 1])
    /\ Discard(w)
    /\ UNCHANGED <<clients, archive, succeeded, failed, stalled, deferred, store, losses>>

(* The job raised: procrastinate runs it again, Retries times at most. *)
Retry(w) ==
    /\ pc[w] = "raise"
    /\ IF job[w].attempt < Retries
       THEN /\ todo' = BagAdd(todo, [job[w] EXCEPT !.attempt = @ + 1])
            /\ UNCHANGED failed
       ELSE /\ failed' = failed \union {job[w]}
            /\ UNCHANGED todo
    /\ Discard(w)
    /\ UNCHANGED <<clients, archive, succeeded, stalled, deferred, store, losses>>

(* The worker is killed: its job stays "doing", nobody runs it. *)
Crash(w) ==
    /\ pc[w] # "idle" /\ crashes < MaxCrashes
    /\ crashes' = crashes + 1 /\ UNCHANGED faults
    /\ stalled' = stalled \union {job[w]}
    /\ Discard(w)
    /\ UNCHANGED <<clients, archive, todo, succeeded, failed, deferred, store>>

(* ftm-analyze and OpenAleph run the jobs of the other stages. *)
RunStage ==
    \E j \in BagToSet(todo) :
        /\ j.op \in Stages
        /\ todo' = BagRemove(todo, j)
        /\ UNCHANGED <<clients, archive, succeeded, failed, stalled, deferred, store,
                       worker, losses>>

Step(w) ==
    \/ Fetch(w) \/ Load(w) \/ EmitPart(w) \/ StoreMember(w) \/ QueueMember(w)
    \/ IngestSucceed(w) \/ IngestReject(w) \/ Close(w)
    \/ DeferAnalyze(w) \/ DeferIndex(w) \/ Finish(w) \/ Retry(w)

(* Nothing is left to do: the pipeline waits for the next upload. *)
Quiescent ==
    /\ \A u \in Uploads : up[u] \in {"returned", "failed"}
    /\ BagToSet(todo) = {} /\ Running = {}

Init ==
    /\ up = [u \in Uploads |-> "new"]
    /\ recorded = {} /\ archive = {}
    /\ todo = EmptyBag
    /\ succeeded = {} /\ failed = {} /\ stalled = {} /\ deferred = {}
    /\ status = [e \in Entities |-> "absent"]
    /\ placed = {}
    /\ pc = [w \in Workers |-> "idle"]
    /\ job = [w \in Workers |-> NoJob]
    /\ left = [w \in Workers |-> {}]
    /\ member = [w \in Workers |-> NoParent]
    /\ buffer = [w \in Workers |-> {}]
    /\ emitted = [w \in Workers |-> {}]
    /\ faults = 0 /\ crashes = 0

Next ==
    \/ \E u \in Uploads : Upload(u) \/ UploadFail(u)
    \/ \E w \in Workers : Step(w) \/ IngestSkip(w) \/ IngestRaise(w) \/ TaskRaise(w) \/ Crash(w)
    \/ RunStage
    \/ Quiescent /\ UNCHANGED vars

Fairness ==
    /\ \A u \in Uploads : WF_vars(Upload(u))
    /\ \A w \in Workers : WF_vars(Step(w))
    /\ WF_vars(RunStage)

Spec == Init /\ [][Next]_vars
FairSpec == Spec /\ Fairness

-----------------------------------------------------------------------------
(* Properties *)

Writes == [entity: Entities, status: {"emitted", "success", "failure"},
           parent: Docs \union {NoParent}]
Steps == {"idle", "load", "ingest", "queue", "close", "raise", "analyze", "index", "finish"}

(* Every variable has its type; attempts never exceed the retries. *)
TypeOK ==
    /\ up \in [Uploads -> {"new", "stored", "queued", "returned", "failed"}]
    /\ recorded \subseteq Docs /\ archive \subseteq Docs
    /\ IsABag(todo) /\ BagToSet(todo) \subseteq Job
    /\ succeeded \subseteq Job /\ failed \subseteq Job /\ stalled \subseteq Job
    /\ deferred \subseteq Stages \X Entities \X Batches
    /\ status \in [Entities -> {"absent", "emitted", "success", "failure"}]
    /\ placed \subseteq Entities \X Docs
    /\ pc \in [Workers -> Steps]
    /\ job \in [Workers -> Job \union {NoJob}]
    /\ left \in [Workers -> SUBSET Entities]
    /\ member \in [Workers -> Docs \union {NoParent}]
    /\ buffer \in [Workers -> SUBSET Writes]
    /\ emitted \in [Workers -> SUBSET Entities]
    /\ faults \in 0..MaxFaults /\ crashes \in 0..MaxCrashes

Matches(j, d, p, b) == j.op = "ingest" /\ j.doc = d /\ j.parent = p /\ j.batch = b
Members(d) == Contents[d] \intersect Docs
UploadsOver(b) == \A u \in Uploads : u.batch = b => up[u] \notin {"new", "stored"}

(* A batch that reports done has ended the job of every upload that was     *)
(* answered and of every file found inside a file that was handed over and  *)
(* leaves none behind: no job runs outside the batch (tasks.py:53,          *)
(* api.py:78).                                                              *)
DoneIsComplete ==
    \A b \in Batches : BatchDone(b) =>
        /\ \A u \in Uploads : u.batch = b /\ up[u] = "returned" =>
            \E j \in succeeded \union failed : Matches(j, u.doc, NoParent, b)
        /\ \A d \in Docs \ (Fragile \union Lenient) : <<"index", d, b>> \in deferred =>
            \A c \in Members(d) :
                \E j \in succeeded \union failed : Matches(j, c, d, b)

(* A done batch stays done once its uploads are over: a job defers what     *)
(* follows from it, children and stages, before it ends (api.py:78).        *)
DoneIsStable ==
    [][\A b \in Batches : BatchDone(b) /\ UploadsOver(b) => BatchDone(b)']_vars

(* The work of a job, in whichever attempt, and what is done of it. *)
WorkOf(j) == [op |-> j.op, doc |-> j.doc, parent |-> j.parent, batch |-> j.batch]

Promise == INSTANCE BatchPromise
    WITH Partial <- Fragile \union Lenient,
         Requests <- Uploads,
         open <- {u \in Uploads : up[u] \in {"new", "stored"}},
         answered <- {u \in Uploads : up[u] = "returned"},
         work <- {WorkOf(j) : j \in Unfinished},
         ended <- {WorkOf(j) : j \in succeeded \union failed},
         handed <- deferred

(* To whoever waits for a batch the pipeline is what BatchPromise says:     *)
(* jobs come from requests and from unfinished jobs of the same batch, and  *)
(* a file is handed on once the jobs of its members are in the batch, with  *)
(* workers that share jobs, raise and are killed (tasks.py:53-84).          *)
KeepsPromise == Promise!Spec

(* What analyze and index are told to read has reached the store: the       *)
(* buffered writes are flushed before the jobs are deferred (tasks.py:62).  *)
HandedOverIsStored == \A t \in deferred : status[t[2]] # "absent"

(* What reached the store is handed to index, unless a job that emits it    *)
(* has not ended or has failed: a retry hands over what the attempt before  *)
(* it wrote and did not defer (tasks.py:63-82).  Only the parts of a file   *)
(* whose ingestor raises now here, now there, may be left behind.           *)
StoredIsHandedOver ==
    \A e \in Entities \ UNION {Contents[d] \intersect Parts : d \in Fragile} :
        status[e] # "absent" =>
            \/ \E b \in Batches : <<"index", e, b>> \in deferred
            \/ \E j \in Unfinished \union failed :
                j.op = "ingest" /\ e \in {j.doc} \union (Contents[j.doc] \intersect Parts)

(* A failure recorded for a file whose ingestor never rejects it is not the *)
(* last word: the job that recorded it, or another of that file, is to run  *)
(* again, or is reported as failed (manager.py:293-296).                    *)
FailureOwesRetry ==
    \A d \in Docs \ Fragile : status[d] = "failure" =>
        \E j \in Unfinished \union failed : j.op = "ingest" /\ j.doc = d

(* A regular file found inside another is never skipped for want of its     *)
(* bytes: its job can only end well after handing it over.  What is no      *)
(* regular file is queued without a hash, and its job ends well without a   *)
(* trace of it (manager.py:219-245).                                        *)
MembersAreHandedOver ==
    \A j \in succeeded : j.parent # NoParent /\ j.doc \notin Irregular =>
        <<"index", j.doc, j.batch>> \in deferred

(* A regular file keeps every place it was found in, whichever of its jobs  *)
(* writes last (manager.py:49-68).                                          *)
PlacementsKept ==
    \A j \in succeeded : j.parent # NoParent /\ j.doc \notin Irregular =>
        <<j.doc, j.parent>> \in placed

(* Nothing of a batch that opted out is analyzed, at any depth, and never a *)
(* container (tasks.py:40-46, 79).                                          *)
OptOutIsKept ==
    \A t \in deferred : t[1] = "analyze" =>
        /\ t[2] \in Analyzable
        /\ \E u \in Uploads : u.batch = t[3] /\ u.context = "analyze"

(* Once its uploads are over a batch becomes done (api.py:78). *)
BatchesEnd == \A b \in Batches : UploadsOver(b) ~> BatchDone(b)

=============================================================================
