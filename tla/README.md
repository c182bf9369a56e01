# Verification of ingest-file

TLA+ models of the parts of ingest-file (`src/ingestors/`) that are hard to test,
TLC configurations that check them on small instances, and TLAPS proofs of the
properties that hold for every instance.

ingest-file takes the files of a document collection apart. A file is stored in an
archive, an *ingest* job is queued for it, a worker picks an ingestor for its type
and turns it into FollowTheMoney entities (pages, rows, emails, and more files,
each of which is stored and queued in turn), and what was emitted is handed to the
stages *analyze* and *index*.

## 1. Inventory

| part | state it keeps | operations | it interacts with |
|---|---|---|---|
| api (`api.py`) | none | upload, status of a batch, delete of a dataset, make | archive, crawl records, job table |
| crawl (`directory.py`, `ingest_path` of a folder) | the walk, a pool of storing threads, the records of what was crawled | walk, store ahead, drain, record, queue, resume | archive (from its pool), crawl records, job table |
| pipeline (`tasks.py`, `manager.py`) | per job: a `Manager` with its writer's buffer and the entities it emitted | run the ingest task: load, choose an ingestor, ingest, emit, store and queue members, finalize, close, defer the next stages | archive, entity store, job table, ingestors, the other stages |
| auction (`manager.py`, `ingestor.py`, the `match` of each class) | none | sniff the type, collect bids, choose | the bytes of the file, the types and the name of its entity |
| email threading (`support/email.py`, `support/cache.py`) | two maps of sets in redis, per dataset | `resolve_message_ids` | redis, the writer (fragments of *other* entities) |
| conversion (`support/convert.py`) | one unoserver listener per thread, a list of free LibreOffice profiles, both of the process | `ensure`, `convert`, `stop`, `borrow`, the exit handlers | subprocesses, local ports, LibreOffice |
| rendition and OCR (`documents/`, `support/pdf.py`, `support/ocr.py`) | tags: PDF of a document, text of an image, shared by all datasets; one OCR engine per thread | look up, convert, archive, tag, open pages, recognize, emit pages | tags, archive, conversion, tesseract |
| packages, email containers, tables (`packages/`, `email/`, `tabular/`) | temporary directories of one job | take a file apart, emit and queue what is in it | the pipeline's `store` and `queue_entity` |
| tika (`support/tika.py`) | a result cache in the tags | look up, ask, remember; look for embedded files | tika's server, the pipeline |
| other formats, media, calendars, contacts | none | parse, emit | the pipeline's `emit` |
| cli (`cli.py`) | none | ingest a path, clear the caches | crawl, tags |
| shell, temporary files, encodings, timestamps, settings | locale of the process (`temp_locale`) | - | - |

What the parts share, and what outlives a worker, is where they meet:

* the **archive**, one per dataset, content-addressed;
* the **entity store**, written through buffering writers. An entity's own fragment
  is superseded by the last writer, the fragments of its *placement* (one per parent)
  are kept side by side;
* the **job table** of procrastinate: jobs are `todo`, `doing`, `succeeded` or
  `failed`, and grouped into batches;
* **redis** for email threading, and the **tags** for the caches of PDFs and of OCR
  results, which all datasets share;
* inside one worker process: listeners, profiles, and OCR engines.

What makes the system hard: jobs of one batch run on several workers in any order;
a job that raises runs again after having written half of its results; writes are
buffered and lost with a worker; one file reaches the same entity from several
containers; caches outlive the settings and the dataset they were filled under, and can be
cleared under a running job; a file comes with a type that somebody else declared;
listeners hang or die; a crawl may stop between any two steps and be resumed.
`PROJECT.json` lists each hazard at its line with the properties that cover it.

What makes each part correct:

* **pipeline** - a batch that says it is done is complete and stays done; nothing is
  handed on before it is stored, nothing stored is forgotten; a failure of a healthy
  file is answered by a retry; a member that is a regular file is never skipped for want of its
  bytes; a file keeps all its places; an opt-out reaches every depth; every batch ends.
* **crawl** - files are queued in the order of the walk, each after it was stored or found to be
  no regular file, whatever the number of threads; what is in flight is bounded; a failure costs the
  resumed run at most one file; every run ends.
* **email threading** - links are sound, and both orders of arrival produce them.
* **conversion** - profiles are exclusive and returned; a document is rejected for
  its own faults or those of the LibreOffice that had it, and not for a listener that is late,
  hangs, ends or has lost its port; every conversion ends; nothing outlives the worker.
* **auction** - the ingestor is that of what the file is, whatever it is said to be.
* **packages, emails, tables** - every member is queued once, by what holds it directly; a
  success has queued, emitted and tabulated all that no warning was logged for, but for what is
  left out by rule and what an error is mistaken for the end of (section 3); no text is an orphan.
* **rendition** - a shared cache never names what a dataset lacks; a conversion is not
  done twice without a reason; text comes from the right models and no failure stays in
  a cache, neither of OCR nor of tika; the index text follows the pages.

## 2. Modules

| module | models | checked by | proved in |
|---|---|---|---|
| `IngestPipeline` | `tasks.py`, `manager.py`, uploads and status of `api.py` | `MCIngestPipeline` (3 configurations) | `IngestPipelineProofs` |
| `BatchPromise` | what a batch is to whoever waits for it, with no workers, attempts or buffers | as a PROPERTY of `IngestPipeline` | `IngestPipelineProofs`, for `IngestPipeline` |
| `EmailThreading` | `resolve_message_ids` within jobs that raise and run again | `MCEmailThreading` (3) | `EmailThreadingProofs` |
| `CrawlPromise` | what a crawl promises, with no threads, pools or buffers | as a PROPERTY of `Crawl` | `CrawlProofs`, for `Crawl` |
| `Crawl` | `directory.py`, `ingest_path` of a folder | `MCCrawl` (2) | `CrawlProofs` |
| `Convert` | `support/convert.py` without its cache | `MCConvert` (2) | `ConvertProofs` |
| `Rendition` | the PDF cache, parsing of pages, images, OCR and its cache, tika and its cache, `cache_clear` | `MCRendition` (1) | `RenditionProofs` |
| `Auction` | `Manager.auction` and the bids of 20 classes; no variables | as a part of `Containers` | `ContainersProofs` |
| `Containers` | `packages/`, `email/`, `tabular/`: what files of 20 formats hold and how it is queued, their tables, `ingest_embedded` | `MCContainers` (1) | `ContainersProofs` (types, routing, archives), `ContainersMembersProofs`, `ContainersTablesProofs` |

Each module names the code of an action in the comment above it; `map` in
`PROJECT.json` gives the lines. Operators called `<Action>_<Fault>` are deliberately
wrong versions of the definition that follows them. No specification uses them:
each is substituted for its definition to see that a property notices.

### BatchPromise and IngestPipeline

`BatchPromise` is what a client knows: requests that are open or answered, the work of each batch
that has not ended, the files whose work has, and what was handed on. Work is a job without its
attempt and its context. The mapping takes it from the jobs in the table, at workers and stalled
(`Unfinished`), so a fetch, a retry and a kill are stutters, and the last attempt is the end.
`Partial` are the files that may be handed on without all that is inside of them: those in
`Fragile` and `Lenient`, below.


A job is a record (operation, file, parent, batch, context, attempt) and `todo` a
bag of them. A worker's `pc` follows `tasks.ingest`: *load* (`Manager.ingest_entity`),
*ingest* with `EmitPart`, `StoreMember` and `QueueMember` in any order of the file's
contents, `IngestSucceed` or `IngestReject` (`finalize`, with the file's status), *close*,
*analyze*, *index*, *finish*. `buffer` is the writer's, `emitted` the manager's memory
store; both go with the job. The writer flushes in `finalize` and in `close`, and by itself at a
size the model leaves open: after any put (`Write`). `Manager.store` answers None for what is no
regular file (`Irregular`: a broken link, a socket): the member is queued without a hash, and its
job ends well without handing anything over (`Load`). `IngestRaise` is an exception that is not a
`ProcessingException`: `finalize` runs in the `finally`, then the exception leaves the
task and `Retry` decides. A `ProcessingException` is nondeterministic for the files
in `Fragile` (a converter times out now and not later; `PDFIngestor`, whose
`except Exception` makes a result of everything, belongs here too). Files in `Lenient` are
mailboxes and OLM archives, which catch whatever a member raises: `IngestSkip`
loses that member and goes on to a success. `Crash` loses the
buffer and leaves the job *doing*: running stalled jobs again is not this
repository's. Bytes, schemata and what an ingestor reads are reduced to `Contents`.
`RunStage` stands for the workers of other programs.

### EmailThreading

Redis `mid-ent` and `ent-mid` are `midEnt` and `entMid`. A job's
steps are its redis calls: `Announce` (sadd), `Notify` (smembers, and a fragment of
each reply into the buffer), `Resolve` (smembers), `Await` (sadd). `Finalize` writes the
email's own fragment and the fragments for others, which are keyed by reply and
Message-ID, and supersede. `saw` and `known` record which emails had ended when
the job started that last wrote an email; only properties read them.

### CrawlPromise and Crawl

`CrawlPromise` queues a set of files one at a time, in the order of the walk, each after its
bytes are archived or the run has found no regular file under its name, and may be abandoned.
`Crawl` does so with one thread (`StoreFile`) or
with a pool (`SubmitFile`, `PoolStore`, `Take`, `Await`), a writer that flushes every
`FlushSize` emissions, runs that fail, are killed, and are resumed. `Manager.store` answers None
for a path that is no regular file at that moment, and the crawl records and queues it all the
same: `Store` puts a file of `Irregular` into `archive` or into `missing`, which a run starts
without. The mapping is `Ahead`: the file at hand, the files in the pool, and those of the rest of the walk that are not left
out; nothing once the run has failed. Of records that were not flushed, any may survive a
failure: the journal of the store is not this repository's.

### Convert

A thread's `pc` follows `_document_to_pdf`: `Ensure`, or `StopOrphaned`, `FreePort`,
`Popen` and `Probe`; `Request` and `Reply`; `Unavailable` and `StopListener`; and
`Borrow`, `MakeProfile`, `Spawn` for the LibreOffice of a single document. Listener
processes take their own steps (`Bind`, `Connect`, `Reap`), and `Break` lets one hang, die, or
lose its LibreOffice: it is `crashed`, answers with an error, and ends. Every xmlrpc Fault and every exception of
a spawn rejects the document at hand, whatever the document is (`Reply`, `ReplyFault`,
`SpawnFails`); `hindered` are the threads whose attempt met with one. What no handler
names leaves the conversion (`Escape`). `EndThread`, `RemoveProfiles` and `StopAll` are the exit of the worker. A
request goes to whoever has bound the port. Left out: the second
port of a listener (for LibreOffice), and `forward_output` raising between `Popen` and the registration.

### Rendition

A job is one ingest of a document in a dataset under a language setting. Office
documents go through `Lookup`, `Convert`, `Archive` and `Tag`; scans through `Render` and
`Archive`; PDFs are parsed as they are, and an image is parsed as the one image it is. Parsing
opens every page (`OpenPage`), and for every image takes one of `SkipImage`, `CachedText`,
`Recognize`, `FailToRecognize`; pages are emitted after all were read, each by two puts: the page
(`EmitPage`) and its fragment of the index text (`EmitText`). The writer may flush at any put
(`Put`, `Flush`), and does at the end of the job, also where that is an exception (`Finalize`); so
a job can break off, or lose what it has not flushed, between the two. `sent` counts
the puts, `flushed` those that are written. `last` and `author` tell whether what a document has
in the store is the work of one run that went through; only properties read them. What no
ingestor is for goes to the tika server: `AnswerCached`, `Ask`, or `AskInVain` where the
answer is an error. Text is the set of images read, each with the model that read it
(`Server` where tika did). `pdf` counts the versions of a document's PDF: a conversion
may give new bytes or the same again. `ClearCache` drops the tags of one prefix or of all, at any
moment. Left out: text that pymupdf reads, metadata, embedded files (see `Containers`),
`temp_locale`, the counting of retries (see `IngestPipeline`). The worker is one thread;
the job of a killed one is not run again. An exception while a tool makes the PDF may be taken for
the file's fault or not (`Raise`): the spawn of LibreOffice makes a rejection of each.

### Auction and Containers

`Auction` translates the bids: `Match` by type or extension, and the classes that look at
the bytes as well. Types are what libmagic makes of the bytes (`Sniffed`), unless the marker
of an OLM message was declared; a bidder may call the auction off (`CalledOff`: encrypted
files, and those that go by the name of a spreadsheet and are no zip file). The classes left
out bid by type and extension only, for files that are not among those of `Containers`.

`Containers` is what `IngestPipeline` calls the members of a file, taken apart the way each
format does it. `Start` runs the auction and opens the file, `Reject` gives it up at once.

* *Archives* are unpacked (`UnpackAll`, `Decompress`, `UnpackZip`, `UnpackTar`, `UnpackRar`,
  `ReadPst`, `ReadPstFails`) into a directory, `unpacked`, and each item in it is stored and
  queued (`StoreMember`, `QueueMember`). zip, tar and rar pass over a member that fails, and
  crawl what a broken-off copy has left: an item that is not `whole`. The crawl leaves out the
  entries it knows by name (`SKIP_ENTRIES`). A gzip file that ends
  early raises an `EOFError`, so the job runs again. A PST is crawled a second time after a
  failure (`CrawlAgain`), and its exception raised again (`RejectPst`, `RaiseAfterCrawl`).
* *Messages* start with what they are found to hold. mbox and OLM pass over a message
  (`PassOverMember`); an OLM message is taken apart in the pass of its archive. An email is
  walked, and then swept by ripmime for what the walk has not queued (`Sweep`); `again` is that
  second pass, and its failure is the email's (`RejectEmail`). An emlx file is walked only. In an
  Outlook message the messages inside are gone through in place (`OpenMessage`, `CloseMessage`):
  `open` is the stack of those it is in, and each is emitted when it is through.
* *Tables* are those of a workbook (`OpenSheet`, and then its embedded files, `FindEmbedded`), of
  a database (`OpenTable`; SQLite leaves out those whose names `VALID_TABLE` does not match,
  `LeaveOut`), or the file itself (`OpenOwn`: CSV, DBF). Rows are their numbers,
  and `fragments` is the store. Where the reading breaks off, a workbook and a DBF are failures, a SQLite
  table ends with the rows it has and a warning (`CutShort`), unless the cursor raises at the same
  row again and again (`CursorRaises`), and an Access table ends as if it
  were complete (`ExportEnds`).

What gets no job by rule is `Ignored`, pairs of a holder and a member, and `Kept` is what remains:
beside those entries, an attachment without a URL in an OLM message, without data in a workbook
(which is logged), without a kind in an Outlook message, and a nameless part of an email
that is empty or hidden. An error of Tika's for a workbook is taken for no embedded files;
`unanswered` remembers the workbook. An exception that is not the file's runs the job again
(`RunsAgain`), or uses up its attempts (`GivesUp`, `failed`): how many there are is `IngestPipeline`'s,
so that any exception may be the last one.

One job runs at a time, since an ingestor shares nothing with those beside it. Left out: headers
and bodies, the folders of an archive (see `Crawl`), how a cell is decoded. Assumed: for an
attachment that both find, ripmime writes the bytes that the walk decoded, as
`tests/test_msg.py:195` has it for an attached email.

## 3. What is checked

| run | instance | shows |
|---|---|---|
| `pipeline_batches` | two uploads, in two batches, of a zip and a mailbox that share a message; 2 workers; 1 exception, 1 retry | `DoneIsComplete`, `DoneIsStable`, `PlacementsKept`, `OptOutIsKept`, and `KeepsPromise`, that the pipeline implements `BatchPromise` |
| `pipeline_failures` | a tar of the message and a broken link, and a request to ingest the message again in another batch; 2 workers; 1 exception, 1 kill; flushes at any put | `HandedOverIsStored`, `StoredIsHandedOver`, `FailureOwesRetry`, `MembersAreHandedOver` |
| `pipeline_liveness` | the zip; 2 workers; 2 exceptions (a job runs out of retries) | `TypeOK`, `BatchesEnd` |
| `email_threading` | three emails, one found twice, two sharing a Message-ID; 2 workers; 1 exception | `TypeOK`, `LinksAreReplies`, `LaterIsLinked` |
| `email_race` | an email and its reply; 2 workers | violates `RepliesAreLinked` |
| `email_copies` | a message found twice and its reply; 1 worker | violates `RepliesAreLinked` |
| `crawl` | six files, one of them a link that may be broken, and a folder; 1 or 2 threads; 2 runs; 1 exception, 1 kill | `TypeOK`, `LossIsBounded`, `EndsComplete`, `KeepsPromise`, `RunsEnd` |
| `crawl_resume` | two files and a folder; the same | violates `ResumeCompletes` |
| `convert` | documents that convert, cannot, and never end; 2 threads, 2 ports, 3 jobs, 1 fault (of a listener, its LibreOffice, a spawn, or any other exception) | `TypeOK`, `ProfilesAreExclusive`, `RejectedForCause`, `NoneOutlivesWorker`, `ConversionsEnd` |
| `convert_ports` | the same, 2 jobs, no fault | violates `ListenersAreOwn` |
| `rendition` | ten documents of the five kinds, sound and damaged, in eight loads of up to four jobs; 2 datasets, 2 languages; 2 workers; any 2 of: an exception, an OCR failure, an error from tika, a kill, a clearing of the caches; flushes at any put | `TypeOK`, `PdfIsArchived`, `ConversionsAreReused`, `CleanRunIsWhole`, `IndexFollowsPages` |
| `containers` | one of 24 files that are taken apart, sound and damaged, under right and wrong types, with the emails, messages and tables inside them; any 3 of exceptions and errors of tika; any exception may be the job's last | `TypeOK`, `RoutedByContent`, `QueuedByHolder`, `SuccessIsComplete`, `UnpackedIsQueued`, `HoldersAreEmitted`, `TablesAreWhole`, `SuccessHasTables`, `NoOrphans` |

**Bounds.** `MaxFaults`, `MaxLosses`, `MaxCrashes`, `MaxRuns`, `MaxJobs` and `Retries` bound
counters that grow forever in the code; each is a conjunct of the guard of the
actions it bounds. They are small and still reach the interesting cases:

* the pipeline needs two jobs of the same file that run at once (the shared message),
  three levels of entities (container, file, page), one retry after a half-done attempt,
  and two exceptions for a job that fails for good;
* threading needs two emails at once, an email with two references (one of them its
  own), a Message-ID held by two, and a job that runs again;
* the pool of the crawl holds `2 * threads` files and one more: six files fill it with
  two threads and leave one to walk on to. `FlushSize` 2 puts kills on both sides of a flush;
* two threads suffice for two listeners on one port and two borrowers of profiles, and
  three jobs let a thread meet its listener again after it failed, hung or was replaced;
* the loads of the rendition cover a document three times in one dataset (a job
  that redoes another's work after a failure), one in two datasets (the shared cache), one in
  two languages and two that share an image (the OCR cache, and an engine set up for another
  language), tika's cache with a second job for the same file, and a document of every kind that cannot
  be read. Two losses let a failure meet a clearing of the caches, or a kill; two jobs of the bill,
  in two languages, overlap and break off between a page and its text;
* the containers need a broken part beside sound ones, an email attached to an email, messages
  two levels deep inside an Outlook message, an attachment that only the sweep finds, an archive that is extracted in part, and a crawl that
  fails twice; in each kind of holder one member that is left out by rule, and a table by its name; a sheet with an empty row, one row that fills a chunk by its size and rows that
  fill one by their number, with and without a rest, tables that break off after them, one that
  cannot be queried and a row that cannot be decoded; and files whose type libmagic gets wrong (a
  compressed tar, a PST, an mbox), that have no extension, or were declared something else.

Workers (threads and ports in `convert_ports`) are symmetric, and symmetry is used in runs
that check no liveness. Neither the action property nor the abstract specification in `pipeline_batches`
tells workers apart.

**Fairness.** Pipeline: weak fairness of each upload, of each worker's step and of
the other stages - clients and workers keep running (procrastinate polls). Nothing is
assumed of exceptions, and nothing of kills, which `pipeline_liveness` excludes: a killed
worker's job stays *doing*, and its batch is never done. Crawl: weak fairness of the
main thread and of the pool. Convert: weak fairness of each thread and each
listener process (a process gets to bind its port, LibreOffice to connect, a killed
process to be reaped); a listener that hangs has no fair step to leave that state,
which is what the client's timeout is for. `BatchesEnd` is about batches whose uploads are over,
`RunsEnd` about runs that started and `ConversionsEnd` about conversions that began:
none of the runs, jobs or clients is assumed to start.

**Deadlock** is checked everywhere. Each specification has an explicit stuttering
step for the states where it is through (`Quiescent`, `Ended`, `Done`, the worker stopped,
no runs left), so a deadlock is one.

### Where the code and its comments differ

Four runs find a promise of the documentation broken; `findings` has the quotes.

* **email_race** - the reply looks for the original before that is announced, and
  prepares for it after the original has looked for replies. Neither writes the link.
* **email_copies** - two emails with one Message-ID (an inbox and a sent folder) that come
  after a reply each write the backward link into one fragment; the second supersedes
  the first. The forward direction links all of them.
* **crawl_resume** - a file is recorded as crawled before its job is queued. A run that
  stops in between, with the record flushed, leaves a file that `--resume` skips.
  `LossIsBounded` shows it is at most one for every failed run.
* **convert_ports** - two threads can be given one free port. The listener that loses it
  exits, and its thread is answered by the other's. `RejectedForCause` and `ConversionsEnd`
  hold nevertheless.

### What the properties do not promise

Five properties have exceptions, because the code does:

* `MembersAreHandedOver` and `KeepsPromise` of the crawl are about regular files. What is none is queued
  without bytes, and the batch counts its job as a success.
* `RejectedForCause` lets a sound document be rejected in the LibreOffice that crashed over it,
  perhaps for want of memory, or in a spawn that failed: the code cannot tell these from a
  broken document, and does not try again.
* `UnpackedIsQueued` excludes archives whose job gave up. Their members are neither queued nor
  in any log but that of the exception.
* `SuccessIsComplete` excludes what is `Ignored` and the files in workbooks that are `unanswered`: a
  success that misses them looks like any other.
* `SuccessHasTables` excludes SQLite tables under other names than `VALID_TABLE` has, and Access
  databases, whose export may fail unseen.

Met on the way and not a run: the PDF of a document that is in two datasets. The tag is
shared and the archives are not, so each dataset's conversion overwrites the tag, and an
ingest in the other converts again (`docs/pipeline.md:113` speaks of a second upload). That
is why `ConversionsAreReused` is about documents of one dataset. And a comparison of the
first bytes of a file with a string, which never holds: `email/mbox.py:48` says that a
mailbox without a suffix is told by its magic, and it is not (nor is a PDF,
`documents/pdf.py:36`). `MboxBid` and `PdfBid` are what the code bids.

## 4. What is proved

The proofs hold for all values of the constants that satisfy the assumptions named in the
modules: any number of files, workers, threads, batches, retries and faults.

| theorem | says | inductive invariant |
|---|---|---|
| `IngestPipelineProofs!TypeCorrect` | `Spec => []TypeOK` | `TypeOK` and `BusyHasJob`: a worker that is not idle has a job, whose operation is ingest |
| `IngestPipelineProofs!DoneStable` | `Spec => DoneIsStable` | the same: a step can only add a job to a batch from a job of that batch, which is still unfinished after the step, or from an upload |
| `IngestPipelineProofs!DoneComplete` | `Spec => []DoneIsComplete` | `MembersAccounted`, below |
| `IngestPipelineProofs!HandedOverStored` | `Spec => []HandedOverIsStored` | `EmittedIsWritten`: what a worker has emitted is in the store or in its buffer, and in the store once its manager is closed |
| `IngestPipelineProofs!MembersHandedOver` | `Spec => []MembersAreHandedOver` | `MembersAreStored`: the bytes of a member that is a regular file are in the archive from before its job is queued; and `MembersAreWritten` |
| `IngestPipelineProofs!PlacesKept` | `Spec => []PlacementsKept` | `MembersAreWritten`: from the moment its manager is closed, the job of a member has emitted its file and placed it |
| `IngestPipelineProofs!OptOutKept` | `Spec => []OptOutIsKept` | `AnalysisIsWanted`: an ingest job that would analyze is in a batch with an upload that wanted it |
| `IngestPipelineProofs!FailureRetried` | `Spec => []FailureOwesRetry` | `FailuresAreOwed`: a failure of a file that is never rejected has a job that still owes its ingestor a run, or was given up |
| `IngestPipelineProofs!StoredHandedOver` | `Spec => []StoredIsHandedOver` | `StoredIsOwed`: what is in the store has been deferred to index, or is emitted by a job that owes a run, or by a worker on its way to index |
| `IngestPipelineProofs!BatchKept` | `Spec => KeepsPromise` | `MembersAccounted` and `EmittedIsWritten` |
| `EmailThreadingProofs!TypeCorrect` | `Spec => []TypeOK` | the one of `LinksSound` |
| `EmailThreadingProofs!LinksSound` | `Spec => []LinksAreReplies` | every set a link can come from holds replies only: both caches, each worker's links and buffer, both kinds of fragments |
| `EmailThreadingProofs!LaterLinked` | `Spec => []LaterIsLinked` | `Traced`: a job has left a trace of each Message-ID it has resolved, and has found every email that had ended when it started; `EndedTraced`: an email that has ended can be found both ways; `RepliesFound`, `OriginalsNoted`: a settled email was last written by a job that ended well |
| `CrawlProofs!TypeCorrect` | `Spec => []TypeOK` | `InOrder`: the file at hand, those of the pool and those ahead of the walk follow one another in the order of the walk; `OncePerRun` |
| `CrawlProofs!EndComplete` | `Spec => []EndsComplete` | `Dealt`: until the run ends or fails every file is queued, left out, at hand, in the pool or ahead |
| `CrawlProofs!LossBounded` | `Spec => []LossIsBounded` | `LossInv`: the one file that may be recorded and not queued is the file at hand, between `Record` and `Defer` |
| `CrawlProofs!PromiseKept` | `Spec => KeepsPromise` | `StoredFirst`: a file of the pool is being stored, or its store has raised, or answered: it is in the archive or found to be no regular file; and `InOrder` |
| `ConvertProofs!TypeCorrect` | `Spec => []TypeOK` | `ProfilesCounted`: every profile made is free or lent, and those made and being made are no more than the threads |
| `ConvertProofs!RejectedCorrectly` | `Spec => []RejectedForCause` | `Judged`: the same, with types, and an outcome only for an idle thread; and that a request at a `crashed` listener is of a thread that is `hindered` |
| `ConvertProofs!WorkerIsLast` | `Spec => []NoneOutlivesWorker` | `Registered`: a listener that would go on is registered, and nobody starts one once the worker exits |
| `ConvertProofs!ProfilesExclusive` | `Spec => []ProfilesAreExclusive` | `Accounted`: profiles are numbered up to `made`, and a profile is free or lent to one thread |
| `RenditionProofs!PdfArchived` | `Spec => []PdfIsArchived` | `HashInv`: the same of the hash each worker carries, from the moment it has passed `Lookup` or `Archive` |
| `RenditionProofs!TypeCorrect` | `Spec => []TypeOK` | `WorkerHasJob`: a busy worker has a job, and has read no more than the pages of its document; `CachesAreSound`: a cached reading is by the models of its languages, a cached text is of a sound document |
| `RenditionProofs!CleanIsWhole` | `Spec => []CleanRunIsWhole` | `WorkerReads`: a page that was read is whole, but for the images of the last one that are still to be read |
| `RenditionProofs!IndexFollows` | `Spec => []IndexFollowsPages` | `WorkerWrote`: while no other worker writes a document, what its worker's writer has flushed is in the store, the page and the text; it joins `WorkerReads`, since either may end with the same `Finalize` |
| `RenditionProofs!ConversionsReused` | `Spec => []ConversionsAreReused` | `ReuseInv`: every PDF in an archive was made, and a budget, below |
| `ContainersProofs!TypeCorrect` | `Spec => []TypeOK` | the types, and when there is a job, an item or a table in hand |
| `ContainersProofs!ContentRoutes` | `Spec => []RoutedByContent` | none but the types: it is what the auction does |
| `ContainersProofs!UnpackedIsNotLost` | `Spec => []UnpackedIsQueued` | what was unpacked of a file is queued, or left out by name, or `left`, or the item at hand, or its job is to run again, or has used up its attempts |
| `ContainersMembersProofs!HolderQueues` | `Spec => []QueuedByHolder` | `PendingHeld`, `OpenedInv`: where each item in hand comes from, and that no message is opened twice; `CountInv`, `AttachedInv`: it was queued less often than its holder was gone through |
| `ContainersMembersProofs!SuccessesAreComplete` | `Spec => []SuccessIsComplete` | `CompleteInv`, `ToComeInv`: each member a success has to account for is accounted for (queued, emitted, logged, ignored or lost to Tika), or still to come in the pass at hand |
| `ContainersMembersProofs!HoldersEmitted` | `Spec => []HoldersAreEmitted` | the same: all messages inside of a success are in the store |
| `ContainersTablesProofs!TextHasTable` | `Spec => []NoOrphans` | `OrphansInv`: the same of the buffer, and that the table of the sheet being read is in it |
| `ContainersTablesProofs!WholeTables` | `Spec => []TablesAreWhole` | `ReadingInv`, `FragmentsInv`: a reading is where `Trace` is after as many rows, and every fragment, in the store or in the buffer, is one of `Flushes` |
| `ContainersTablesProofs!SuccessesHaveTables` | `Spec => []SuccessHasTables` | `SheetsInv`: each table of the file is to be read, or in hand, or buffered and logged if rows were left out, or has a name SQLite is not asked for |

`DoneIsComplete` is not inductive: it speaks of batches at the moment they are done, and
of files whose index job has been deferred. `MembersAccounted` follows a member from the
ingestor that finds it: it is still to be dealt with (`left`), or stored and about to be
queued (`member`), or there is a job for it, in the table, at a worker, stalled, or ended.
`UploadsAccounted` says the same of an answered upload, and `IndexedAccounted` of
the members of a file that was handed over. A done batch has no unfinished job, so the
jobs have ended. The files in `Fragile` and `Lenient` are left out of the second half
because a rejected file, or a mailbox with a message that was passed over, leaves members
behind and is handed over all the same.

`BatchKept` and `PromiseKept` are refinements: initial states map to initial states, and each step
to a step of the abstract specification or to none. In `BatchKept` the handing on is the hard case:
the work of all members is in the batch, which `MembersAccounted` gives, and what is given is of
that file, which `EmittedIsWritten` gives, whatever attempts went before.

Six theorems of `IngestPipelineProofs`, from `HandedOverStored` on, use the first one's types, and build on one another:
that nothing leaves the archive, the store and what was handed over (`NothingIsLost`), that every
unfinished job comes from an upload, a member or a job before it (`WhereJobsComeFrom`), and
that a job which owes a run goes on owing it, as itself or as the attempt after it, until its
ingestor returns or rejects its file (`OwingStays`). `StoredIsHandedOver` needs the last two
together: what a raising job has flushed is not deferred by it, but by its retry, which emits it
again because its bytes are still there.

The hard case of `PromiseKept` is `Defer`: the file it queues comes before all that are
ahead, which `InOrder` gives, and its bytes are there, or the run has looked for them in vain, which
`StoredFirst` gives, although the pool stores files in any order. `CrawlAssumption` says that the walk reaches each file once.
`LaterLinked` needs that no job but the last to end writes an email (`RepliesFound`), for a job
that failed half-way overwrites what an earlier one had written.

`CleanIsWhole` assumes, as `RenditionAssumption` says, that an image and a file read by tika
have one text: their ingestors write one (`image.py`, `tika.py`), and only a PDF has pages.

`IndexFollowsPages` would be inductive if a job wrote a document in one step. It does not: two jobs'
flushes interleave, and one of them may be between a page and its text. The property is about
documents whose last run succeeded and wrote all it wrote after whatever others did (`last`), and
`author` is what tells: a flush by another worker takes the authorship, and only a run that has it
from its first flush to its `Finalize` is `last`. That a page without a text leaves no
fragment is why the older fragment of such a page is not spoken of.

`ConversionsAreReused` bounds the PDFs made of a document, while several workers may look
for one before the first of them has remembered his. `WithinBudget` counts both the PDFs
there are and the workers that are making one: together they are within the bound; and while
no PDF is remembered, those there are must be paid for by a worker that is about to remember
his, by a job that broke off before it could, or by a clearing of the cache.
`RenditionAssumption` says that the workers are finitely many.

The routing is a computation: the bids of all twenty classes on a file (`BidsOfType`) as
a function of its type, its extension and its looks, and for each format the class that
leads. It needs `SignatureAssumption`, that a file is recognisable as what it is: libmagic, its
extension and its first bytes say what they do for files of its format (`Marks`), or the auction is
called off. What was declared for it is arbitrary.

`QueuedByHolder`, `SuccessIsComplete` and `HoldersAreEmitted` are inductive together only.
That an item is not queued twice in a pass needs that it is pending once, that no message is
opened twice, and for an email, where the sweep finds everything again, that what the walk
has queued is `seen`; that nothing is lost needs, in turn, that what is not `seen` is still
to be found. `HoldingAssumption` says how messages are inside of one another: by one holder
each, so that `Within` gives the messages a message is inside of.

`TablesAreWhole` compares what several passes wrote, each of which may have broken off. There is one
reading of a table (`Trace`, a function on its rows: the rows in the file, those in the
buffer and their size), so that all passes flush the same fragments (`Flushes`), and a later one
overwrites a fragment with itself. That these have every row once follows from
`Settled`, the number of rows flushed by then: a fragment has those that its last row
settled. Facts about all rows, as that `Trace` exists, are proved by
the least row that lacks them (`LeastOf`, `UpTo`), as the library's induction rules cannot be used.

Each theorem has the shape *Init implies the invariant; each action preserves it, one step
per action; the invariant implies the property; PTL*.

**Model-checked only.** Liveness (`BatchesEnd`, `RunsEnd`, `ConversionsEnd`) and the
fairness it rests on are out of the prover's reach, as is ENABLED. Every invariant that a passing run
checks is proved, and so are the action property `DoneIsStable` and both refinements, each named `KeepsPromise`. Induction over data by the
library's theorems is out of reach too; where it was needed, it is done by a least element. No
module declares a RECURSIVE operator.

## 5. What is not modelled

* Formats: what an ingestor reads in a file, metadata, encodings, languages, dates. They
  are sequential functions of the bytes.
* The stages analyze and index, procrastinate's retry of stalled jobs, the store's
  journal, the archive's own failures midway through a write: other programs.
* What a running job may still do after its dataset was deleted (`api.py:137`), and `make`: both are calls of
  other programs, and the repository promises nothing about them.
* In `Containers`, by which rule a member is left out: the rules are data (`Ignored`, `Misnamed`), so
  that a member may be left out in one holder and not in another.
* `temp_locale`: nothing states what other threads may rely on.
* Expiry of the redis sets (`REDIS_LONG`), retries by the libraries underneath.
* `components` in `PROJECT.json` has the reason for each part, and what is left out of the parts
  that are modelled in part.

## 6. Plan

In the order of importance; all are done.

1. `IngestPipeline` with its proofs: everything else runs inside its jobs.
2. `EmailThreading`: shared state between jobs.
3. `Crawl` and `CrawlPromise`: crash, resume, threads.
4. `Convert`: processes, timeouts, exit.
5. `Rendition`: caches across datasets and settings.
6. `Containers`: every row is in one fragment and no table is left an orphan; every attachment
   is queued once and by the level it belongs to; a failing member does not cost the ones
   beside it.
7. Tika, images and the clearing of the caches, in `Rendition`; `Auction`; the remaining formats of
   emails, archives and tables, in `Containers`; the proofs of the pipeline's safety properties.
8. Abstract specifications: `BatchPromise`, which `IngestPipeline` implements.
9. The proofs of all invariants of the runs.

## 7. Running it

    tlc -config IngestPipelineBatches.cfg MCIngestPipeline
    tlapm IngestPipelineProofs.tla

and likewise for the other rows of the tables. Every run takes less than three minutes on
two workers; the proofs of one module take up to four minutes.
