----------------------------- MODULE Rendition -----------------------------
(***************************************************************************)
(* How the text of a paged document is extracted.  An office document is   *)
(* rendered as a PDF by LibreOffice, a scan (djvu, tiff) by a tool; the    *)
(* pages are parsed, the images on them go through OCR, and each page is   *)
(* emitted as an entity and as a fragment of the document's index text.    *)
(* The two are put into the job's writer one after the other; the writer   *)
(* may flush at any put, and does at the end of the job.                   *)
(* An image is read by OCR alone, and what no ingestor is for by the Tika   *)
(* server: both have their text, their only page here, on the document.    *)
(*                                                                         *)
(* Three results are cached in the tags database, which all workers and    *)
(* all datasets share: the PDF of a document (its hash: the bytes are in   *)
(* the archive of a dataset), the text of an image in some languages, and  *)
(* Tika's answer.  A command clears them at any time.  The OCR engine      *)
(* belongs to a worker thread and keeps the models it was last initialised *)
(* with.                                                                   *)
(***************************************************************************)
EXTENDS Naturals, Sequences, FiniteSets, Bags, BagsExt

CONSTANTS
    Datasets,
    Docs,       \* documents, by content
    Kind,       \* what each document is, a member of Kinds
    Pages,      \* the images on each page of each document
    Damaged,    \* documents no tool can render, PDFs under a password
    Images,
    Readable,   \* images of a size OCR is tried on
    Languages,  \* the language settings of the jobs
    ModelOf,    \* the models the engine needs for each setting
    Loads,      \* the jobs there may be to run, bags of records of JobType
    Workers,    \* worker threads
    MaxLosses,  \* bound on unexpected exceptions, OCR attempts and questions to
                \* Tika that fail, killed workers, and times the caches are cleared
    Server,     \* reads in place of a model what Tika reads
    NoJob, NoModel

Paged == {"office", "scan", "pdf"}
Kinds == Paged \union {"image", "other"}

Models == {ModelOf[l] : l \in Languages}
JobType == [dataset: Datasets, doc: Docs, languages: Languages]

ASSUME RenditionAssumption ==
    /\ Kind \in [Docs -> Kinds]
    /\ Pages \in [Docs -> Seq(Seq(Images))]
    /\ Damaged \subseteq Docs /\ Readable \subseteq Images
    /\ \A d \in Docs \ Damaged : Kind[d] \in {"image", "other"} => Len(Pages[d]) = 1
    /\ DOMAIN ModelOf = Languages /\ NoModel \notin Models /\ Server \notin Models
    /\ \A load \in Loads : IsABag(load) /\ BagToSet(load) \subseteq JobType
    /\ NoJob \notin JobType
    /\ IsFiniteSet(Workers) /\ MaxLosses \in Nat

VARIABLES
    todo,       \* procrastinate: the jobs to run
    archive,    \* the PDFs in the archive of each dataset: <<dataset, document, PDF>>
    pdfTag,     \* tags: the PDF of each document, 0 for none
    ocrTag,     \* tags: the text of each image in each setting, as the models that read it
    tikaTag,    \* tags: what Tika said of each document
    pdfHash,    \* store: the PDF of each document's entity, 0 for none
    pageText,   \* store: the text of each page entity
    indexText,  \* store: the fragment of each page in the document's index text
    last,       \* the setting of the last run, if it succeeded and wrote everything after
                \* what others wrote, and whether all its OCR attempts did
    author,     \* the worker that has written last, if no other did since it began to
    made,       \* how many PDFs were made of each document
    pc, job,    \* what each worker is doing, on which job
    pdf,        \* the PDF it works on
    read,       \* the texts of the pages it has parsed
    images,     \* the images on the page at hand that it has not read yet
    sent,       \* how many fragments it has put into its writer: page p is put 2p - 1,
                \* its index text put 2p
    flushed,    \* how many of them its writer has written
    missed,     \* an OCR attempt failed in this job
    engine,     \* the models of its OCR engine
    faults, misses, crashes, clears

tags == <<pdfTag, ocrTag, tikaTag>>
store == <<pdfHash, pageText, indexText, last, author>>
text == <<read, images, sent, flushed, missed>>
worker == <<pc, job, pdf, text, engine>>
losses == <<faults, misses, crashes, clears>>
vars == <<todo, archive, tags, store, made, worker, losses>>

Entities == Datasets \X Docs
PageEntities == UNION {{<<s, d, p>> : s \in Datasets, p \in DOMAIN Pages[d]} : d \in Docs}

-----------------------------------------------------------------------------
(* Jobs *)

Loses == faults + misses + crashes + clears < MaxLosses
Goto(w, step) == pc' = [pc EXCEPT ![w] = step]
Doc(w) == job[w].doc
Entity(w) == <<job[w].dataset, job[w].doc>>

Fetch(w) ==
    /\ pc[w] = "idle"
    /\ \E j \in BagToSet(todo) :
        /\ todo' = BagRemove(todo, j)
        /\ job' = [job EXCEPT ![w] = j]
        /\ Goto(w, CASE Kind[j.doc] = "office" -> "lookup"
                     [] Kind[j.doc] = "scan" -> "render"
                     [] Kind[j.doc] \in {"pdf", "image"} -> "parse"
                     [] Kind[j.doc] = "other" -> "ask")
    /\ UNCHANGED <<archive, tags, store, made, pdf, text, engine, losses>>

(* Mutant: the pages of a job are still there in the next one. *)
Discard_Leaking(w) ==
    /\ Goto(w, "idle")
    /\ job' = [job EXCEPT ![w] = NoJob]
    /\ pdf' = [pdf EXCEPT ![w] = 0]
    /\ images' = [images EXCEPT ![w] = <<>>]
    /\ sent' = [sent EXCEPT ![w] = 0]
    /\ flushed' = [flushed EXCEPT ![w] = 0]
    /\ missed' = [missed EXCEPT ![w] = FALSE]
    /\ UNCHANGED read

(* The manager and its state go with the job; the thread's engine stays. *)
Discard(w) ==
    /\ Goto(w, "idle")
    /\ job' = [job EXCEPT ![w] = NoJob]
    /\ pdf' = [pdf EXCEPT ![w] = 0]
    /\ read' = [read EXCEPT ![w] = <<>>]
    /\ images' = [images EXCEPT ![w] = <<>>]
    /\ sent' = [sent EXCEPT ![w] = 0]
    /\ flushed' = [flushed EXCEPT ![w] = 0]
    /\ missed' = [missed EXCEPT ![w] = FALSE]

ArchivedPdf(w) == IF pc[w] \in {"convert", "render", "archive"} THEN 0 ELSE pdf[w]

(* A put of the worker's that its writer still has, of the first n. *)
Pending(w, put, n) == put > flushed[w] /\ put <= n

(* Mutant: one fragment for the index text of all pages. *)
Indexed_OneFragment(w, n) ==
    [e \in PageEntities |->
        IF <<e[1], e[2]>> = Entity(w) /\ Kind[e[2]] \in Paged /\ e[3] = 1
           /\ \E p \in DOMAIN read[w] : Pending(w, 2 * p, n) /\ read[w][p] # {}
        THEN read[w][CHOOSE p \in DOMAIN read[w] : Pending(w, 2 * p, n) /\ read[w][p] # {}]
        ELSE indexText[e]]

(* emit_text_fragment: a page without text leaves no fragment. *)
Indexed(w, n) ==
    [e \in PageEntities |->
        IF <<e[1], e[2]>> = Entity(w) /\ Pending(w, 2 * e[3], n) /\ read[w][e[3]] # {}
        THEN read[w][e[3]] ELSE indexText[e]]

(* A page has a fragment of its own, and so has what Tika says; the text of *)
(* an image is on the entity that each run emits.                          *)
Written(w, n) ==
    [e \in PageEntities |->
        IF <<e[1], e[2]>> # Entity(w) THEN pageText[e]
        ELSE IF Pending(w, 2 * e[3] - 1, n) THEN read[w][e[3]]
        ELSE IF Kind[e[2]] = "image" THEN {} ELSE pageText[e]]

(* No other job has written the document since this one began to. *)
WroteAlone(w) == flushed[w] = 0 \/ author[Entity(w)] = {w}

(* The writer flushes at its size: everything put so far. *)
Flush(w, n) ==
    /\ pageText' = Written(w, n)
    /\ indexText' = Indexed(w, n)
    /\ author' = [author EXCEPT ![Entity(w)] = IF WroteAlone(w) THEN {w} ELSE {}]
    /\ last' = [last EXCEPT ![Entity(w)] = {}]
    /\ flushed' = [flushed EXCEPT ![w] = n]
    /\ UNCHANGED pdfHash

(* The document's own fragment, and what the writer still has. *)
Finalize(w, setting) ==
    /\ pdfHash' = [pdfHash EXCEPT ![Entity(w)] = ArchivedPdf(w)]
    /\ pageText' = Written(w, sent[w])
    /\ indexText' = Indexed(w, sent[w])
    /\ last' = [last EXCEPT ![Entity(w)] = IF WroteAlone(w) THEN setting ELSE {}]
    /\ author' = [author EXCEPT ![Entity(w)] = {}]

-----------------------------------------------------------------------------
(* Rendering *)

(* Mutant: a tag is taken for a hit, whatever the archive has. *)
Lookup_TagOnly(w) ==
    /\ pc[w] = "lookup"
    /\ IF pdfTag[Doc(w)] # 0
       THEN /\ pdf' = [pdf EXCEPT ![w] = pdfTag[Doc(w)]]
            /\ Goto(w, "parse")
       ELSE /\ Goto(w, "convert")
            /\ UNCHANGED pdf
    /\ UNCHANGED <<todo, archive, tags, store, made, job, text, engine, losses>>

(* document_to_pdf: a hit is a tag whose PDF is in this dataset's archive. *)
Lookup(w) ==
    /\ pc[w] = "lookup"
    /\ IF pdfTag[Doc(w)] # 0 /\ <<job[w].dataset, Doc(w), pdfTag[Doc(w)]>> \in archive
       THEN /\ pdf' = [pdf EXCEPT ![w] = pdfTag[Doc(w)]]
            /\ Goto(w, "parse")
       ELSE /\ Goto(w, "convert")
            /\ UNCHANGED pdf
    /\ UNCHANGED <<todo, archive, tags, store, made, job, text, engine, losses>>

(* The PDF is a new one (it holds the time it was made), or the same again. *)
Produce(w) ==
    /\ Doc(w) \notin Damaged
    /\ \E n \in 1..(made[Doc(w)] + 1) :
        /\ pdf' = [pdf EXCEPT ![w] = n]
        /\ made' = [made EXCEPT ![Doc(w)] = IF n > @ THEN n ELSE @]
    /\ Goto(w, "archive")
    /\ UNCHANGED <<todo, archive, tags, store, job, text, engine, losses>>

(* _document_to_pdf: one LibreOffice or another. *)
Convert(w) == pc[w] = "convert" /\ Produce(w)

(* ddjvu or tiff2pdf: no cache. *)
Render(w) == pc[w] = "render" /\ Produce(w)

Archive(w) ==
    /\ pc[w] = "archive"
    /\ archive' = archive \union {<<job[w].dataset, Doc(w), pdf[w]>>}
    /\ Goto(w, IF Kind[Doc(w)] = "office" THEN "tag" ELSE "parse")
    /\ UNCHANGED <<todo, tags, store, made, job, pdf, text, engine, losses>>

(* Mutant: the PDF is archived, and not remembered. *)
Tag_Forgotten(w) ==
    /\ pc[w] = "tag"
    /\ Goto(w, "parse")
    /\ UNCHANGED <<todo, archive, tags, store, made, job, pdf, text, engine, losses>>

Tag(w) ==
    /\ pc[w] = "tag"
    /\ pdfTag' = [pdfTag EXCEPT ![Doc(w)] = pdf[w]]
    /\ Goto(w, "parse")
    /\ UNCHANGED <<todo, archive, ocrTag, tikaTag, store, made, job, pdf, text, engine, losses>>

-----------------------------------------------------------------------------
(* Parsing: PDFSupport.parse goes through all pages before any is emitted. *)

OpenPage(w) ==
    /\ pc[w] = "parse" /\ images[w] = <<>>
    /\ ~(Kind[Doc(w)] \in {"pdf", "image"} /\ Doc(w) \in Damaged)
    /\ IF Len(read[w]) < Len(Pages[Doc(w)])
       THEN /\ read' = [read EXCEPT ![w] = Append(@, {})]
            /\ images' = [images EXCEPT ![w] = Pages[Doc(w)][Len(read[w]) + 1]]
            /\ UNCHANGED pc
       ELSE /\ Goto(w, "emit")
            /\ UNCHANGED <<read, images>>
    /\ UNCHANGED <<todo, archive, tags, store, made, job, pdf, sent, flushed, missed, engine, losses>>

Key(w) == <<Head(images[w]), job[w].languages>>
NextImage(w) == images' = [images EXCEPT ![w] = Tail(@)]
AddText(w, model) ==
    read' = [read EXCEPT ![w][Len(read[w])] = @ \union {<<Head(images[w]), model>>}]

(* extract_ocr_text: an image out of the size range has no text. *)
SkipImage(w) ==
    /\ pc[w] = "parse" /\ images[w] # <<>> /\ Head(images[w]) \notin Readable
    /\ NextImage(w)
    /\ UNCHANGED <<todo, archive, tags, store, made, pc, job, pdf, read, sent, flushed, missed, engine, losses>>

CachedText(w) ==
    /\ pc[w] = "parse" /\ images[w] # <<>> /\ Head(images[w]) \in Readable
    /\ ocrTag[Key(w)] # NoModel
    /\ AddText(w, ocrTag[Key(w)])
    /\ NextImage(w)
    /\ UNCHANGED <<todo, archive, tags, store, made, pc, job, pdf, sent, flushed, missed, engine, losses>>

(* Mutant: the engine keeps the models it was created with. *)
Configured_Once(w) == IF engine[w] = NoModel THEN ModelOf[job[w].languages] ELSE engine[w]

(* configure_engine: the engine is initialised again for other models. *)
Configured(w) == ModelOf[job[w].languages]

Recognize(w) ==
    /\ pc[w] = "parse" /\ images[w] # <<>> /\ Head(images[w]) \in Readable
    /\ ocrTag[Key(w)] = NoModel
    /\ engine' = [engine EXCEPT ![w] = Configured(w)]
    /\ ocrTag' = [ocrTag EXCEPT ![Key(w)] = Configured(w)]
    /\ AddText(w, Configured(w))
    /\ NextImage(w)
    /\ UNCHANGED <<todo, archive, pdfTag, tikaTag, store, made, pc, job, pdf, sent, flushed, missed, losses>>

(* extract_text: any exception is logged and costs the page this image, in *)
(* this job; nothing is cached.                                            *)
FailToRecognize(w) ==
    /\ pc[w] = "parse" /\ images[w] # <<>> /\ Head(images[w]) \in Readable
    /\ ocrTag[Key(w)] = NoModel
    /\ Loses
    /\ misses' = misses + 1
    /\ engine' \in {engine, [engine EXCEPT ![w] = Configured(w)]}
    /\ missed' = [missed EXCEPT ![w] = TRUE]
    /\ NextImage(w)
    /\ UNCHANGED <<todo, archive, tags, store, made, pc, job, pdf, read, sent, flushed, faults, crashes, clears>>

-----------------------------------------------------------------------------
(* Tika *)

Reader(d, setting) == IF Kind[d] = "other" THEN Server ELSE ModelOf[setting]
ImagesOn(d, p) == {Pages[d][p][n] : n \in DOMAIN Pages[d][p]}

(* The document as the server reads it. *)
TakeAnswer(w) ==
    /\ read' = [read EXCEPT ![w] = <<{<<i, Server>> : i \in Readable \intersect ImagesOn(Doc(w), 1)}>>]
    /\ Goto(w, "emit")
    /\ UNCHANGED <<todo, archive, pdfTag, ocrTag, store, made, job, pdf, images, sent, flushed, missed, engine>>

AnswerCached(w) ==
    /\ pc[w] = "ask" /\ tikaTag[Doc(w)] = "text"
    /\ TakeAnswer(w)
    /\ UNCHANGED <<tikaTag, losses>>

Ask(w) ==
    /\ pc[w] = "ask" /\ tikaTag[Doc(w)] # "text" /\ Doc(w) \notin Damaged
    /\ tikaTag' = [tikaTag EXCEPT ![Doc(w)] = "text"]
    /\ TakeAnswer(w)
    /\ UNCHANGED losses

(* Mutant: the status of the answer is not looked at. *)
AskInVain_Accepted(w) ==
    /\ pc[w] = "ask" /\ tikaTag[Doc(w)] # "text" /\ Loses
    /\ misses' = misses + 1
    /\ tikaTag' = [tikaTag EXCEPT ![Doc(w)] = "error"]
    /\ read' = [read EXCEPT ![w] = <<{}>>]
    /\ Goto(w, "emit")
    /\ UNCHANGED <<todo, archive, pdfTag, ocrTag, store, made, job, pdf, images, sent, flushed, missed,
                   engine, faults, crashes, clears>>

(* An answer with an error, while the server restarts, say: it is neither  *)
(* cached nor taken for a document without text.                           *)
AskInVain(w) ==
    /\ pc[w] = "ask" /\ tikaTag[Doc(w)] # "text" /\ Loses
    /\ misses' = misses + 1
    /\ Finalize(w, {})
    /\ Discard(w)
    /\ UNCHANGED <<todo, archive, tags, made, engine, faults, crashes, clears>>

-----------------------------------------------------------------------------
(* How a job ends *)

Put(w) ==
    /\ sent' = [sent EXCEPT ![w] = @ + 1]
    /\ \/ UNCHANGED <<store, flushed>>
       \/ Kind[Doc(w)] # "image" /\ Flush(w, sent[w] + 1)
    /\ UNCHANGED <<todo, archive, tags, made, pc, job, pdf, read, images, missed, engine, losses>>

(* extract_pages: the page entity first; or the text of the document. *)
EmitPage(w) ==
    /\ pc[w] = "emit"
    /\ \E p \in DOMAIN read[w] : sent[w] = 2 * p - 2
    /\ Put(w)

(* Then the page's fragment of the index text, if it has a text. *)
EmitText(w) ==
    /\ pc[w] = "emit" /\ Kind[Doc(w)] \in Paged
    /\ \E p \in DOMAIN read[w] :
        /\ sent[w] = 2 * p - 1
        /\ \/ read[w][p] # {} /\ Put(w)
           \/ /\ read[w][p] = {}
              /\ sent' = [sent EXCEPT ![w] = @ + 1]
              /\ UNCHANGED <<todo, archive, tags, store, made, pc, job, pdf, read, images, flushed,
                             missed, engine, losses>>

Puts(w) == IF Kind[Doc(w)] \in Paged THEN 2 * Len(read[w]) ELSE Len(read[w])

Succeed(w) ==
    /\ pc[w] = "emit" /\ sent[w] = Puts(w)
    /\ Finalize(w, {<<job[w].languages, ~missed[w]>>})
    /\ Discard(w)
    /\ UNCHANGED <<todo, archive, tags, made, engine, losses>>

(* A ProcessingException: no PDF can be made of the document, or it is a   *)
(* PDF under a password, a broken image, a file that Tika cannot read.     *)
Reject(w) ==
    /\ \/ pc[w] \in {"convert", "render", "ask"}
       \/ pc[w] = "parse" /\ Kind[Doc(w)] \in {"pdf", "image"}
    /\ Doc(w) \in Damaged
    /\ Finalize(w, {})
    /\ Discard(w)
    /\ UNCHANGED <<todo, archive, tags, made, engine, losses>>

(* Any other exception: the job is run again, unless the ingestor takes it *)
(* for a fault of the file; that of a tool may be taken so or not.          *)
Raise(w) ==
    /\ pc[w] # "idle" /\ Loses
    /\ faults' = faults + 1
    /\ Finalize(w, {})
    /\ Discard(w)
    /\ \/ Kind[Doc(w)] \notin {"pdf", "image", "other"} /\ todo' = BagAdd(todo, job[w])
       \/ (Kind[Doc(w)] \in {"pdf", "image", "other"} \/ pc[w] \in {"convert", "render"}) /\ UNCHANGED todo
    /\ UNCHANGED <<archive, tags, made, engine, misses, crashes, clears>>

(* The worker is killed: what it had not flushed is lost, and its engine. *)
Crash(w) ==
    /\ pc[w] # "idle" /\ Loses
    /\ crashes' = crashes + 1
    /\ engine' = [engine EXCEPT ![w] = NoModel]
    /\ Discard(w)
    /\ UNCHANGED <<todo, archive, tags, store, made, faults, misses, clears>>

(* cache_clear, with a prefix or without one. *)
ClearCache ==
    /\ Loses
    /\ clears' = clears + 1
    /\ \E cleared \in {{"pdf"}, {"ocr"}, {"tika"}, {"pdf", "ocr", "tika"}} :
        /\ pdfTag' = IF "pdf" \in cleared THEN [d \in Docs |-> 0] ELSE pdfTag
        /\ ocrTag' = IF "ocr" \in cleared THEN [k \in Images \X Languages |-> NoModel] ELSE ocrTag
        /\ tikaTag' = IF "tika" \in cleared THEN [d \in Docs |-> "none"] ELSE tikaTag
    /\ UNCHANGED <<todo, archive, store, made, worker, faults, misses, crashes>>

Step(w) ==
    \/ Fetch(w) \/ Lookup(w) \/ Convert(w) \/ Render(w) \/ Archive(w) \/ Tag(w)
    \/ OpenPage(w) \/ SkipImage(w) \/ CachedText(w) \/ Recognize(w) \/ FailToRecognize(w)
    \/ AnswerCached(w) \/ Ask(w) \/ AskInVain(w) \/ EmitPage(w) \/ EmitText(w) \/ Succeed(w) \/ Reject(w)

Done == BagToSet(todo) = {} /\ \A w \in Workers : pc[w] = "idle"

Init ==
    /\ todo \in Loads
    /\ archive = {}
    /\ pdfTag = [d \in Docs |-> 0]
    /\ ocrTag = [k \in Images \X Languages |-> NoModel]
    /\ tikaTag = [d \in Docs |-> "none"]
    /\ pdfHash = [e \in Entities |-> 0]
    /\ pageText = [e \in PageEntities |-> {}]
    /\ indexText = [e \in PageEntities |-> {}]
    /\ last = [e \in Entities |-> {}]
    /\ author = [e \in Entities |-> {}]
    /\ made = [d \in Docs |-> 0]
    /\ pc = [w \in Workers |-> "idle"]
    /\ job = [w \in Workers |-> NoJob]
    /\ pdf = [w \in Workers |-> 0]
    /\ read = [w \in Workers |-> <<>>]
    /\ images = [w \in Workers |-> <<>>]
    /\ sent = [w \in Workers |-> 0]
    /\ flushed = [w \in Workers |-> 0]
    /\ missed = [w \in Workers |-> FALSE]
    /\ engine = [w \in Workers |-> NoModel]
    /\ faults = 0 /\ misses = 0 /\ crashes = 0 /\ clears = 0

Next ==
    \/ \E w \in Workers : Step(w) \/ Raise(w) \/ Crash(w)
    \/ ClearCache
    \/ Done /\ UNCHANGED vars

Spec == Init /\ [][Next]_vars

-----------------------------------------------------------------------------
(* Properties *)

Readings == Images \X (Models \union {Server})

(* Every variable has its type; a worker has no pages that its document     *)
(* lacks, and emits none it has not read.                                   *)
TypeOK ==
    /\ IsABag(todo) /\ BagToSet(todo) \subseteq JobType
    /\ archive \subseteq Datasets \X Docs \X Nat
    /\ pdfTag \in [Docs -> Nat]
    /\ ocrTag \in [Images \X Languages -> Models \union {NoModel}]
    /\ tikaTag \in [Docs -> {"none", "text", "error"}]
    /\ pdfHash \in [Entities -> Nat]
    /\ pageText \in [PageEntities -> SUBSET Readings]
    /\ indexText \in [PageEntities -> SUBSET Readings]
    /\ last \in [Entities -> SUBSET (Languages \X BOOLEAN)]
    /\ author \in [Entities -> SUBSET Workers]
    /\ made \in [Docs -> Nat]
    /\ pc \in [Workers -> {"idle", "lookup", "convert", "render", "archive", "tag", "parse", "ask", "emit"}]
    /\ job \in [Workers -> JobType \union {NoJob}]
    /\ pdf \in [Workers -> Nat]
    /\ read \in [Workers -> Seq(SUBSET Readings)]
    /\ images \in [Workers -> Seq(Images)]
    /\ sent \in [Workers -> Nat]
    /\ flushed \in [Workers -> Nat]
    /\ \A w \in Workers :
        /\ flushed[w] <= sent[w] /\ sent[w] <= 2 * Len(read[w])
        /\ pc[w] # "idle" => Len(read[w]) <= Len(Pages[Doc(w)])
    /\ missed \in [Workers -> BOOLEAN]
    /\ engine \in [Workers -> Models \union {NoModel}]
    /\ faults + misses + crashes + clears \in 0..MaxLosses

(* The PDF an entity names is in the archive of its dataset, though the     *)
(* cache that named it is shared by all datasets (convert.py:261-271).      *)
PdfIsArchived ==
    \A e \in Entities : pdfHash[e] # 0 => <<e[1], e[2], pdfHash[e]>> \in archive

(* A document of one dataset only is not converted again, unless the cache *)
(* was cleared: each worker and each run that broke off makes one PDF of it *)
(* at most (convert.py:263-278).                                           *)
ConversionsAreReused ==
    \A s \in Datasets, d \in Docs :
        LET in(r) == {n \in 1..made[d] : <<r, d, n>> \in archive}
        IN  Kind[d] = "office" /\ (\A r \in Datasets \ {s} : in(r) = {}) =>
                Cardinality(in(s)) <= Cardinality(Workers) * (clears + 1) + faults + crashes

(* Once a document has been ingested without a failure, every page holds    *)
(* the text of all its images, read with the models of that job's           *)
(* languages: neither an engine set up for the job before, nor a failure of *)
(* an earlier job, gets into it through the cache (ocr.py:61-74, 91-102).   *)
(* What went through Tika holds the document's text: an answer with an      *)
(* error is not taken for a document without one (tika.py:55-66).          *)
CleanRunIsWhole ==
    \A e \in PageEntities, l \in Languages : <<l, TRUE>> \in last[<<e[1], e[2]>>] =>
        pageText[e] = {<<i, Reader(e[2], l)>> : i \in Readable \intersect ImagesOn(e[2], e[3])}

(* Where the last run that wrote a document went through, the document's   *)
(* index text has each page as its page entity has it, though the two are   *)
(* put one after the other, the writer flushes between any two puts, and    *)
(* runs that broke off there or that read the pages in another language    *)
(* went before it or at the same time (pdf.py:100-110, manager.py:183-189).*)
IndexFollowsPages ==
    \A e \in PageEntities :
        Kind[e[2]] \in Paged /\ last[<<e[1], e[2]>>] # {} /\ pageText[e] # {} => indexText[e] = pageText[e]

=============================================================================
