-------------------------- MODULE RenditionProofs --------------------------
(***************************************************************************)
(* Proofs about Rendition: the types; that a document ingested without a   *)
(* failure has the text of all its pages, and that the index text follows  *)
(* the pages; that no entity names a PDF its dataset's archive lacks, and  *)
(* that a document is converted no more often than it must be.             *)
(*                                                                         *)
(* Inductive together: the cache of OCR holds readings by the right models *)
(* (CachesAreSound), a page that a worker has read holds the text of all   *)
(* its images but for those it has still to read (WorkerReads), and what   *)
(* its writer has flushed is in the store while no other job has written   *)
(* the document (WorkerWrote); what a worker is about to name in the store *)
(* is archived (WorkerPdfArchived); and the conversions made and under way *)
(* are within their budget, with room for those that may follow while no   *)
(* tag is set (WithinBudget).                                              *)
(***************************************************************************)
EXTENDS Rendition, TLAPS

FS == INSTANCE FiniteSetTheorems

USE RenditionAssumption

-----------------------------------------------------------------------------
(* Types *)

Steps == {"idle", "lookup", "convert", "render", "archive", "tag", "parse", "ask", "emit"}

(* The type of each variable; the bag of jobs by its members.              *)
VariableTypes ==
    /\ IsABag(todo) /\ BagToSet(todo) \subseteq JobType
    /\ archive \subseteq Datasets \X Docs \X Nat
    /\ pdfTag \in [Docs -> Nat]
    /\ ocrTag \in [Images \X Languages -> Models \union {NoModel}]
    /\ tikaTag \in [Docs -> {"none", "text", "error"}]
    /\ pdfHash \in [Entities -> Nat]
    /\ pageText \in [PageEntities -> SUBSET Readings]
    /\ indexText \in [PageEntities -> SUBSET Readings]
    /\ last \in [Entities -> SUBSET (Languages \X BOOLEAN)]
    /\ author \in [Entities -> SUBSET Workers]
    /\ made \in [Docs -> Nat]
    /\ pc \in [Workers -> Steps]
    /\ job \in [Workers -> JobType \union {NoJob}]
    /\ pdf \in [Workers -> Nat]
    /\ read \in [Workers -> Seq(SUBSET Readings)]
    /\ images \in [Workers -> Seq(Images)]
    /\ sent \in [Workers -> Nat]
    /\ flushed \in [Workers -> Nat]
    /\ missed \in [Workers -> BOOLEAN]
    /\ engine \in [Workers -> Models \union {NoModel}]
    /\ faults + misses + crashes + clears \in 0..MaxLosses

Counters == faults \in Nat /\ misses \in Nat /\ crashes \in Nat /\ clears \in Nat

(* A worker that is busy has a job, of a document it is the one to take. *)
WorkerHasJob(w) ==
    /\ pc[w] # "idle" => job[w] \in JobType /\ Len(read[w]) <= Len(Pages[Doc(w)])
    /\ flushed[w] <= sent[w] /\ sent[w] <= 2 * Len(read[w])
    /\ pc[w] \in {"idle", "lookup", "convert", "render", "archive", "tag", "ask"} =>
        read[w] = <<>> /\ images[w] = <<>> /\ sent[w] = 0
    /\ pc[w] \in {"lookup", "convert", "render", "archive", "tag", "parse"} => Kind[Doc(w)] # "other"
    /\ pc[w] = "ask" => Kind[Doc(w)] = "other"
    /\ pc[w] = "render" => Kind[Doc(w)] = "scan"
    /\ pc[w] = "parse" => (read[w] = <<>> => images[w] = <<>>) /\ sent[w] = 0
    /\ pc[w] = "emit" =>
        /\ Len(read[w]) = Len(Pages[Doc(w)])
        /\ Kind[Doc(w)] \notin Paged => Len(read[w]) = 1
        /\ Kind[Doc(w)] = "image" => flushed[w] = 0

(* What a cache holds was read by the right models, in a sound document.    *)
CachesAreSound ==
    /\ \A k \in Images \X Languages : ocrTag[k] # NoModel => ocrTag[k] = ModelOf[k[2]]
    /\ \A d \in Docs : tikaTag[d] = "text" => d \notin Damaged

TypeInv == VariableTypes /\ Counters /\ CachesAreSound /\ \A w \in Workers : WorkerHasJob(w)

(* Adding a job to a bag of jobs, or removing one, gives a bag of jobs. *)
LEMMA BagOfJobs ==
    ASSUME NEW B, IsABag(B), NEW j
    PROVE  /\ IsABag(BagAdd(B, j)) /\ BagToSet(BagAdd(B, j)) = BagToSet(B) \union {j}
           /\ IsABag(BagRemove(B, j)) /\ BagToSet(BagRemove(B, j)) \subseteq BagToSet(B)
BY DEF IsABag, BagToSet, BagAdd, BagRemove

(* At first the caches and the store are empty, and the workers idle. *)
LEMMA TypeInit == Init => TypeInv
<1> SUFFICES ASSUME Init PROVE TypeInv
  OBVIOUS
<1>1. VariableTypes
  BY DEF Init, VariableTypes, Steps
<1>2. Counters /\ CachesAreSound /\ \A w \in Workers : WorkerHasJob(w)
  BY DEF Init, Counters, CachesAreSound, WorkerHasJob
<1> QED BY <1>1, <1>2 DEF TypeInv

(* A step of a worker keeps what holds of the others. *)
LEMMA OthersHaveJobs ==
    ASSUME TypeInv, NEW w \in Workers, NEW v \in Workers, v # w,
           pc'[v] = pc[v], job'[v] = job[v], read'[v] = read[v], images'[v] = images[v],
           sent'[v] = sent[v], flushed'[v] = flushed[v]
    PROVE  WorkerHasJob(v)'
BY DEF TypeInv, WorkerHasJob, Doc

(* A page entity names a page of a document of a dataset. *)
LEMMA PageType ==
    ASSUME NEW e \in PageEntities
    PROVE  /\ e[1] \in Datasets /\ e[2] \in Docs /\ e[3] \in DOMAIN Pages[e[2]]
           /\ e[3] \in Nat /\ e[3] >= 1 /\ e = <<e[1], e[2], e[3]>> /\ <<e[1], e[2]>> \in Entities
<1>1. PICK s \in Datasets, d \in Docs : \E n \in DOMAIN Pages[d] : e = <<s, d, n>>
  BY DEF PageEntities
<1>2. Pages[d] \in Seq(Seq(Images))
  BY <1>1
<1>3. PICK n \in 1..Len(Pages[d]) : e = <<s, d, n>>
  BY <1>1, <1>2
<1> QED BY <1>1, <1>2, <1>3 DEF Entities

(* What a writer writes are texts that its worker has read. *)
LEMMA WrittenTypes ==
    ASSUME TypeInv, NEW w \in Workers, NEW n \in Nat, n <= 2 * Len(read[w])
    PROVE  /\ Written(w, n) \in [PageEntities -> SUBSET Readings]
           /\ Indexed(w, n) \in [PageEntities -> SUBSET Readings]
<1>1. read[w] \in Seq(SUBSET Readings) /\ flushed[w] \in Nat
  BY DEF TypeInv, VariableTypes
<1>2. ASSUME NEW e \in PageEntities, Pending(w, 2 * e[3] - 1, n) \/ Pending(w, 2 * e[3], n)
      PROVE  read[w][e[3]] \in SUBSET Readings
  <2>1. e[3] \in Nat /\ e[3] >= 1
    BY PageType
  <2>2. Len(read[w]) \in Nat
    BY <1>1
  <2>3. e[3] \in 1..Len(read[w])
    BY <1>2, <2>1, <2>2 DEF Pending
  <2> QED BY <1>1, <2>3
<1>3. /\ pageText \in [PageEntities -> SUBSET Readings]
      /\ indexText \in [PageEntities -> SUBSET Readings]
  BY DEF TypeInv, VariableTypes
<1> QED BY <1>2, <1>3 DEF Written, Indexed

(* The end of a job: its pages are written, and the worker is idle. *)
LEMMA FinalizeTypes ==
    ASSUME TypeInv, NEW w \in Workers, pc[w] # "idle", NEW setting \in SUBSET (Languages \X BOOLEAN),
           Finalize(w, setting), Discard(w), UNCHANGED <<archive, tags, made, engine>>,
           todo' \in {todo, BagAdd(todo, job[w])},
           Counters', (faults + misses + crashes + clears)' \in 0..MaxLosses
    PROVE  TypeInv'
<1>1. job[w] \in JobType /\ Entity(w) \in Entities
  BY DEF TypeInv, WorkerHasJob, JobType, Entity, Entities
<1>2. IsABag(todo') /\ BagToSet(todo') \subseteq JobType
  BY <1>1, BagOfJobs DEF TypeInv, VariableTypes
<1>3. /\ pdfHash' \in [Entities -> Nat]
      /\ last' \in [Entities -> SUBSET (Languages \X BOOLEAN)]
      /\ author' \in [Entities -> SUBSET Workers]
  BY <1>1 DEF TypeInv, VariableTypes, Finalize, ArchivedPdf
<1>4. sent[w] \in Nat /\ sent[w] <= 2 * Len(read[w])
  BY DEF TypeInv, VariableTypes, WorkerHasJob
<1>5. pageText' \in [PageEntities -> SUBSET Readings]
  BY <1>4, WrittenTypes DEF Finalize
<1>6. indexText' \in [PageEntities -> SUBSET Readings]
  BY <1>4, WrittenTypes DEF Finalize
<1>7. VariableTypes'
  <2>1. /\ pc' \in [Workers -> Steps] /\ job' \in [Workers -> JobType \union {NoJob}]
        /\ pdf' \in [Workers -> Nat] /\ read' \in [Workers -> Seq(SUBSET Readings)]
        /\ images' \in [Workers -> Seq(Images)] /\ sent' \in [Workers -> Nat]
        /\ flushed' \in [Workers -> Nat] /\ missed' \in [Workers -> BOOLEAN]
    BY DEF TypeInv, VariableTypes, Discard, Goto, Steps
  <2>2. UNCHANGED <<archive, pdfTag, ocrTag, tikaTag, made, engine>>
    BY DEF tags
  <2> QED BY <1>2, <1>3, <1>5, <1>6, <2>1, <2>2 DEF TypeInv, VariableTypes
<1>8. WorkerHasJob(w)'
  BY DEF TypeInv, VariableTypes, Discard, Goto, WorkerHasJob
<1>9. ASSUME NEW v \in Workers, v # w PROVE WorkerHasJob(v)'
  BY <1>9, OthersHaveJobs DEF TypeInv, VariableTypes, Discard, Goto
<1> QED BY <1>7, <1>8, <1>9 DEF TypeInv, CachesAreSound, tags

(* Fetching a job, finding or making its PDF. *)
LEMMA RenderingTypes ==
    ASSUME TypeInv, NEW w \in Workers,
           Fetch(w) \/ Lookup(w) \/ Convert(w) \/ Render(w) \/ Archive(w) \/ Tag(w)
    PROVE  TypeInv'
<1>1. CASE Fetch(w)
  <2>1. PICK j \in BagToSet(todo) :
          /\ todo' = BagRemove(todo, j)
          /\ job' = [job EXCEPT ![w] = j]
          /\ Goto(w, CASE Kind[j.doc] = "office" -> "lookup"
                       [] Kind[j.doc] = "scan" -> "render"
                       [] Kind[j.doc] \in {"pdf", "image"} -> "parse"
                       [] Kind[j.doc] = "other" -> "ask")
    BY <1>1 DEF Fetch
  <2>2. j \in JobType /\ j.doc \in Docs
    BY DEF TypeInv, VariableTypes, JobType
  <2>3. PICK step \in {"lookup", "render", "parse", "ask"} :
          /\ pc' = [pc EXCEPT ![w] = step]
          /\ step = "ask" <=> Kind[j.doc] = "other"
          /\ step = "render" => Kind[j.doc] = "scan"
    BY <2>1, <2>2 DEF Goto, Kinds, Paged
  <2>4. IsABag(todo') /\ BagToSet(todo') \subseteq JobType
    BY <2>1, BagOfJobs DEF TypeInv, VariableTypes
  <2>5. UNCHANGED <<archive, tags, store, made, pdf, text, engine, losses>> /\ pc[w] = "idle"
    BY <1>1 DEF Fetch
  <2>6. VariableTypes'
    BY <2>1, <2>2, <2>3, <2>4, <2>5 DEF TypeInv, VariableTypes, WorkerHasJob, tags, store, text, losses, Steps
  <2>7. WorkerHasJob(w)'
    BY <2>1, <2>2, <2>3, <2>5 DEF TypeInv, VariableTypes, WorkerHasJob, text, Doc
  <2>8. ASSUME NEW v \in Workers, v # w PROVE WorkerHasJob(v)'
    BY <2>1, <2>3, <2>5, <2>8, OthersHaveJobs DEF TypeInv, VariableTypes, text
  <2> QED BY <2>5, <2>6, <2>7, <2>8 DEF TypeInv, CachesAreSound, Counters, tags, losses
<1>2. CASE Lookup(w) \/ Convert(w) \/ Render(w) \/ Archive(w) \/ Tag(w)
  <2>1. pc[w] # "idle" /\ job[w] \in JobType /\ Doc(w) \in Docs /\ job[w].dataset \in Datasets
    BY <1>2 DEF TypeInv, WorkerHasJob, JobType, Doc, Lookup, Convert, Render, Archive, Tag
  <2>2. /\ UNCHANGED <<todo, ocrTag, tikaTag, store, job, text, engine, losses>>
        /\ \E step \in {"parse", "convert", "archive", "tag"} : pc' = [pc EXCEPT ![w] = step]
        /\ pc[w] \in {"lookup", "convert", "render", "archive", "tag"}
    BY <1>2 DEF Lookup, Convert, Render, Produce, Archive, Tag, Goto, tags
  <2>3. /\ pdf' \in [Workers -> Nat] /\ pdfTag' \in [Docs -> Nat] /\ made' \in [Docs -> Nat]
        /\ archive' \subseteq Datasets \X Docs \X Nat
    <3>1. CASE Lookup(w)
      BY <3>1, <2>1 DEF TypeInv, VariableTypes, Lookup, tags
    <3>2. CASE Convert(w) \/ Render(w)
      <4>1. made[Doc(w)] \in Nat
        BY <2>1 DEF TypeInv, VariableTypes
      <4>2. PICK n \in 1..(made[Doc(w)] + 1) :
              /\ pdf' = [pdf EXCEPT ![w] = n]
              /\ made' = [made EXCEPT ![Doc(w)] = IF n > @ THEN n ELSE @]
        BY <3>2 DEF Convert, Render, Produce
      <4>3. n \in Nat /\ UNCHANGED <<pdfTag, archive>>
        BY <3>2, <4>1, <4>2 DEF Convert, Render, Produce, tags
      <4> QED BY <4>1, <4>2, <4>3, <2>1 DEF TypeInv, VariableTypes
    <3>3. CASE Archive(w)
      BY <3>3, <2>1 DEF TypeInv, VariableTypes, Archive, tags
    <3>4. CASE Tag(w)
      BY <3>4, <2>1 DEF TypeInv, VariableTypes, Tag, tags
    <3> QED BY <1>2, <3>1, <3>2, <3>3, <3>4
  <2>4. VariableTypes'
    <3>1. pc' \in [Workers -> Steps]
      BY <2>2 DEF TypeInv, VariableTypes, Steps
    <3>2. UNCHANGED <<todo, ocrTag, tikaTag, pdfHash, pageText, indexText, last, author, job, read, images,
                      sent, flushed, missed, engine, faults, misses, crashes, clears>>
      BY <2>2 DEF store, text, losses
    <3> QED BY <3>1, <3>2, <2>3 DEF TypeInv, VariableTypes
  <2>5. WorkerHasJob(w)'
    BY <2>1, <2>2 DEF TypeInv, VariableTypes, WorkerHasJob, text, Doc
  <2>6. ASSUME NEW v \in Workers, v # w PROVE WorkerHasJob(v)'
    BY <2>2, <2>6, OthersHaveJobs DEF TypeInv, VariableTypes, text
  <2> QED BY <2>2, <2>4, <2>5, <2>6 DEF TypeInv, CachesAreSound, Counters, losses
<1> QED BY <1>1, <1>2

(* What SkipImage, CachedText, Recognize and FailToRecognize have in common:*)
(* a reading is added to the last page, or none, and one image is done.     *)
ReadOne(w, more) ==
    /\ pc[w] = "parse" /\ images[w] # <<>>
    /\ images' = [images EXCEPT ![w] = Tail(@)]
    /\ read' = [read EXCEPT ![w][Len(read[w])] = @ \union more]
    /\ UNCHANGED <<pc, job, sent, flushed>>

(* The image at hand is one, and its page has been opened. *)
LEMMA AtImage ==
    ASSUME TypeInv, NEW w \in Workers, pc[w] = "parse", images[w] # <<>>
    PROVE  /\ Head(images[w]) \in Images /\ Tail(images[w]) \in Seq(Images)
           /\ read[w] \in Seq(SUBSET Readings) /\ Len(read[w]) \in 1..Len(Pages[Doc(w)])
           /\ job[w] \in JobType /\ job[w].languages \in Languages /\ Doc(w) \in Docs
           /\ Key(w) \in Images \X Languages
           /\ Key(w)[1] = Head(images[w]) /\ Key(w)[2] = job[w].languages
           /\ ModelOf[job[w].languages] \in Models
<1>1. images[w] \in Seq(Images) /\ read[w] \in Seq(SUBSET Readings) /\ read[w] # <<>>
  BY DEF TypeInv, VariableTypes, WorkerHasJob
<1>2. job[w] \in JobType /\ Len(read[w]) <= Len(Pages[Doc(w)])
  BY DEF TypeInv, WorkerHasJob
<1>3. job[w].languages \in Languages /\ Doc(w) \in Docs
  BY <1>2 DEF JobType, Doc
<1>4. Len(read[w]) \in Nat /\ Len(read[w]) # 0 /\ Len(Pages[Doc(w)]) \in Nat
  BY <1>1, <1>3
<1> QED BY <1>1, <1>2, <1>3, <1>4 DEF Key, Models

(* Reading one image keeps the worker's types. *)
LEMMA ReadOneTypes ==
    ASSUME TypeInv, NEW w \in Workers, NEW more \in SUBSET Readings, ReadOne(w, more)
    PROVE  /\ images' \in [Workers -> Seq(Images)] /\ read' \in [Workers -> Seq(SUBSET Readings)]
           /\ \A v \in Workers : WorkerHasJob(v)'
<1>1. pc[w] = "parse" /\ images[w] # <<>>
  BY DEF ReadOne
<1>2. images' \in [Workers -> Seq(Images)]
  BY <1>1, AtImage DEF ReadOne, TypeInv, VariableTypes
<1>3. /\ [read[w] EXCEPT ![Len(read[w])] = @ \union more] \in Seq(SUBSET Readings)
      /\ Len([read[w] EXCEPT ![Len(read[w])] = @ \union more]) = Len(read[w])
  BY <1>1, AtImage
<1>4. read' \in [Workers -> Seq(SUBSET Readings)] /\ Len(read'[w]) = Len(read[w]) /\ read'[w] # <<>>
  <2>1. read \in [Workers -> Seq(SUBSET Readings)]
    BY DEF TypeInv, VariableTypes
  <2>2. read' = [read EXCEPT ![w] = [read[w] EXCEPT ![Len(read[w])] = @ \union more]]
    BY DEF ReadOne
  <2>3. read'[w] = [read[w] EXCEPT ![Len(read[w])] = @ \union more]
    BY <2>1, <2>2
  <2>4. read' \in [Workers -> Seq(SUBSET Readings)] /\ Len(read'[w]) = Len(read[w])
    BY <1>3, <2>1, <2>2, <2>3
  <2>5. Len(read[w]) # 0
    BY <1>1, AtImage
  <2>6. Len(<<>>) = 0
    OBVIOUS
  <2> QED BY <2>4, <2>5, <2>6
<1>5. WorkerHasJob(w)'
  BY <1>1, <1>4, AtImage DEF ReadOne, TypeInv, WorkerHasJob, Doc
<1>6. ASSUME NEW v \in Workers, v # w PROVE WorkerHasJob(v)'
  BY <1>6, OthersHaveJobs DEF ReadOne, TypeInv, VariableTypes
<1> QED BY <1>2, <1>4, <1>5, <1>6

(* The four steps, by the readings they add. *)
LEMMA ImageSteps ==
    ASSUME TypeInv, NEW w \in Workers
    PROVE  /\ SkipImage(w) => ReadOne(w, {})
           /\ CachedText(w) => ReadOne(w, {<<Head(images[w]), ModelOf[job[w].languages]>>})
           /\ Recognize(w) => ReadOne(w, {<<Head(images[w]), ModelOf[job[w].languages]>>})
           /\ FailToRecognize(w) => ReadOne(w, {})
<1>1. ASSUME UNCHANGED read, pc[w] = "parse", images[w] # <<>>
      PROVE  read' = [read EXCEPT ![w][Len(read[w])] = @ \union {}]
  <2>1. read[w] = [read[w] EXCEPT ![Len(read[w])] = @ \union {}]
    BY <1>1, AtImage
  <2> QED BY <1>1, <2>1 DEF TypeInv, VariableTypes
<1>2. SkipImage(w) => ReadOne(w, {})
  BY <1>1 DEF SkipImage, ReadOne, NextImage
<1>3. FailToRecognize(w) => ReadOne(w, {})
  BY <1>1 DEF FailToRecognize, ReadOne, NextImage
<1>4. CachedText(w) => ReadOne(w, {<<Head(images[w]), ModelOf[job[w].languages]>>})
  <2> SUFFICES ASSUME CachedText(w)
               PROVE  ReadOne(w, {<<Head(images[w]), ModelOf[job[w].languages]>>})
    OBVIOUS
  <2>1. ocrTag[Key(w)] = ModelOf[job[w].languages]
    BY AtImage DEF CachedText, TypeInv, CachesAreSound
  <2> QED BY <2>1 DEF CachedText, ReadOne, NextImage, AddText
<1>5. Recognize(w) => ReadOne(w, {<<Head(images[w]), ModelOf[job[w].languages]>>})
  BY DEF Recognize, ReadOne, NextImage, AddText, Configured
<1> QED BY <1>2, <1>3, <1>4, <1>5

(* Reading an image keeps the types; recognizing one leaves a sound cache. *)
LEMMA ImageTypes ==
    ASSUME TypeInv, NEW w \in Workers,
           SkipImage(w) \/ CachedText(w) \/ Recognize(w) \/ FailToRecognize(w)
    PROVE  TypeInv'
<1>1. pc[w] = "parse" /\ images[w] # <<>>
  BY DEF SkipImage, CachedText, Recognize, FailToRecognize
<1> DEFINE reading == {<<Head(images[w]), ModelOf[job[w].languages]>>}
<1>2. reading \in SUBSET Readings /\ {} \in SUBSET Readings
  BY <1>1, AtImage DEF Readings
<1>3. /\ images' \in [Workers -> Seq(Images)] /\ read' \in [Workers -> Seq(SUBSET Readings)]
      /\ \A v \in Workers : WorkerHasJob(v)'
  BY <1>2, ImageSteps, ReadOneTypes
<1>4. /\ UNCHANGED <<todo, archive, pdfTag, tikaTag, pdfHash, pageText, indexText, last, author, made,
                     pc, job, pdf, sent, flushed>>
      /\ missed' \in [Workers -> BOOLEAN]
      /\ engine' \in [Workers -> Models \union {NoModel}]
  BY <1>1, AtImage DEF TypeInv, VariableTypes, SkipImage, CachedText, Recognize, FailToRecognize,
     Configured, tags, store
<1>5. /\ ocrTag' \in [Images \X Languages -> Models \union {NoModel}]
      /\ \A k \in Images \X Languages : ocrTag'[k] # NoModel => ocrTag'[k] = ModelOf[k[2]]
  <2>1. CASE UNCHANGED ocrTag
    BY <2>1 DEF TypeInv, VariableTypes, CachesAreSound
  <2>2. CASE Recognize(w)
    <3>1. ocrTag' = [ocrTag EXCEPT ![Key(w)] = ModelOf[job[w].languages]]
      BY <2>2 DEF Recognize, Configured
    <3> QED BY <1>1, <3>1, AtImage DEF TypeInv, VariableTypes, CachesAreSound
  <2> QED BY <2>1, <2>2 DEF SkipImage, CachedText, FailToRecognize, tags
<1>6. Counters' /\ (faults + misses + crashes + clears)' \in 0..MaxLosses
  <2>1. CASE UNCHANGED losses
    BY <2>1 DEF TypeInv, VariableTypes, Counters, losses
  <2>2. CASE FailToRecognize(w)
    BY <2>2 DEF TypeInv, VariableTypes, Counters, FailToRecognize, Loses
  <2> QED BY <2>1, <2>2 DEF SkipImage, CachedText, Recognize
<1>7. VariableTypes'
  BY <1>3, <1>4, <1>5, <1>6 DEF TypeInv, VariableTypes
<1> QED BY <1>3, <1>4, <1>5, <1>6, <1>7 DEF TypeInv, CachesAreSound

(* Opening a page, and a page that has been read to its end. *)
LEMMA OpenTypes ==
    ASSUME TypeInv, NEW w \in Workers, OpenPage(w)
    PROVE  TypeInv'
<1>1. /\ job[w] \in JobType /\ Doc(w) \in Docs /\ pc[w] = "parse"
      /\ read[w] \in Seq(SUBSET Readings) /\ Len(read[w]) <= Len(Pages[Doc(w)])
  BY DEF TypeInv, VariableTypes, WorkerHasJob, OpenPage, JobType, Doc
<1>2. UNCHANGED <<todo, archive, tags, store, made, job, pdf, sent, flushed, missed, engine, losses>>
  BY DEF OpenPage
<1>3. CASE Len(read[w]) < Len(Pages[Doc(w)])
  <2>1. /\ read' = [read EXCEPT ![w] = Append(@, {})] /\ UNCHANGED pc
        /\ images' = [images EXCEPT ![w] = Pages[Doc(w)][Len(read[w]) + 1]]
    BY <1>3 DEF OpenPage
  <2>2. /\ Pages[Doc(w)][Len(read[w]) + 1] \in Seq(Images)
        /\ Append(read[w], {}) \in Seq(SUBSET Readings) /\ Append(read[w], {}) # <<>>
        /\ Len(Append(read[w], {})) = Len(read[w]) + 1
    <3>1. Len(read[w]) + 1 \in 1..Len(Pages[Doc(w)]) /\ Pages[Doc(w)] \in Seq(Seq(Images))
      BY <1>1, <1>3
    <3>2. {} \in SUBSET Readings
      OBVIOUS
    <3>3. Append(read[w], {}) \in Seq(SUBSET Readings)
      BY <1>1, <3>2
    <3>4. Len(Append(read[w], {})) = Len(read[w]) + 1 /\ Len(read[w]) \in Nat
      BY <1>1, <3>2
    <3>5. Append(read[w], {}) # <<>>
      <4>1. Len(<<>>) = 0 /\ Len(Append(read[w], {})) # 0
        BY <3>4
      <4> QED BY <4>1
    <3>6. Pages[Doc(w)][Len(read[w]) + 1] \in Seq(Images)
      BY <3>1
    <3> QED BY <3>3, <3>4, <3>5, <3>6
  <2>3. read' \in [Workers -> Seq(SUBSET Readings)] /\ images' \in [Workers -> Seq(Images)]
    BY <2>1, <2>2 DEF TypeInv, VariableTypes
  <2>4. VariableTypes'
    BY <1>2, <2>1, <2>3 DEF TypeInv, VariableTypes, tags, store, losses
  <2>5. WorkerHasJob(w)'
    <3>1. /\ pc'[w] = "parse" /\ job'[w] = job[w] /\ sent'[w] = 0 /\ sent[w] = 0
          /\ flushed'[w] <= sent'[w]
      BY <1>1, <1>2, <2>1 DEF TypeInv, WorkerHasJob
    <3>2. read'[w] # <<>> /\ Len(read'[w]) = Len(read[w]) + 1 /\ Len(read[w]) \in Nat
      <4>1. read'[w] = Append(read[w], {})
        BY <2>1 DEF TypeInv, VariableTypes
      <4> QED BY <1>1, <2>2, <4>1
    <3>3. Len(read'[w]) <= Len(Pages[Doc(w)]) /\ sent'[w] <= 2 * Len(read'[w])
      <4>1. Len(Pages[Doc(w)]) \in Nat
        BY <1>1
      <4> QED BY <1>3, <3>1, <3>2, <4>1
    <3>4. Kind[Doc(w)] # "other" /\ Doc(w)' = Doc(w)
      BY <1>1, <3>1 DEF TypeInv, WorkerHasJob, Doc
    <3> QED BY <1>1, <3>1, <3>2, <3>3, <3>4 DEF WorkerHasJob
  <2>6. ASSUME NEW v \in Workers, v # w PROVE WorkerHasJob(v)'
    BY <1>2, <2>1, <2>6, OthersHaveJobs DEF TypeInv, VariableTypes
  <2> QED BY <1>2, <2>4, <2>5, <2>6 DEF TypeInv, CachesAreSound, Counters, tags, losses
<1>4. CASE ~(Len(read[w]) < Len(Pages[Doc(w)]))
  <2>1. pc' = [pc EXCEPT ![w] = "emit"] /\ UNCHANGED <<read, images>>
    BY <1>4 DEF OpenPage, Goto
  <2>2. VariableTypes'
    BY <1>2, <2>1 DEF TypeInv, VariableTypes, tags, store, losses, Steps
  <2>3. WorkerHasJob(w)'
    <3>1. Len(read[w]) \in Nat /\ Len(Pages[Doc(w)]) \in Nat
      BY <1>1
    <3>2. Len(read[w]) = Len(Pages[Doc(w)])
      BY <1>1, <1>4, <3>1
    <3>3. Kind[Doc(w)] \notin Paged => Len(read[w]) = 1
      <4>1. Kind[Doc(w)] \notin Paged => Kind[Doc(w)] = "image" /\ Doc(w) \notin Damaged
        BY <1>1 DEF OpenPage, TypeInv, WorkerHasJob, Kinds
      <4> QED BY <1>1, <3>2, <4>1
    <3>4. sent[w] = 0 /\ flushed[w] \in Nat /\ flushed[w] <= sent[w]
      BY <1>1 DEF TypeInv, VariableTypes, WorkerHasJob
    <3>5. /\ pc'[w] = "emit" /\ job'[w] = job[w] /\ read'[w] = read[w]
          /\ sent'[w] = 0 /\ flushed'[w] = 0
      BY <1>2, <2>1, <3>4 DEF TypeInv, VariableTypes
    <3> QED BY <1>1, <3>1, <3>2, <3>3, <3>5 DEF WorkerHasJob, Doc
  <2>4. ASSUME NEW v \in Workers, v # w PROVE WorkerHasJob(v)'
    BY <1>2, <2>1, <2>4, OthersHaveJobs DEF TypeInv, VariableTypes
  <2> QED BY <1>2, <2>2, <2>3, <2>4 DEF TypeInv, CachesAreSound, Counters, tags, losses
<1> QED BY <1>3, <1>4

(* An answer of Tika is the text of the one page of its document. *)
LEMMA AnswerTypes ==
    ASSUME TypeInv, NEW w \in Workers, AnswerCached(w) \/ Ask(w)
    PROVE  TypeInv'
<1>1. /\ job[w] \in JobType /\ Doc(w) \in Docs /\ pc[w] = "ask"
      /\ Kind[Doc(w)] = "other" /\ Doc(w) \notin Damaged /\ sent[w] = 0 /\ flushed[w] <= sent[w]
  BY DEF TypeInv, VariableTypes, WorkerHasJob, CachesAreSound, AnswerCached, Ask, JobType, Doc
<1>2. Len(Pages[Doc(w)]) = 1
  BY <1>1
<1> DEFINE answer == {<<i, Server>> : i \in Readable \intersect ImagesOn(Doc(w), 1)}
<1>3. /\ read' = [read EXCEPT ![w] = <<answer>>] /\ pc' = [pc EXCEPT ![w] = "emit"]
      /\ UNCHANGED <<todo, archive, pdfTag, ocrTag, store, made, job, pdf, images, sent, flushed, missed,
                     engine, losses>>
      /\ tikaTag' \in {tikaTag, [tikaTag EXCEPT ![Doc(w)] = "text"]}
  BY DEF AnswerCached, Ask, TakeAnswer, Goto
<1>4. answer \in SUBSET Readings
  BY DEF Readings
<1>5. <<answer>> \in Seq(SUBSET Readings) /\ Len(<<answer>>) = 1
  BY <1>4
<1>6. read' \in [Workers -> Seq(SUBSET Readings)] /\ tikaTag' \in [Docs -> {"none", "text", "error"}]
  BY <1>3, <1>5 DEF TypeInv, VariableTypes
<1>7. VariableTypes'
  BY <1>3, <1>6 DEF TypeInv, VariableTypes, store, losses, Steps
<1>8. CachesAreSound'
  BY <1>1, <1>3 DEF TypeInv, VariableTypes, CachesAreSound
<1>9. WorkerHasJob(w)'
  <2>1. /\ pc'[w] = "emit" /\ Len(read'[w]) = 1 /\ sent'[w] = 0 /\ job'[w] = job[w]
        /\ flushed'[w] <= sent'[w] /\ Kind[Doc(w)'] = "other"
    <3>1. read'[w] = <<answer>> /\ pc'[w] = "emit" /\ UNCHANGED <<sent, flushed, job>>
      BY <1>3 DEF TypeInv, VariableTypes
    <3>2. Doc(w)' = Doc(w)
      BY <3>1 DEF Doc
    <3> QED BY <1>1, <1>5, <3>1, <3>2
  <2>2. /\ Doc(w)' = Doc(w) /\ job'[w] \in JobType /\ Len(read'[w]) = Len(Pages[Doc(w)])
    BY <1>1, <1>2, <2>1 DEF Doc
  <2>3. sent'[w] <= 2 * Len(read'[w]) /\ Len(read'[w]) <= Len(Pages[Doc(w)])
    BY <1>2, <2>1, <2>2
  <2> QED BY <2>1, <2>2, <2>3 DEF WorkerHasJob
<1>10. ASSUME NEW v \in Workers, v # w PROVE WorkerHasJob(v)'
  BY <1>3, <1>10, OthersHaveJobs DEF TypeInv, VariableTypes
<1> QED BY <1>3, <1>7, <1>8, <1>9, <1>10 DEF TypeInv, Counters, losses

(* What a flush of the writer leaves alone. *)
LEMMA FlushTypes ==
    ASSUME TypeInv, NEW w \in Workers, pc[w] = "emit", NEW n \in Nat, n <= 2 * Len(read[w]), Flush(w, n)
    PROVE  /\ pageText' \in [PageEntities -> SUBSET Readings]
           /\ indexText' \in [PageEntities -> SUBSET Readings]
           /\ last' \in [Entities -> SUBSET (Languages \X BOOLEAN)]
           /\ author' \in [Entities -> SUBSET Workers]
           /\ flushed' = [flushed EXCEPT ![w] = n] /\ pdfHash' = pdfHash
<1>1. Entity(w) \in Entities
  BY DEF TypeInv, WorkerHasJob, JobType, Entity, Entities
<1> QED BY <1>1, WrittenTypes DEF Flush, TypeInv, VariableTypes

(* Putting a page, or its text, whether or not the writer flushes. *)
LEMMA EmitSteps ==
    ASSUME TypeInv, NEW w \in Workers, EmitPage(w) \/ EmitText(w)
    PROVE  /\ UNCHANGED <<todo, archive, tags, pdfHash, made, pc, job, pdf, read, images, missed,
                          engine, losses>>
           /\ pc[w] = "emit" /\ sent' = [sent EXCEPT ![w] = @ + 1]
           /\ sent[w] \in Nat /\ sent[w] + 1 <= 2 * Len(read[w])
           /\ UNCHANGED <<store, flushed>> \/ (Kind[Doc(w)] # "image" /\ Flush(w, sent[w] + 1))
<1>1. read[w] \in Seq(SUBSET Readings) /\ sent[w] \in Nat
  BY DEF TypeInv, VariableTypes
<1>2. PICK p \in DOMAIN read[w] : sent[w] = 2 * p - 2 \/ sent[w] = 2 * p - 1
  BY DEF EmitPage, EmitText
<1>3. p \in 1..Len(read[w]) /\ Len(read[w]) \in Nat
  BY <1>1
<1>4. sent[w] + 1 <= 2 * Len(read[w])
  BY <1>1, <1>2, <1>3
<1>5. CASE Put(w)
  BY <1>1, <1>4, <1>5 DEF EmitPage, EmitText, Put, Flush, store
<1>6. CASE ~Put(w)
  BY <1>1, <1>4, <1>6 DEF EmitPage, EmitText, store
<1> QED BY <1>5, <1>6

LEMMA EmitTypes ==
    ASSUME TypeInv, NEW w \in Workers, EmitPage(w) \/ EmitText(w)
    PROVE  TypeInv'
<1>1. /\ UNCHANGED <<todo, archive, tags, pdfHash, made, pc, job, pdf, read, images, missed, engine,
                     losses>>
      /\ pc[w] = "emit" /\ sent' = [sent EXCEPT ![w] = @ + 1]
      /\ sent[w] \in Nat /\ sent[w] + 1 <= 2 * Len(read[w])
  BY EmitSteps
<1>2. /\ pageText' \in [PageEntities -> SUBSET Readings]
      /\ indexText' \in [PageEntities -> SUBSET Readings]
      /\ last' \in [Entities -> SUBSET (Languages \X BOOLEAN)]
      /\ author' \in [Entities -> SUBSET Workers]
      /\ \/ flushed' = flushed
         \/ Kind[Doc(w)] # "image" /\ flushed' = [flushed EXCEPT ![w] = sent[w] + 1]
  <2>1. CASE UNCHANGED <<store, flushed>>
    BY <2>1 DEF TypeInv, VariableTypes, store
  <2>2. CASE Kind[Doc(w)] # "image" /\ Flush(w, sent[w] + 1)
    BY <1>1, <2>2, FlushTypes
  <2> QED BY <2>1, <2>2, EmitSteps
<1>3. VariableTypes'
  <2>1. sent' \in [Workers -> Nat] /\ flushed' \in [Workers -> Nat]
    <3>1. sent \in [Workers -> Nat] /\ flushed \in [Workers -> Nat] /\ sent[w] + 1 \in Nat
      BY <1>1 DEF TypeInv, VariableTypes
    <3>2. sent' = [sent EXCEPT ![w] = sent[w] + 1]
      BY <1>1
    <3>3. sent' \in [Workers -> Nat]
      BY <3>1, <3>2
    <3> QED BY <1>2, <3>1, <3>3
  <2>2. UNCHANGED <<todo, archive, pdfTag, ocrTag, tikaTag, pdfHash, made, pc, job, pdf, read, images,
                    missed, engine, faults, misses, crashes, clears>>
    BY <1>1 DEF tags, losses
  <2> QED BY <1>2, <2>1, <2>2 DEF TypeInv, VariableTypes
<1>4. WorkerHasJob(w)'
  <2>1. /\ sent'[w] = sent[w] + 1
        /\ flushed'[w] = flushed[w] \/ (Kind[Doc(w)] # "image" /\ flushed'[w] = sent[w] + 1)
        /\ flushed[w] \in Nat /\ flushed[w] <= sent[w]
    <3>1. flushed[w] \in Nat /\ flushed[w] <= sent[w] /\ sent \in [Workers -> Nat]
          /\ flushed \in [Workers -> Nat]
      BY DEF TypeInv, VariableTypes, WorkerHasJob
    <3> QED BY <1>1, <1>2, <3>1
  <2>2. flushed'[w] <= sent'[w] /\ sent'[w] <= 2 * Len(read'[w])
    BY <1>1, <2>1
  <2>3. Kind[Doc(w)] = "image" => flushed'[w] = 0
    BY <1>1, <2>1 DEF TypeInv, WorkerHasJob
  <2>4. pc'[w] = "emit" /\ job'[w] = job[w] /\ read'[w] = read[w] /\ Doc(w)' = Doc(w)
    BY <1>1 DEF Doc
  <2> QED BY <1>1, <2>2, <2>3, <2>4 DEF TypeInv, WorkerHasJob, Doc
<1>5. ASSUME NEW v \in Workers, v # w PROVE WorkerHasJob(v)'
  BY <1>1, <1>2, <1>5, OthersHaveJobs DEF TypeInv, VariableTypes
<1> QED BY <1>1, <1>3, <1>4, <1>5 DEF TypeInv, CachesAreSound, Counters, tags, losses

(* A killed worker is idle, without an engine. *)
LEMMA CrashTypes ==
    ASSUME TypeInv, NEW w \in Workers, Crash(w)
    PROVE  TypeInv'
<1>1. UNCHANGED <<todo, archive, tags, store, made>> /\ Discard(w)
  BY DEF Crash
<1>2. engine' \in [Workers -> Models \union {NoModel}]
  BY DEF Crash, TypeInv, VariableTypes
<1>3. Counters' /\ (faults + misses + crashes + clears)' \in 0..MaxLosses
  BY DEF Crash, Loses, TypeInv, VariableTypes, Counters
<1>4. VariableTypes'
  <2>1. /\ pc' \in [Workers -> Steps] /\ job' \in [Workers -> JobType \union {NoJob}]
        /\ pdf' \in [Workers -> Nat] /\ read' \in [Workers -> Seq(SUBSET Readings)]
        /\ images' \in [Workers -> Seq(Images)] /\ sent' \in [Workers -> Nat]
        /\ flushed' \in [Workers -> Nat]
        /\ missed' \in [Workers -> BOOLEAN]
    BY <1>1 DEF TypeInv, VariableTypes, Discard, Goto, Steps
  <2> QED BY <1>1, <1>2, <1>3, <2>1 DEF TypeInv, VariableTypes, tags, store
<1>5. WorkerHasJob(w)'
  BY <1>1 DEF TypeInv, VariableTypes, Discard, Goto, WorkerHasJob
<1>6. ASSUME NEW v \in Workers, v # w PROVE WorkerHasJob(v)'
  BY <1>1, <1>6, OthersHaveJobs DEF TypeInv, VariableTypes, Discard, Goto
<1> QED BY <1>1, <1>3, <1>4, <1>5, <1>6 DEF TypeInv, CachesAreSound, tags

(* An empty cache is sound. *)
LEMMA ClearTypes ==
    ASSUME TypeInv, ClearCache
    PROVE  TypeInv'
<1>1. UNCHANGED <<todo, archive, store, made, worker>>
  BY DEF ClearCache
<1>2. /\ pdfTag' \in [Docs -> Nat]
      /\ ocrTag' \in {ocrTag, [k \in Images \X Languages |-> NoModel]}
      /\ tikaTag' \in {tikaTag, [d \in Docs |-> "none"]}
  BY DEF ClearCache, TypeInv, VariableTypes
<1>3. Counters' /\ (faults + misses + crashes + clears)' \in 0..MaxLosses
  BY DEF ClearCache, Loses, TypeInv, VariableTypes, Counters
<1>4. VariableTypes'
  BY <1>1, <1>2, <1>3 DEF TypeInv, VariableTypes, store, worker, text
<1>5. CachesAreSound'
  BY <1>2 DEF TypeInv, CachesAreSound
<1>6. ASSUME NEW v \in Workers PROVE WorkerHasJob(v)'
  BY <1>1, <1>6 DEF TypeInv, WorkerHasJob, worker, text, Doc
<1> QED BY <1>3, <1>4, <1>5, <1>6 DEF TypeInv

(* How a job ends, by itself or by an exception. *)
LEMMA EndTypes ==
    ASSUME TypeInv, NEW w \in Workers,
           Succeed(w) \/ Reject(w) \/ AskInVain(w) \/ Raise(w)
    PROVE  TypeInv'
<1>1. pc[w] # "idle" /\ job[w] \in JobType /\ job[w].languages \in Languages
  BY DEF Succeed, Reject, AskInVain, Raise, TypeInv, WorkerHasJob, JobType
<1>2. \E setting \in SUBSET (Languages \X BOOLEAN) : Finalize(w, setting)
  <2>1. CASE Succeed(w)
    <3>1. {<<job[w].languages, ~missed[w]>>} \in SUBSET (Languages \X BOOLEAN)
      <4>1. missed[w] \in BOOLEAN
        BY DEF TypeInv, VariableTypes
      <4>2. (~missed[w]) \in BOOLEAN
        BY <4>1
      <4> DEFINE whole == ~missed[w]
      <4>3. whole \in BOOLEAN
        BY <4>2
      <4> HIDE DEF whole
      <4>4. {<<job[w].languages, whole>>} \in SUBSET (Languages \X BOOLEAN)
        BY <1>1, <4>3
      <4> QED BY <4>4 DEF whole
    <3> QED BY <2>1, <3>1 DEF Succeed
  <2>2. CASE Reject(w) \/ AskInVain(w) \/ Raise(w)
    BY <2>2 DEF Reject, AskInVain, Raise
  <2> QED BY <2>1, <2>2
<1>3. Discard(w) /\ UNCHANGED <<archive, tags, made, engine>> /\ todo' \in {todo, BagAdd(todo, job[w])}
  BY DEF Succeed, Reject, AskInVain, Raise
<1>4. Counters' /\ (faults + misses + crashes + clears)' \in 0..MaxLosses
  <2>1. CASE UNCHANGED losses
    BY <2>1 DEF TypeInv, VariableTypes, Counters, losses
  <2>2. CASE AskInVain(w)
    BY <2>2 DEF TypeInv, VariableTypes, Counters, AskInVain, Loses
  <2>3. CASE Raise(w)
    BY <2>3 DEF TypeInv, VariableTypes, Counters, Raise, Loses
  <2> QED BY <2>1, <2>2, <2>3 DEF Succeed, Reject
<1> QED BY <1>1, <1>2, <1>3, <1>4, FinalizeTypes

(* Every step keeps the types. *)
LEMMA TypeStep == TypeInv /\ [Next]_vars => TypeInv'
<1> SUFFICES ASSUME TypeInv, [Next]_vars PROVE TypeInv'
  OBVIOUS
<1>1. ASSUME NEW w \in Workers, Step(w) PROVE TypeInv'
  BY <1>1, RenderingTypes, OpenTypes, ImageTypes, AnswerTypes, EmitTypes, EndTypes DEF Step
<1>2. CASE UNCHANGED vars
  BY <1>2 DEF vars, tags, store, worker, text, losses, TypeInv, VariableTypes, Counters,
     CachesAreSound, WorkerHasJob, Doc
<1> QED BY <1>1, <1>2, CrashTypes, ClearTypes, EndTypes DEF Next

(* The types hold, and no worker is ahead of the pages of its document. *)
THEOREM TypeCorrect == Spec => []TypeOK
<1>1. TypeInv => TypeOK
  BY DEF TypeInv, VariableTypes, WorkerHasJob, TypeOK, Steps
<1> QED BY <1>1, TypeInit, TypeStep, PTL DEF Spec

-----------------------------------------------------------------------------
(* Text *)

(* What a page has when every image on it was read.                        *)
Whole(d, l, p) == {<<i, Reader(d, l)>> : i \in Readable \intersect ImagesOn(d, p)}

(* What a worker has still to read of its last page. *)
Members(s) == {s[n] : n \in DOMAIN s}
Remaining(w) == {<<i, ModelOf[job[w].languages]>> : i \in Readable \intersect Members(images[w])}
Expected(w, p) == read[w][p] \union (IF p = Len(read[w]) THEN Remaining(w) ELSE {})

(* Unless an attempt at OCR failed, each page that was read is whole, but   *)
(* for what remains of the last one.                                       *)
WorkerReads(w) ==
    /\ pc[w] \in {"parse", "emit"} /\ ~missed[w] =>
        \A p \in 1..Len(read[w]) : Expected(w, p) = Whole(Doc(w), job[w].languages, p)
    /\ pc[w] = "emit" => images[w] = <<>>

(* While no other worker has written its document, what a worker's writer *)
(* has flushed is in the store.                                            *)
InStore(w, e, n) ==
    /\ 2 * e[3] - 1 <= n => pageText[e] = read[w][e[3]]
    /\ 2 * e[3] <= n /\ read[w][e[3]] # {} => indexText[e] = read[w][e[3]]
WorkerWrote(w) ==
    pc[w] = "emit" /\ author[Entity(w)] = {w} =>
        \A e \in PageEntities : <<e[1], e[2]>> = Entity(w) => InStore(w, e, flushed[w])

TextInv ==
    /\ \A w \in Workers : WorkerReads(w) /\ WorkerWrote(w)
    /\ CleanRunIsWhole /\ IndexFollowsPages

(* A sequence has a head and a tail. *)
LEMMA HeadAndTail ==
    ASSUME NEW S, NEW s \in Seq(S), s # <<>>
    PROVE  Members(s) = {Head(s)} \union Members(Tail(s))
<1>1. /\ DOMAIN s = 1..Len(s) /\ Len(s) \in Nat /\ Len(s) # 0
      /\ Len(Tail(s)) = Len(s) - 1 /\ DOMAIN Tail(s) = 1..Len(Tail(s))
      /\ \A n \in 1..Len(Tail(s)) : Tail(s)[n] = s[n + 1]
      /\ Head(s) = s[1]
  OBVIOUS
<1>2. ASSUME NEW n \in DOMAIN s PROVE s[n] \in {Head(s)} \union Members(Tail(s))
  <2>1. CASE n = 1
    BY <1>1, <2>1
  <2>2. CASE n # 1
    <3>1. n - 1 \in DOMAIN Tail(s) /\ Tail(s)[n - 1] = s[n]
      BY <1>1, <2>2
    <3> QED BY <3>1 DEF Members
  <2> QED BY <2>1, <2>2
<1>3. ASSUME NEW n \in DOMAIN Tail(s) PROVE Tail(s)[n] \in Members(s)
  <2>1. n + 1 \in DOMAIN s /\ Tail(s)[n] = s[n + 1]
    BY <1>1
  <2> QED BY <2>1 DEF Members
<1>4. Head(s) \in Members(s)
  BY <1>1 DEF Members
<1> QED BY <1>2, <1>3, <1>4 DEF Members

(* A worker that reads nothing, and the others, keep what they have read. *)
LEMMA OthersRead ==
    ASSUME NEW v \in Workers, WorkerReads(v),
           pc'[v] = pc[v] \/ pc'[v] \notin {"parse", "emit"} \/ (pc'[v] = "parse" /\ read'[v] = <<>>),
           pc'[v] = pc[v] => /\ job'[v] = job[v] /\ read'[v] = read[v] /\ images'[v] = images[v]
                             /\ missed'[v] = missed[v]
    PROVE  WorkerReads(v)'
<1>1. CASE pc'[v] = pc[v]
  BY <1>1 DEF WorkerReads, Expected, Remaining, Doc
<1>2. CASE pc'[v] # pc[v]
  BY <1>2 DEF WorkerReads
<1> QED BY <1>1, <1>2

(* An image that is read moves from what remains of the page to its text. *)
LEMMA ImageReads ==
    ASSUME TypeInv, NEW w \in Workers, WorkerReads(w),
           SkipImage(w) \/ CachedText(w) \/ Recognize(w) \/ FailToRecognize(w)
    PROVE  WorkerReads(w)'
<1>1. pc[w] = "parse" /\ images[w] # <<>>
  BY DEF SkipImage, CachedText, Recognize, FailToRecognize
<1>2. pc' = pc /\ job' = job
  BY DEF SkipImage, CachedText, Recognize, FailToRecognize
<1>3. CASE FailToRecognize(w)
  <2>1. missed'[w] /\ pc'[w] # "emit"
    BY <1>1, <1>2, <1>3 DEF FailToRecognize, TypeInv, VariableTypes
  <2> QED BY <2>1 DEF WorkerReads
<1>4. ASSUME NEW more, ReadOne(w, more), missed' = missed,
             Remaining(w) = more \union
                {<<i, ModelOf[job[w].languages]>> : i \in Readable \intersect Members(Tail(images[w]))}
      PROVE  WorkerReads(w)'
  <2>1. images'[w] = Tail(images[w]) /\ read'[w] = [read[w] EXCEPT ![Len(read[w])] = @ \union more]
    BY <1>4 DEF ReadOne, TypeInv, VariableTypes
  <2>2. /\ read[w] \in Seq(SUBSET Readings) /\ DOMAIN read[w] = 1..Len(read[w])
        /\ Len(read[w]) \in 1..Len(read[w])
    BY <1>1, AtImage
  <2>3. Len(read'[w]) = Len(read[w])
    BY <2>1, <2>2
  <2>4. Remaining(w) = more \union Remaining(w)'
    BY <1>2, <1>4, <2>1 DEF Remaining
  <2>5. ASSUME NEW p \in 1..Len(read[w]) PROVE Expected(w, p)' = Expected(w, p)
    <3>1. CASE p = Len(read[w])
      BY <2>1, <2>2, <2>3, <2>4, <3>1 DEF Expected
    <3>2. CASE p # Len(read[w])
      BY <2>1, <2>2, <2>3, <3>2 DEF Expected
    <3> QED BY <3>1, <3>2
  <2> QED BY <1>1, <1>2, <1>4, <2>3, <2>5 DEF WorkerReads, Doc
<1>5. /\ images[w] \in Seq(Images)
      /\ Members(images[w]) = {Head(images[w])} \union Members(Tail(images[w]))
  BY <1>1, HeadAndTail DEF TypeInv, VariableTypes
<1>6. CASE SkipImage(w)
  <2>1. ReadOne(w, {}) /\ missed' = missed /\ Head(images[w]) \notin Readable
    BY <1>6, ImageSteps DEF SkipImage
  <2>2. Readable \intersect Members(images[w]) = Readable \intersect Members(Tail(images[w]))
    BY <1>5, <2>1
  <2> QED BY <1>4, <2>1, <2>2 DEF Remaining
<1>7. CASE CachedText(w) \/ Recognize(w)
  <2>1. /\ ReadOne(w, {<<Head(images[w]), ModelOf[job[w].languages]>>})
        /\ missed' = missed /\ Head(images[w]) \in Readable
    BY <1>7, ImageSteps DEF CachedText, Recognize
  <2>2. Readable \intersect Members(images[w]) =
            {Head(images[w])} \union (Readable \intersect Members(Tail(images[w])))
    BY <1>5, <2>1
  <2>3. Remaining(w) = {<<Head(images[w]), ModelOf[job[w].languages]>>} \union
            {<<i, ModelOf[job[w].languages]>> : i \in Readable \intersect Members(Tail(images[w]))}
    BY <2>2 DEF Remaining
  <2> QED BY <1>4, <2>1, <2>3
<1> QED BY <1>3, <1>6, <1>7

(* A page that was opened has all its images before it. *)
LEMMA OpenReads ==
    ASSUME TypeInv, NEW w \in Workers, WorkerReads(w), OpenPage(w)
    PROVE  WorkerReads(w)'
<1>1. /\ job[w] \in JobType /\ Doc(w) \in Docs /\ pc[w] = "parse" /\ images[w] = <<>>
      /\ read[w] \in Seq(SUBSET Readings) /\ Kind[Doc(w)] # "other"
      /\ UNCHANGED <<job, missed>>
  BY DEF TypeInv, VariableTypes, WorkerHasJob, OpenPage, JobType, Doc
<1>2. Remaining(w) = {}
  <2>1. Members(<<>>) = {}
    BY DEF Members
  <2> QED BY <1>1, <2>1 DEF Remaining
<1>3. CASE Len(read[w]) < Len(Pages[Doc(w)])
  <2>1. /\ read'[w] = Append(read[w], {}) /\ UNCHANGED pc
        /\ images'[w] = Pages[Doc(w)][Len(read[w]) + 1]
    BY <1>3 DEF OpenPage, TypeInv, VariableTypes
  <2>2. /\ Len(read'[w]) = Len(read[w]) + 1 /\ read'[w][Len(read[w]) + 1] = {}
        /\ \A p \in 1..Len(read[w]) : read'[w][p] = read[w][p]
        /\ Len(read[w]) \in Nat
    BY <1>1, <2>1
  <2>3. Remaining(w)' = Whole(Doc(w), job[w].languages, Len(read[w]) + 1)
    BY <1>1, <2>1 DEF Remaining, Whole, Members, ImagesOn, Reader
  <2>4. ASSUME NEW p \in 1..Len(read'[w]), ~missed[w]
        PROVE  Expected(w, p)' = Whole(Doc(w), job[w].languages, p)
    <3>1. CASE p = Len(read[w]) + 1
      BY <2>2, <2>3, <3>1 DEF Expected
    <3>2. CASE p # Len(read[w]) + 1
      <4>1. p \in 1..Len(read[w]) /\ p # Len(read'[w])
        BY <2>2, <3>2
      <4>2. Expected(w, p)' = read[w][p] /\ Expected(w, p) = read[w][p]
        BY <1>2, <2>2, <4>1 DEF Expected
      <4> QED BY <1>1, <2>4, <4>1, <4>2 DEF WorkerReads
    <3> QED BY <3>1, <3>2
  <2> QED BY <1>1, <2>1, <2>4 DEF WorkerReads, Doc
<1>4. CASE ~(Len(read[w]) < Len(Pages[Doc(w)]))
  <2>1. pc'[w] = "emit" /\ UNCHANGED <<read, images>>
    BY <1>4 DEF OpenPage, Goto, TypeInv, VariableTypes
  <2> QED BY <1>1, <2>1 DEF WorkerReads, Expected, Remaining, Doc
<1> QED BY <1>3, <1>4

(* What Tika says is the whole text. *)
LEMMA AnswerReads ==
    ASSUME TypeInv, NEW w \in Workers, AnswerCached(w) \/ Ask(w)
    PROVE  WorkerReads(w)'
<1>1. Kind[Doc(w)] = "other" /\ images[w] = <<>>
  BY DEF TypeInv, WorkerHasJob, AnswerCached, Ask
<1>2. /\ read'[w] = <<{<<i, Server>> : i \in Readable \intersect ImagesOn(Doc(w), 1)}>>
      /\ UNCHANGED <<job, images>>
  BY DEF AnswerCached, Ask, TakeAnswer, TypeInv, VariableTypes
<1>3. Members(<<>>) = {}
  BY DEF Members
<1>4. Remaining(w)' = {}
  BY <1>1, <1>2, <1>3 DEF Remaining
<1>5. Len(read'[w]) = 1 /\ read'[w][1] = Whole(Doc(w), job[w].languages, 1)
  BY <1>1, <1>2 DEF Whole, Reader
<1>6. ASSUME NEW p \in 1..Len(read'[w])
      PROVE  Expected(w, p)' = Whole(Doc(w), job[w].languages, p)
  <2>1. p = 1
    BY <1>5
  <2> QED BY <1>4, <1>5, <2>1 DEF Expected
<1> QED BY <1>1, <1>2, <1>6 DEF WorkerReads, Doc

(* A writer that is alone with its document has all it wrote in the store, *)
(* what it flushed before and what it flushes now.                         *)
LEMMA Writes ==
    ASSUME TypeInv, NEW w \in Workers, pc[w] = "emit", WorkerWrote(w), WroteAlone(w),
           NEW n \in Nat, flushed[w] <= n,
           pageText' = Written(w, n), indexText' = Indexed(w, n),
           NEW e \in PageEntities, <<e[1], e[2]>> = Entity(w)
    PROVE  /\ 2 * e[3] - 1 <= n => pageText'[e] = read[w][e[3]]
           /\ 2 * e[3] <= n /\ read[w][e[3]] # {} => indexText'[e] = read[w][e[3]]
<1>1. e[3] \in Nat /\ e[3] >= 1 /\ flushed[w] \in Nat
  BY PageType DEF TypeInv, VariableTypes
<1>2. ASSUME 2 * e[3] - 1 <= n PROVE pageText'[e] = read[w][e[3]]
  <2>1. CASE Pending(w, 2 * e[3] - 1, n)
    BY <2>1 DEF Written
  <2>2. CASE ~Pending(w, 2 * e[3] - 1, n)
    <3>1. 2 * e[3] - 1 <= flushed[w]
      BY <1>1, <1>2, <2>2 DEF Pending
    <3>2. author[Entity(w)] = {w}
      BY <1>1, <3>1 DEF WroteAlone
    <3>3. pageText[e] = read[w][e[3]]
      BY <3>1, <3>2 DEF WorkerWrote, InStore
    <3>4. flushed[w] # 0
      BY <1>1, <3>1
    <3>5. Kind[e[2]] # "image"
      BY <3>4 DEF TypeInv, WorkerHasJob, Entity, Doc
    <3> QED BY <2>2, <3>3, <3>5 DEF Written
  <2> QED BY <2>1, <2>2
<1>3. ASSUME 2 * e[3] <= n, read[w][e[3]] # {} PROVE indexText'[e] = read[w][e[3]]
  <2>1. CASE Pending(w, 2 * e[3], n)
    BY <1>3, <2>1 DEF Indexed
  <2>2. CASE ~Pending(w, 2 * e[3], n)
    <3>1. 2 * e[3] <= flushed[w]
      BY <1>1, <1>3, <2>2 DEF Pending
    <3>2. author[Entity(w)] = {w}
      BY <1>1, <3>1 DEF WroteAlone
    <3> QED BY <1>3, <2>2, <3>1, <3>2 DEF Indexed, WorkerWrote, InStore
  <2> QED BY <2>1, <2>2
<1> QED BY <1>2, <1>3

(* Who writes a document takes it from the others. *)
LEMMA OthersWrote ==
    ASSUME TypeInv, NEW w \in Workers, NEW v \in Workers, v # w, pc[w] # "idle", WorkerWrote(v),
           NEW n, pageText' = Written(w, n), indexText' = Indexed(w, n),
           NEW writers \in {{w}, {}}, author' = [author EXCEPT ![Entity(w)] = writers],
           pc'[v] = pc[v], job'[v] = job[v], read'[v] = read[v], flushed'[v] = flushed[v]
    PROVE  WorkerWrote(v)'
<1> SUFFICES ASSUME pc[v] = "emit", author'[Entity(v)] = {v},
                    NEW e \in PageEntities, <<e[1], e[2]>> = Entity(v)
             PROVE  InStore(v, e, flushed[v])'
  BY DEF WorkerWrote, Entity, InStore
<1>1. Entity(w) \in Entities /\ Entity(v) \in Entities
  BY DEF TypeInv, WorkerHasJob, JobType, Entity, Entities
<1>2. Entity(v) # Entity(w)
  BY <1>1 DEF TypeInv, VariableTypes
<1>3. pageText'[e] = pageText[e] /\ indexText'[e] = indexText[e] /\ author[Entity(v)] = {v}
  BY <1>1, <1>2 DEF Written, Indexed, TypeInv, VariableTypes
<1> QED BY <1>3 DEF WorkerWrote, InStore

(* The end of a job: what a success has written holds each page, as its    *)
(* entity and in the index text, and as a whole if no attempt failed.      *)
LEMMA FinalizeReads ==
    ASSUME TypeInv, TextInv, NEW w \in Workers, pc[w] # "idle", NEW setting, Finalize(w, setting),
           setting = {} \/ ( /\ pc[w] = "emit" /\ sent[w] = Puts(w)
                            /\ setting = {<<job[w].languages, ~missed[w]>>} )
    PROVE  (CleanRunIsWhole /\ IndexFollowsPages)'
<1>1. /\ last' = [last EXCEPT ![Entity(w)] = IF WroteAlone(w) THEN setting ELSE {}]
      /\ pageText' = Written(w, sent[w]) /\ indexText' = Indexed(w, sent[w])
  BY DEF Finalize
<1>2. ASSUME NEW e \in PageEntities, <<e[1], e[2]>> # Entity(w)
      PROVE  /\ pageText'[e] = pageText[e] /\ indexText'[e] = indexText[e]
             /\ last'[<<e[1], e[2]>>] = last[<<e[1], e[2]>>]
  BY <1>1, <1>2, PageType DEF Written, Indexed, TypeInv, VariableTypes
<1>3. ASSUME NEW e \in PageEntities, <<e[1], e[2]>> = Entity(w), last'[<<e[1], e[2]>>] # {}
      PROVE  /\ pc[w] = "emit" /\ last'[<<e[1], e[2]>>] = {<<job[w].languages, ~missed[w]>>}
             /\ pageText'[e] = read[w][e[3]] /\ e[3] \in 1..Len(read[w])
             /\ Kind[e[2]] \in Paged /\ pageText'[e] # {} => indexText'[e] = pageText'[e]
  <2>1. WroteAlone(w) /\ setting # {} /\ last'[<<e[1], e[2]>>] = setting
    BY <1>1, <1>3, PageType DEF TypeInv, VariableTypes
  <2>2. /\ pc[w] = "emit" /\ sent[w] = Puts(w)
        /\ setting = {<<job[w].languages, ~missed[w]>>}
    BY <2>1
  <2>3. e[1] = job[w].dataset /\ e[2] = Doc(w)
    BY <1>3 DEF Entity, Doc
  <2>4. /\ Len(read[w]) = Len(Pages[Doc(w)]) /\ Pages[Doc(w)] \in Seq(Seq(Images))
        /\ Kind[Doc(w)] \notin Paged => Len(read[w]) = 1
        /\ sent[w] \in Nat /\ flushed[w] <= sent[w]
    BY <2>2, <2>3, PageType DEF TypeInv, VariableTypes, WorkerHasJob
  <2>5. e[3] \in 1..Len(read[w]) /\ Len(read[w]) \in Nat
    <3>1. e[3] \in DOMAIN Pages[Doc(w)]
      BY <2>3, PageType
    <3> QED BY <2>4, <3>1
  <2>6. 2 * e[3] - 1 <= sent[w] /\ (Kind[Doc(w)] \in Paged => 2 * e[3] <= sent[w])
    <3>1. CASE Kind[Doc(w)] \in Paged
      BY <2>2, <2>5, <3>1 DEF Puts
    <3>2. CASE Kind[Doc(w)] \notin Paged
      <4>1. Len(read[w]) = 1 /\ sent[w] = Len(read[w])
        BY <2>2, <2>4, <3>2 DEF Puts
      <4>2. sent[w] = 1 /\ e[3] = 1
        BY <2>5, <4>1
      <4> QED BY <3>2, <4>2
    <3> QED BY <3>1, <3>2
  <2>7. /\ pageText'[e] = read[w][e[3]]
        /\ Kind[Doc(w)] \in Paged /\ read[w][e[3]] # {} => indexText'[e] = read[w][e[3]]
    <3>1. WorkerWrote(w)
      BY DEF TextInv
    <3>2. /\ 2 * e[3] - 1 <= sent[w] => pageText'[e] = read[w][e[3]]
          /\ 2 * e[3] <= sent[w] /\ read[w][e[3]] # {} => indexText'[e] = read[w][e[3]]
      BY <1>1, <1>3, <2>1, <2>2, <2>4, <3>1, Writes
    <3> QED BY <2>6, <3>2
  <2> QED BY <2>1, <2>2, <2>3, <2>5, <2>7
<1>4. CleanRunIsWhole'
  <2> SUFFICES ASSUME NEW e \in PageEntities, NEW l \in Languages, <<l, TRUE>> \in last'[<<e[1], e[2]>>]
               PROVE  pageText'[e] = Whole(e[2], l, e[3])
    BY DEF CleanRunIsWhole, Whole
  <2>1. CASE <<e[1], e[2]>> = Entity(w)
    <3>1. /\ pc[w] = "emit" /\ pageText'[e] = read[w][e[3]] /\ e[3] \in 1..Len(read[w])
          /\ last'[<<e[1], e[2]>>] = {<<job[w].languages, ~missed[w]>>}
      BY <1>3, <2>1
    <3>2. l = job[w].languages /\ ~missed[w] /\ e[2] = Doc(w)
      BY <2>1, <3>1 DEF TypeInv, VariableTypes, Entity, Doc
    <3>3. Remaining(w) = {}
      <4>1. Members(<<>>) = {}
        BY DEF Members
      <4> QED BY <3>1, <4>1 DEF Remaining, TextInv, WorkerReads
    <3>4. read[w][e[3]] = Whole(Doc(w), job[w].languages, e[3])
      <4>1. WorkerReads(w)
        BY DEF TextInv
      <4>2. Expected(w, e[3]) = Whole(Doc(w), job[w].languages, e[3])
        BY <3>1, <3>2, <4>1 DEF WorkerReads
      <4> QED BY <3>3, <4>2 DEF Expected
    <3> QED BY <3>1, <3>2, <3>4
  <2>2. CASE <<e[1], e[2]>> # Entity(w)
    BY <1>2, <2>2 DEF TextInv, CleanRunIsWhole, Whole
  <2> QED BY <2>1, <2>2
<1>5. IndexFollowsPages'
  BY <1>2, <1>3 DEF TextInv, IndexFollowsPages
<1> QED BY <1>4, <1>5

(* The end of a job leaves what the others read and wrote. *)
LEMMA EndReads ==
    ASSUME TypeInv, TextInv, NEW w \in Workers,
           Succeed(w) \/ Reject(w) \/ AskInVain(w) \/ Raise(w)
    PROVE  TextInv'
<1>1. PICK setting :
        /\ Finalize(w, setting)
        /\ setting = {} \/ ( /\ pc[w] = "emit" /\ sent[w] = Puts(w)
                            /\ setting = {<<job[w].languages, ~missed[w]>>} )
  BY DEF Succeed, Reject, AskInVain, Raise
<1>2. pc[w] # "idle" /\ Discard(w)
  BY DEF Succeed, Reject, AskInVain, Raise
<1>3. ASSUME NEW v \in Workers PROVE WorkerReads(v)'
  BY <1>2, OthersRead DEF Discard, Goto, TypeInv, VariableTypes, TextInv
<1>4. ASSUME NEW v \in Workers PROVE WorkerWrote(v)'
  <2>1. CASE v = w
    BY <1>2, <2>1 DEF WorkerWrote, Discard, Goto, TypeInv, VariableTypes
  <2>2. CASE v # w
    <3>1. pc'[v] = pc[v] /\ job'[v] = job[v] /\ read'[v] = read[v] /\ flushed'[v] = flushed[v]
      BY <1>2, <2>2 DEF Discard, Goto, TypeInv, VariableTypes
    <3>2. WorkerWrote(v)
      BY DEF TextInv
    <3>3. /\ pageText' = Written(w, sent[w]) /\ indexText' = Indexed(w, sent[w])
          /\ author' = [author EXCEPT ![Entity(w)] = {}]
      BY <1>1 DEF Finalize
    <3> QED BY <1>2, <2>2, <3>1, <3>2, <3>3, OthersWrote
  <2> QED BY <2>1, <2>2
<1> QED BY <1>1, <1>2, <1>3, <1>4, FinalizeReads DEF TextInv

(* A put, with a flush of the writer at its size or without one. *)
LEMMA EmitReads ==
    ASSUME TypeInv, TextInv, NEW w \in Workers, EmitPage(w) \/ EmitText(w)
    PROVE  TextInv'
<1>1. /\ UNCHANGED <<pc, job, read, images, missed>> /\ pc[w] = "emit"
      /\ sent[w] \in Nat /\ sent[w] + 1 <= 2 * Len(read[w])
      /\ UNCHANGED <<store, flushed>> \/ Flush(w, sent[w] + 1)
  BY EmitSteps
<1>2. ASSUME NEW v \in Workers PROVE WorkerReads(v)'
  BY <1>1, OthersRead DEF TextInv
<1>3. CASE UNCHANGED <<store, flushed>>
  <2>1. ASSUME NEW v \in Workers PROVE WorkerWrote(v)'
    BY <1>1, <1>3 DEF TextInv, WorkerWrote, InStore, Entity, store
  <2> QED BY <1>2, <1>3, <2>1 DEF TextInv, CleanRunIsWhole, IndexFollowsPages, store
<1>4. CASE Flush(w, sent[w] + 1)
  <2> DEFINE n == sent[w] + 1
  <2>1. /\ pageText' = Written(w, n) /\ indexText' = Indexed(w, n)
        /\ author' = [author EXCEPT ![Entity(w)] = IF WroteAlone(w) THEN {w} ELSE {}]
        /\ last' = [last EXCEPT ![Entity(w)] = {}] /\ flushed' = [flushed EXCEPT ![w] = n]
    BY <1>4 DEF Flush
  <2>2. Entity(w) \in Entities /\ n \in Nat /\ flushed[w] <= n /\ flushed'[w] = n
    BY <1>1, <2>1 DEF TypeInv, VariableTypes, WorkerHasJob, JobType, Entity, Entities
  <2>3. ASSUME NEW v \in Workers, v # w PROVE WorkerWrote(v)'
    <3>1. WorkerWrote(v) /\ flushed'[v] = flushed[v] /\ pc[w] # "idle"
      BY <1>1, <2>1, <2>3 DEF TextInv, TypeInv, VariableTypes
    <3>2. PICK writers \in {{w}, {}} : author' = [author EXCEPT ![Entity(w)] = writers]
      BY <2>1
    <3> QED BY <1>1, <2>1, <2>3, <3>1, <3>2, OthersWrote
  <2>4. WorkerWrote(w)'
    <3> SUFFICES ASSUME author'[Entity(w)] = {w}, NEW e \in PageEntities, <<e[1], e[2]>> = Entity(w)
                 PROVE  InStore(w, e, flushed[w])'
      BY <1>1 DEF WorkerWrote, Entity
    <3>1. WroteAlone(w)
      BY <2>1, <2>2 DEF TypeInv, VariableTypes
    <3>2. /\ 2 * e[3] - 1 <= n => pageText'[e] = read[w][e[3]]
          /\ 2 * e[3] <= n /\ read[w][e[3]] # {} => indexText'[e] = read[w][e[3]]
      BY <1>1, <2>1, <2>2, <3>1, Writes DEF TextInv
    <3> QED BY <1>1, <2>2, <3>2 DEF InStore
  <2>5. ASSUME NEW e \in PageEntities, last'[<<e[1], e[2]>>] # {}
        PROVE  /\ last'[<<e[1], e[2]>>] = last[<<e[1], e[2]>>]
               /\ pageText'[e] = pageText[e] /\ indexText'[e] = indexText[e]
    <3>1. <<e[1], e[2]>> # Entity(w)
      <4>1. last'[Entity(w)] = {}
        BY <2>1, <2>2 DEF TypeInv, VariableTypes
      <4> QED BY <2>5, <4>1
    <3> QED BY <2>1, <3>1, PageType DEF Written, Indexed, TypeInv, VariableTypes
  <2>6. (CleanRunIsWhole /\ IndexFollowsPages)'
    BY <2>5 DEF TextInv, CleanRunIsWhole, IndexFollowsPages
  <2> QED BY <1>2, <2>3, <2>4, <2>6 DEF TextInv
<1> QED BY <1>1, <1>3, <1>4

(* Nothing has been read at first. *)
LEMMA TextInit == Init => TextInv
<1> SUFFICES ASSUME Init PROVE TextInv
  OBVIOUS
<1>1. ASSUME NEW e \in PageEntities PROVE last[<<e[1], e[2]>>] = {}
  BY PageType DEF Init
<1> QED BY <1>1 DEF Init, TextInv, WorkerReads, WorkerWrote, CleanRunIsWhole, IndexFollowsPages

(* Every step keeps what was read whole. *)
LEMMA TextStep == TypeInv /\ TextInv /\ [Next]_vars => TextInv'
<1> SUFFICES ASSUME TypeInv, TextInv, [Next]_vars PROVE TextInv'
  OBVIOUS
<1>2. ASSUME UNCHANGED <<pageText, indexText, last, author>>, \A w \in Workers : WorkerReads(w)',
             \A w \in Workers : pc'[w] = "emit" =>
                flushed'[w] = 0 \/ (pc[w] = "emit" /\ job'[w] = job[w] /\ read'[w] = read[w]
                                   /\ flushed'[w] = flushed[w])
      PROVE  TextInv'
  <2>1. ASSUME NEW w \in Workers PROVE WorkerWrote(w)'
    <3>1. CASE pc'[w] = "emit" /\ flushed'[w] = 0
      <4>1. ASSUME NEW e \in PageEntities PROVE InStore(w, e, flushed[w])'
        <5>1. e[3] \in Nat /\ e[3] >= 1
          BY PageType
        <5>2. ~(2 * e[3] - 1 <= 0) /\ ~(2 * e[3] <= 0)
          BY <5>1
        <5> QED BY <3>1, <5>2 DEF InStore
      <4> QED BY <4>1 DEF WorkerWrote
    <3>2. CASE pc'[w] = "emit" /\ flushed'[w] # 0
      <4>1. /\ pc[w] = "emit" /\ job'[w] = job[w] /\ read'[w] = read[w] /\ flushed'[w] = flushed[w]
            /\ Entity(w)' = Entity(w)
        BY <1>2, <3>2 DEF Entity
      <4>2. WorkerWrote(w) /\ UNCHANGED <<pageText, indexText, author>>
        BY <1>2 DEF TextInv
      <4> QED BY <4>1, <4>2 DEF WorkerWrote, InStore
    <3>3. CASE pc'[w] # "emit"
      BY <3>3 DEF WorkerWrote
    <3> QED BY <3>1, <3>2, <3>3
  <2>2. (CleanRunIsWhole /\ IndexFollowsPages)'
    BY <1>2 DEF TextInv, CleanRunIsWhole, IndexFollowsPages
  <2> QED BY <1>2, <2>1, <2>2 DEF TextInv
<1>3. ASSUME NEW w \in Workers,
             \/ OpenPage(w) \/ SkipImage(w) \/ CachedText(w) \/ Recognize(w) \/ FailToRecognize(w)
             \/ AnswerCached(w) \/ Ask(w)
      PROVE  TextInv'
  <2>1. WorkerReads(w)'
    BY <1>3, ImageReads, OpenReads, AnswerReads DEF TextInv
  <2>2. UNCHANGED <<pageText, indexText, last, author, job, flushed>>
    BY <1>3 DEF OpenPage, SkipImage, CachedText, Recognize, FailToRecognize, AnswerCached, Ask,
       TakeAnswer, store
  <2>3. ASSUME NEW v \in Workers, v # w
        PROVE  pc'[v] = pc[v] /\ read'[v] = read[v] /\ images'[v] = images[v] /\ missed'[v] = missed[v]
    BY <1>3, <2>3 DEF OpenPage, SkipImage, CachedText, Recognize, FailToRecognize, AnswerCached,
       Ask, TakeAnswer, Goto, NextImage, AddText, TypeInv, VariableTypes
  <2>4. ASSUME NEW v \in Workers, v # w PROVE WorkerReads(v)'
    BY <2>2, <2>3, <2>4, OthersRead DEF TextInv
  <2>5. flushed[w] = 0
    <3>1. pc[w] \in {"parse", "ask"} /\ sent[w] = 0 /\ flushed[w] \in Nat /\ flushed[w] <= sent[w]
      BY <1>3 DEF OpenPage, SkipImage, CachedText, Recognize, FailToRecognize, AnswerCached, Ask,
         TypeInv, VariableTypes, WorkerHasJob
    <3> QED BY <3>1
  <2>6. \A v \in Workers : pc'[v] = "emit" =>
            flushed'[v] = 0 \/ (pc[v] = "emit" /\ job'[v] = job[v] /\ read'[v] = read[v]
                               /\ flushed'[v] = flushed[v])
    BY <2>2, <2>3, <2>5
  <2> QED BY <1>2, <2>1, <2>2, <2>4, <2>6
<1>4. ASSUME NEW w \in Workers,
             \/ Fetch(w) \/ Lookup(w) \/ Convert(w) \/ Render(w) \/ Archive(w) \/ Tag(w)
             \/ Crash(w)
      PROVE  TextInv'
  <2>1. UNCHANGED <<pageText, indexText, last, author>>
    BY <1>4 DEF Fetch, Lookup, Convert, Render, Produce, Archive, Tag, Crash, store
  <2>2. /\ \A v \in Workers \ {w} :
             /\ pc'[v] = pc[v] /\ job'[v] = job[v] /\ read'[v] = read[v]
             /\ images'[v] = images[v] /\ missed'[v] = missed[v] /\ flushed'[v] = flushed[v]
    BY <1>4 DEF Fetch, Lookup, Convert, Render, Produce, Archive, Tag, Crash, Discard,
       Goto, text, TypeInv, VariableTypes
  <2>3. WorkerReads(w)' /\ pc'[w] # "emit"
    <3>2. CASE Crash(w)
      <4>1. pc'[w] = "idle"
        BY <3>2 DEF Crash, Discard, Goto, TypeInv, VariableTypes
      <4> QED BY <4>1 DEF WorkerReads
    <3>3. CASE Fetch(w) \/ Lookup(w) \/ Convert(w) \/ Render(w) \/ Archive(w) \/ Tag(w)
      <4>1. read[w] = <<>> /\ read' = read
        BY <3>3 DEF Fetch, Lookup, Convert, Render, Produce, Archive, Tag, text, TypeInv, WorkerHasJob
      <4>2. pc'[w] # "emit"
        <5>1. CASE Fetch(w)
          <6>1. PICK j \in BagToSet(todo) :
                  Goto(w, CASE Kind[j.doc] = "office" -> "lookup"
                            [] Kind[j.doc] = "scan" -> "render"
                            [] Kind[j.doc] \in {"pdf", "image"} -> "parse"
                            [] Kind[j.doc] = "other" -> "ask")
            BY <5>1 DEF Fetch
          <6>2. Kind[j.doc] \in Kinds
            BY DEF TypeInv, VariableTypes, JobType
          <6> QED BY <6>1, <6>2 DEF Goto, Kinds, Paged, TypeInv, VariableTypes
        <5>2. CASE Lookup(w) \/ Convert(w) \/ Render(w) \/ Archive(w) \/ Tag(w)
          BY <5>2 DEF Lookup, Convert, Render, Produce, Archive, Tag, Goto, TypeInv, VariableTypes
        <5> QED BY <3>3, <5>1, <5>2
      <4>3. 1..Len(read'[w]) = {}
        BY <4>1
      <4> QED BY <4>2, <4>3 DEF WorkerReads
    <3> QED BY <1>4, <3>2, <3>3
  <2>4. ASSUME NEW v \in Workers, v # w PROVE WorkerReads(v)'
    BY <2>2, <2>4, OthersRead DEF TextInv
  <2>5. \A v \in Workers : pc'[v] = "emit" =>
            pc[v] = "emit" /\ job'[v] = job[v] /\ read'[v] = read[v] /\ flushed'[v] = flushed[v]
    BY <2>2, <2>3
  <2> QED BY <1>2, <2>1, <2>3, <2>4, <2>5
<1>5. CASE ClearCache \/ UNCHANGED vars
  <2>1. UNCHANGED <<pageText, indexText, last, author, pc, job, read, images, missed, flushed>>
    BY <1>5 DEF ClearCache, vars, store, worker, text
  <2> QED BY <1>2, <2>1, OthersRead DEF TextInv
<1> QED BY <1>3, <1>4, <1>5, EmitReads, EndReads DEF Next, Step

(* A document ingested without a failure has the text of every image on     *)
(* every page, read with the models of that job's languages, whatever the   *)
(* caches held and whichever engine read it before (ocr.py:61-74, 91-102,  *)
(* tika.py:55-66).                                                         *)
THEOREM CleanIsWhole == Spec => []CleanRunIsWhole
<1>1. TextInv => CleanRunIsWhole
  BY DEF TextInv
<1> QED BY <1>1, TypeInit, TypeStep, TextInit, TextStep, PTL DEF Spec

(* Where the last run that wrote a document went through, its index text   *)
(* has each page as the page's entity has it, wherever the writer flushed   *)
(* and whoever wrote before it or broke off between the two (pdf.py:100-110,*)
(* manager.py:183-189).                                                    *)
THEOREM IndexFollows == Spec => []IndexFollowsPages
<1>1. TextInv => IndexFollowsPages
  BY DEF TextInv
<1> QED BY <1>1, TypeInit, TypeStep, TextInit, TextStep, PTL DEF Spec

-----------------------------------------------------------------------------
(* PDFs *)

(* The PDF a worker would name in its document's entity is archived, and   *)
(* an idle worker has none.                                                *)
WorkerPdfArchived ==
    \A w \in Workers :
        /\ pc[w] = "idle" => pdf[w] = 0
        /\ pc[w] # "idle" /\ ArchivedPdf(w) # 0 =>
            <<job[w].dataset, job[w].doc, pdf[w]>> \in archive

HashInv == PdfIsArchived /\ WorkerPdfArchived

(* A worker's entity is one of the dataset it works for. *)
LEMMA EntityType ==
    ASSUME NEW w \in Workers, job[w] \in JobType
    PROVE  /\ job[w].dataset \in Datasets /\ job[w].doc \in Docs
           /\ Entity(w) \in Entities
           /\ Entity(w)[1] = job[w].dataset /\ Entity(w)[2] = job[w].doc
BY DEF JobType, Entity, Entities

(* The end of a job writes the hash of an archived PDF, or none. *)
LEMMA FinalizeArchived ==
    ASSUME TypeInv, HashInv, NEW w \in Workers, pc[w] # "idle", NEW setting,
           Finalize(w, setting), Discard(w), UNCHANGED archive
    PROVE  HashInv'
<1>1. job[w] \in JobType /\ ArchivedPdf(w) \in Nat
  BY DEF TypeInv, VariableTypes, WorkerHasJob, ArchivedPdf
<1>2. pdfHash' = [pdfHash EXCEPT ![Entity(w)] = ArchivedPdf(w)]
  BY DEF Finalize
<1>3. PdfIsArchived'
  <2> SUFFICES ASSUME NEW e \in Entities, pdfHash'[e] # 0
               PROVE  <<e[1], e[2], pdfHash'[e]>> \in archive
    BY DEF PdfIsArchived
  <2>1. CASE e = Entity(w)
    <3>1. pdfHash'[e] = ArchivedPdf(w) /\ ArchivedPdf(w) = pdf[w]
      BY <1>2, <2>1 DEF TypeInv, VariableTypes, ArchivedPdf
    <3> QED BY <3>1, <2>1, <1>1, EntityType DEF HashInv, WorkerPdfArchived
  <2>2. CASE e # Entity(w)
    BY <1>2, <2>2 DEF HashInv, TypeInv, VariableTypes, PdfIsArchived
  <2> QED BY <2>1, <2>2
<1>4. WorkerPdfArchived'
  BY DEF HashInv, TypeInv, VariableTypes, WorkerPdfArchived, ArchivedPdf, Discard, Goto
<1> QED BY <1>3, <1>4 DEF HashInv

(* Fetching a job: there is no PDF yet; looking for it, making it and      *)
(* archiving it.                                                           *)
LEMMA RenderingKeeps ==
    ASSUME TypeInv, HashInv, NEW w \in Workers,
           Fetch(w) \/ Lookup(w) \/ Convert(w) \/ Render(w) \/ Archive(w) \/ Tag(w)
    PROVE  HashInv'
<1>1. UNCHANGED pdfHash /\ archive \subseteq archive'
  BY DEF Fetch, Lookup, Convert, Render, Produce, Archive, Tag, store
<1>2. PdfIsArchived'
  BY <1>1 DEF HashInv, PdfIsArchived
<1>3. WorkerPdfArchived'
  <2>1. CASE Fetch(w)
    <3>1. /\ \A v \in Workers \ {w} : pc'[v] = pc[v] /\ job'[v] = job[v]
          /\ pc[w] = "idle" /\ UNCHANGED <<archive, pdf>>
      BY <2>1 DEF Fetch, Goto, TypeInv, VariableTypes
    <3> QED BY <3>1 DEF HashInv, WorkerPdfArchived, ArchivedPdf
  <2>2. CASE Lookup(w)
    BY <2>2 DEF HashInv, TypeInv, VariableTypes, WorkerPdfArchived, ArchivedPdf, Lookup, Goto, Doc
  <2>3. CASE Convert(w) \/ Render(w)
    BY <2>3 DEF HashInv, TypeInv, VariableTypes, WorkerPdfArchived, ArchivedPdf, Convert, Render,
       Produce, Goto
  <2>4. CASE Archive(w)
    BY <2>4 DEF HashInv, TypeInv, VariableTypes, WorkerPdfArchived, ArchivedPdf, Archive, Goto, Doc
  <2>5. CASE Tag(w)
    BY <2>5 DEF HashInv, TypeInv, VariableTypes, WorkerPdfArchived, ArchivedPdf, Tag, Goto
  <2> QED BY <2>1, <2>2, <2>3, <2>4, <2>5
<1> QED BY <1>2, <1>3 DEF HashInv

(* What parsing, asking Tika and emitting the pages leave alone. *)
LEMMA ParsingLeaves ==
    ASSUME TypeInv, NEW w \in Workers,
           \/ OpenPage(w) \/ SkipImage(w) \/ CachedText(w) \/ Recognize(w)
           \/ FailToRecognize(w) \/ AnswerCached(w) \/ Ask(w) \/ EmitPage(w) \/ EmitText(w)
    PROVE  /\ UNCHANGED <<archive, pdfTag, made, pdfHash, job, pdf, faults, crashes, clears>>
           /\ pc[w] \in {"parse", "ask", "emit"} /\ pc'[w] \in {"parse", "emit"}
           /\ \A v \in Workers \ {w} : pc'[v] = pc[v]
<1>1. CASE EmitPage(w) \/ EmitText(w)
  BY <1>1, EmitSteps DEF tags, losses
<1>2. CASE ~(EmitPage(w) \/ EmitText(w))
  BY <1>2 DEF OpenPage, SkipImage, CachedText, Recognize, FailToRecognize, AnswerCached, Ask,
     TakeAnswer, Goto, TypeInv, VariableTypes, store, tags, losses
<1> QED BY <1>1, <1>2

(* The invariant is inductive: a killed worker writes nothing, and to      *)
(* clear the caches takes nothing from an archive.                         *)
LEMMA HashStep == TypeInv /\ HashInv /\ [Next]_vars => HashInv'
<1> SUFFICES ASSUME TypeInv, HashInv, [Next]_vars PROVE HashInv'
  OBVIOUS
<1>1. ASSUME NEW w \in Workers, Succeed(w) \/ Reject(w) \/ AskInVain(w) \/ Raise(w)
      PROVE  HashInv'
  <2>1. PICK setting : Finalize(w, setting)
    BY <1>1 DEF Succeed, Reject, AskInVain, Raise
  <2>2. pc[w] # "idle" /\ Discard(w) /\ UNCHANGED archive
    BY <1>1 DEF Succeed, Reject, AskInVain, Raise
  <2> QED BY <2>1, <2>2, FinalizeArchived
<1>2. ASSUME NEW w \in Workers,
             \/ OpenPage(w) \/ SkipImage(w) \/ CachedText(w) \/ Recognize(w)
             \/ FailToRecognize(w) \/ AnswerCached(w) \/ Ask(w) \/ EmitPage(w) \/ EmitText(w)
      PROVE  HashInv'
  BY <1>2, ParsingLeaves DEF HashInv, PdfIsArchived, WorkerPdfArchived, ArchivedPdf
<1>3. ASSUME NEW w \in Workers, Crash(w) PROVE HashInv'
  BY <1>3 DEF HashInv, TypeInv, VariableTypes, PdfIsArchived, WorkerPdfArchived, ArchivedPdf, Crash,
     Discard, Goto, store
<1>4. CASE ClearCache \/ UNCHANGED vars
  <2>1. UNCHANGED <<archive, pdfHash, pc, job, pdf>>
    BY <1>4 DEF ClearCache, vars, store, worker
  <2> QED BY <2>1 DEF HashInv, PdfIsArchived, WorkerPdfArchived, ArchivedPdf
<1> QED BY <1>1, <1>2, <1>3, <1>4, RenderingKeeps DEF Next, Step

(* Nothing is named at first. *)
LEMMA HashInit == Init => HashInv
BY DEF Init, HashInv, PdfIsArchived, WorkerPdfArchived

(* An entity never names a PDF that its dataset's archive lacks, whichever *)
(* dataset's job left the hash in the cache (convert.py:261-279).          *)
THEOREM PdfArchived == Spec => []PdfIsArchived
<1>1. HashInv => PdfIsArchived
  BY DEF HashInv
<1> QED BY <1>1, HashInit, TypeInit, TypeStep, HashStep, PTL DEF Spec

-----------------------------------------------------------------------------
(* Conversions *)

Copies(s, d) == {n \in 1..made[d] : <<s, d, n>> \in archive}
OnlyIn(s, d) == \A r \in Datasets \ {s} : Copies(r, d) = {}

(* The workers that make a PDF of a document, and those that have archived *)
(* one and have not remembered it yet.                                     *)
At(s, d, steps) == {w \in Workers : pc[w] \in steps /\ job[w].dataset = s /\ Doc(w) = d}
Converting(s, d) == At(s, d, {"convert", "archive"})
Tagging(s, d) == At(s, d, {"tag"})

(* A PDF that is archived, about to be, or remembered was made; one that   *)
(* is remembered is in an archive.                                         *)
WasMade ==
    /\ \A s \in Datasets, d \in Docs, n \in Nat : <<s, d, n>> \in archive => n \in 1..made[d]
    /\ \A w \in Workers : pc[w] \in {"archive", "tag"} => pdf[w] \in 1..made[Doc(w)]
    /\ \A d \in Docs : pdfTag[d] # 0 => \E r \in Datasets : <<r, d, pdfTag[d]>> \in archive

(* What has been spent: a conversion for each worker when the cache was    *)
(* cleared, and one for each run that broke off.                           *)
Spent == Cardinality(Workers) * clears + faults + crashes

(* While nothing is remembered of a document, each worker may convert it   *)
(* once more, but for those that are about to remember it.                 *)
Within(s, d) ==
    /\ Cardinality(Copies(s, d)) + Cardinality(Converting(s, d)) <= Spent + Cardinality(Workers)
    /\ pdfTag[d] = 0 => Cardinality(Copies(s, d)) <= Spent + Cardinality(Tagging(s, d))

WithinBudget == \A s \in Datasets, d \in Docs : Kind[d] = "office" /\ OnlyIn(s, d) => Within(s, d)

ReuseInv == WasMade /\ WithinBudget

(* Making a PDF, archiving it and remembering it. *)
LEMMA MadeStep ==
    ASSUME TypeInv, HashInv, WasMade, [Next]_vars
    PROVE  WasMade' /\ archive \subseteq archive' /\ \A d \in Docs : made[d] <= made'[d]
<1>1. ASSUME NEW w \in Workers, Convert(w) \/ Render(w)
      PROVE  WasMade' /\ archive \subseteq archive' /\ \A d \in Docs : made[d] <= made'[d]
  <2>1. PICK n \in 1..(made[Doc(w)] + 1) :
          /\ pdf' = [pdf EXCEPT ![w] = n]
          /\ made' = [made EXCEPT ![Doc(w)] = IF n > @ THEN n ELSE @]
    BY <1>1 DEF Convert, Render, Produce
  <2>2. /\ UNCHANGED <<archive, pdfTag, job>> /\ pc' = [pc EXCEPT ![w] = "archive"]
        /\ pc[w] # "idle"
    BY <1>1 DEF Convert, Render, Produce, Goto, tags
  <2>3. Doc(w) \in Docs /\ made \in [Docs -> Nat] /\ pdf \in [Workers -> Nat] /\ pc \in [Workers -> Steps]
    BY <2>2 DEF TypeInv, VariableTypes, WorkerHasJob, JobType, Doc
  <2>4. made[Doc(w)] \in Nat /\ n \in Nat /\ n >= 1
    BY <2>1, <2>3
  <2>5. made' \in [Docs -> Nat] /\ (\A d \in Docs : made[d] <= made'[d]) /\ n <= made'[Doc(w)]
    BY <2>1, <2>3, <2>4
  <2>6. ASSUME NEW v \in Workers, pc'[v] \in {"archive", "tag"}
        PROVE  pdf'[v] \in 1..made'[Doc(v)]
    <3>1. CASE v = w
      BY <2>1, <2>3, <2>4, <2>5, <3>1
    <3>2. CASE v # w
      <4>1. pdf'[v] = pdf[v] /\ pc'[v] = pc[v] /\ pdf[v] \in 1..made[Doc(v)]
        BY <2>1, <2>2, <2>3, <2>6, <3>2 DEF WasMade
      <4>2. Doc(v) \in Docs
        BY <2>6, <4>1 DEF TypeInv, WorkerHasJob, JobType, Doc
      <4> QED BY <2>3, <2>5, <4>1, <4>2
    <3> QED BY <3>1, <3>2
  <2>7. \A v \in Workers : Doc(v)' = Doc(v)
    BY <2>2 DEF Doc
  <2>8. ASSUME NEW s \in Datasets, NEW d \in Docs, NEW k \in Nat, <<s, d, k>> \in archive
        PROVE  k \in 1..made'[d]
    BY <2>3, <2>5, <2>8 DEF WasMade
  <2> QED BY <2>2, <2>5, <2>6, <2>7, <2>8 DEF WasMade
<1>2. ASSUME NEW w \in Workers, Archive(w)
      PROVE  WasMade' /\ archive \subseteq archive' /\ \A d \in Docs : made[d] <= made'[d]
  <2>1. /\ archive' = archive \union {<<job[w].dataset, Doc(w), pdf[w]>>}
        /\ UNCHANGED <<made, pdfTag, job, pdf>> /\ pc[w] = "archive"
        /\ \A v \in Workers \ {w} : pc'[v] = pc[v]
    BY <1>2 DEF Archive, Goto, tags, TypeInv, VariableTypes
  <2>2. pdf[w] \in 1..made[Doc(w)]
    BY <2>1 DEF WasMade
  <2>3. \A d \in Docs : made[d] <= made'[d]
    BY <2>1 DEF TypeInv, VariableTypes
  <2>4. \A s \in Datasets, d \in Docs, n \in Nat : <<s, d, n>> \in archive' => n \in 1..made'[d]
    BY <2>1, <2>2 DEF WasMade
  <2>5. \A v \in Workers : pc'[v] \in {"archive", "tag"} => pdf'[v] \in 1..made'[Doc(v)']
    BY <2>1, <2>2 DEF WasMade, Doc
  <2>6. \A d \in Docs : pdfTag'[d] # 0 => \E r \in Datasets : <<r, d, pdfTag'[d]>> \in archive'
    BY <2>1 DEF WasMade
  <2> QED BY <2>1, <2>3, <2>4, <2>5, <2>6 DEF WasMade
<1>3. ASSUME NEW w \in Workers, Tag(w)
      PROVE  WasMade' /\ archive \subseteq archive' /\ \A d \in Docs : made[d] <= made'[d]
  <2>1. /\ pdfTag' = [pdfTag EXCEPT ![Doc(w)] = pdf[w]] /\ pc' = [pc EXCEPT ![w] = "parse"]
        /\ UNCHANGED <<archive, made, job, pdf>> /\ pc[w] = "tag"
    BY <1>3 DEF Tag, Goto
  <2>2. job[w] \in JobType /\ <<job[w].dataset, Doc(w), pdf[w]>> \in archive
    <3>1. pdf[w] \in 1..made[Doc(w)]
      BY <2>1 DEF WasMade
    <3>2. pdf[w] # 0 /\ ArchivedPdf(w) = pdf[w]
      BY <2>1, <3>1 DEF ArchivedPdf, TypeInv, VariableTypes
    <3> QED BY <2>1, <3>2 DEF HashInv, WorkerPdfArchived, Doc, TypeInv, WorkerHasJob
  <2>3. \A d \in Docs : pdfTag'[d] # 0 => \E r \in Datasets : <<r, d, pdfTag'[d]>> \in archive
    BY <2>1, <2>2 DEF WasMade, JobType, Doc, TypeInv, VariableTypes
  <2>4. \A v \in Workers : pc'[v] \in {"archive", "tag"} => pc[v] = pc'[v]
    BY <2>1 DEF TypeInv, VariableTypes
  <2>5. \A d \in Docs : made[d] <= made'[d]
    BY <2>1 DEF TypeInv, VariableTypes
  <2>6. \A s \in Datasets, d \in Docs, n \in Nat : <<s, d, n>> \in archive' => n \in 1..made'[d]
    BY <2>1 DEF WasMade
  <2>7. \A v \in Workers : pc'[v] \in {"archive", "tag"} => pdf'[v] \in 1..made'[Doc(v)']
    BY <2>1, <2>4 DEF WasMade, Doc
  <2> QED BY <2>1, <2>3, <2>5, <2>6, <2>7 DEF WasMade
<1>4. ASSUME UNCHANGED <<archive, made>>, \A d \in Docs : pdfTag'[d] \in {0, pdfTag[d]},
             \A v \in Workers :
                pc'[v] \in {"archive", "tag"} => pc[v] = pc'[v] /\ job'[v] = job[v] /\ pdf'[v] = pdf[v]
      PROVE  WasMade' /\ archive \subseteq archive' /\ \A d \in Docs : made[d] <= made'[d]
  <2>1. \A d \in Docs : made[d] <= made'[d]
    BY <1>4 DEF TypeInv, VariableTypes
  <2>2. \A s \in Datasets, d \in Docs, n \in Nat : <<s, d, n>> \in archive' => n \in 1..made'[d]
    BY <1>4 DEF WasMade
  <2>3. \A v \in Workers : pc'[v] \in {"archive", "tag"} => pdf'[v] \in 1..made'[Doc(v)']
    BY <1>4 DEF WasMade, Doc
  <2>4. \A d \in Docs : pdfTag'[d] # 0 => \E r \in Datasets : <<r, d, pdfTag'[d]>> \in archive'
    BY <1>4 DEF WasMade
  <2> QED BY <1>4, <2>1, <2>2, <2>3, <2>4 DEF WasMade
<1>5. ASSUME NEW w \in Workers, Fetch(w)
      PROVE  WasMade' /\ archive \subseteq archive' /\ \A d \in Docs : made[d] <= made'[d]
  <2>1. PICK j \in BagToSet(todo) :
          /\ job' = [job EXCEPT ![w] = j]
          /\ Goto(w, CASE Kind[j.doc] = "office" -> "lookup"
                       [] Kind[j.doc] = "scan" -> "render"
                       [] Kind[j.doc] \in {"pdf", "image"} -> "parse"
                       [] Kind[j.doc] = "other" -> "ask")
    BY <1>5 DEF Fetch
  <2>2. Kind[j.doc] \in Kinds
    BY DEF TypeInv, VariableTypes, JobType
  <2>3. PICK step \in {"lookup", "render", "parse", "ask"} : pc' = [pc EXCEPT ![w] = step]
    BY <2>1, <2>2 DEF Goto, Kinds, Paged
  <2>4. UNCHANGED <<archive, made, pdfTag, pdf>>
    BY <1>5 DEF Fetch, tags
  <2> QED BY <1>4, <2>1, <2>3, <2>4 DEF TypeInv, VariableTypes
<1>6. ASSUME NEW w \in Workers, Lookup(w)
      PROVE  WasMade' /\ archive \subseteq archive' /\ \A d \in Docs : made[d] <= made'[d]
  BY <1>4, <1>6 DEF Lookup, Goto, tags, TypeInv, VariableTypes
<1>7. ASSUME NEW w \in Workers,
             \/ OpenPage(w) \/ SkipImage(w) \/ CachedText(w) \/ Recognize(w)
             \/ FailToRecognize(w) \/ AnswerCached(w) \/ Ask(w) \/ EmitPage(w) \/ EmitText(w)
      PROVE  WasMade' /\ archive \subseteq archive' /\ \A d \in Docs : made[d] <= made'[d]
  BY <1>4, <1>7, ParsingLeaves
<1>8. ASSUME NEW w \in Workers,
             \/ Succeed(w) \/ Reject(w) \/ AskInVain(w) \/ Raise(w) \/ Crash(w)
      PROVE  WasMade' /\ archive \subseteq archive' /\ \A d \in Docs : made[d] <= made'[d]
  <2>1. Discard(w) /\ UNCHANGED <<archive, made, pdfTag>>
    BY <1>8 DEF Succeed, Reject, AskInVain, Raise, Crash, tags
  <2>2. \A v \in Workers :
            pc'[v] \in {"archive", "tag"} => pc[v] = pc'[v] /\ job'[v] = job[v] /\ pdf'[v] = pdf[v]
    BY <2>1 DEF Discard, Goto, TypeInv, VariableTypes
  <2> QED BY <1>4, <2>1, <2>2
<1>9. CASE ClearCache \/ UNCHANGED vars
  <2>1. /\ UNCHANGED <<archive, made, pc, job, pdf>>
        /\ \A d \in Docs : pdfTag'[d] \in {0, pdfTag[d]}
    BY <1>9 DEF ClearCache, vars, tags, worker
  <2> QED BY <1>4, <2>1
<1> QED BY <1>1, <1>2, <1>3, <1>5, <1>6, <1>7, <1>8, <1>9 DEF Next, Step

(* The library's sets are those of the module.                             *)
LEMMA SameSets ==
    ASSUME NEW S
    PROVE  /\ Cardinality(S) = FS!Cardinality(S)
           /\ IsFiniteSet(S) <=> FS!IsFiniteSet(S)
<1>1. Cardinality(S) = FS!Cardinality(S)
  BY DEF Cardinality, FS!Cardinality
<1>2. IsFiniteSet(S) <=> FS!IsFiniteSet(S)
  BY DEF IsFiniteSet, FS!IsFiniteSet
<1> QED BY <1>1, <1>2

(* A part of a finite set, of one with one more, of one with one less. *)
LEMMA Counts ==
    ASSUME NEW B, IsFiniteSet(B), NEW A, NEW x
    PROVE  /\ Cardinality(B) \in Nat
           /\ A \subseteq B => Cardinality(A) \in Nat /\ Cardinality(A) <= Cardinality(B)
           /\ A \subseteq B \union {x} => Cardinality(A) \in Nat /\ Cardinality(A) <= Cardinality(B) + 1
           /\ x \in B /\ A \subseteq B \ {x} =>
                Cardinality(A) \in Nat /\ Cardinality(A) + 1 <= Cardinality(B)
<1>1. /\ Cardinality(B) \in Nat
      /\ A \subseteq B => Cardinality(A) \in Nat /\ Cardinality(A) <= Cardinality(B)
  BY FS!FS_Subset, FS!FS_CardinalityType, SameSets
<1>2. /\ IsFiniteSet(B \union {x})
      /\ Cardinality(B \union {x}) \in Nat /\ Cardinality(B \union {x}) <= Cardinality(B) + 1
  <2>1. FS!IsFiniteSet(B)
    BY SameSets
  <2>2. /\ FS!IsFiniteSet(B \union {x})
        /\ FS!Cardinality(B \union {x}) = IF x \in B THEN FS!Cardinality(B) ELSE FS!Cardinality(B) + 1
    BY <2>1, FS!FS_AddElement
  <2>3. /\ IsFiniteSet(B \union {x})
        /\ Cardinality(B \union {x}) = IF x \in B THEN Cardinality(B) ELSE Cardinality(B) + 1
    BY <2>2, SameSets
  <2> QED BY <1>1, <2>3
<1>3. A \subseteq B \union {x} => Cardinality(A) \in Nat /\ Cardinality(A) <= Cardinality(B \union {x})
  BY <1>2, FS!FS_Subset, FS!FS_CardinalityType, SameSets
<1>4. x \in B => /\ IsFiniteSet(B \ {x}) /\ Cardinality(B \ {x}) \in Nat
                 /\ Cardinality(B \ {x}) + 1 = Cardinality(B)
  BY FS!FS_RemoveElement, FS!FS_CardinalityType, SameSets
<1>5. x \in B /\ A \subseteq B \ {x} =>
        Cardinality(A) \in Nat /\ Cardinality(A) <= Cardinality(B \ {x})
  BY <1>4, FS!FS_Subset, FS!FS_CardinalityType, SameSets
<1> QED BY <1>1, <1>2, <1>3, <1>4, <1>5

(* What is counted is finite; no worker is counted twice.                  *)
LEMMA CountedSets ==
    ASSUME NEW m \in Nat, NEW C, C \subseteq 1..m, NEW F, NEW T, F \subseteq Workers, T \subseteq Workers,
           F \intersect T = {}
    PROVE  /\ IsFiniteSet(C) /\ Cardinality(C) \in Nat
           /\ IsFiniteSet(F) /\ Cardinality(F) \in Nat
           /\ IsFiniteSet(T) /\ Cardinality(T) \in Nat
           /\ Cardinality(Workers) \in Nat /\ Cardinality(F) + Cardinality(T) <= Cardinality(Workers)
<1>1. IsFiniteSet(1..m) /\ IsFiniteSet(Workers)
  BY SameSets, FS!FS_Interval
<1>2. IsFiniteSet(C) /\ IsFiniteSet(F) /\ IsFiniteSet(T)
  BY <1>1, SameSets, FS!FS_Subset
<1>3. Cardinality(F) \in Nat /\ Cardinality(T) \in Nat /\ Cardinality(C) \in Nat
  BY <1>2, Counts
<1>4. Cardinality(F \union T) <= Cardinality(Workers)
  <2>1. F \union T \subseteq Workers
    OBVIOUS
  <2> QED BY <1>1, <2>1, Counts
<1>5. Cardinality(F \union T) = Cardinality(F) + Cardinality(T) - Cardinality({})
  BY <1>2, SameSets, FS!FS_Union
<1>6. Cardinality({}) = 0
  BY FS!FS_EmptySet, SameSets
<1>7. Cardinality(F) + Cardinality(T) <= Cardinality(Workers)
  BY <1>3, <1>4, <1>5, <1>6
<1> QED BY <1>1, <1>2, <1>3, <1>7, Counts

(* So are the copies of a document and the workers on it. *)
LEMMA Counted ==
    ASSUME TypeInv, NEW s, NEW d \in Docs
    PROVE  /\ IsFiniteSet(Copies(s, d)) /\ Cardinality(Copies(s, d)) \in Nat
           /\ IsFiniteSet(Converting(s, d)) /\ Cardinality(Converting(s, d)) \in Nat
           /\ IsFiniteSet(Tagging(s, d)) /\ Cardinality(Tagging(s, d)) \in Nat
           /\ Cardinality(Workers) \in Nat
           /\ Cardinality(Converting(s, d)) + Cardinality(Tagging(s, d)) <= Cardinality(Workers)
<1>1. made[d] \in Nat /\ Copies(s, d) \subseteq 1..made[d]
  BY DEF Copies, TypeInv, VariableTypes
<1>2. /\ Converting(s, d) \subseteq Workers /\ Tagging(s, d) \subseteq Workers
      /\ Converting(s, d) \intersect Tagging(s, d) = {}
  BY DEF Converting, Tagging, At
<1> QED BY <1>1, <1>2, CountedSets

(* The same after a step. *)
LEMMA CountedNext ==
    ASSUME TypeInv', NEW s, NEW d \in Docs
    PROVE  /\ IsFiniteSet(Copies(s, d)') /\ Cardinality(Copies(s, d)') \in Nat
           /\ IsFiniteSet(Converting(s, d)') /\ Cardinality(Converting(s, d)') \in Nat
           /\ IsFiniteSet(Tagging(s, d)') /\ Cardinality(Tagging(s, d)') \in Nat
           /\ Cardinality(Converting(s, d)') + Cardinality(Tagging(s, d)') <= Cardinality(Workers)
<1>1. made'[d] \in Nat /\ Copies(s, d)' \subseteq 1..made'[d]
  BY DEF Copies, TypeInv, VariableTypes
<1>2. /\ Converting(s, d)' \subseteq Workers /\ Tagging(s, d)' \subseteq Workers
      /\ Converting(s, d)' \intersect Tagging(s, d)' = {}
  BY DEF Converting, Tagging, At
<1> QED BY <1>1, <1>2, CountedSets

(* How the budget changes. *)
LEMMA SpentSteps ==
    ASSUME TypeInv, TypeInv'
    PROVE  /\ Spent \in Nat /\ Spent' \in Nat
           /\ UNCHANGED <<clears, faults, crashes>> => Spent' = Spent
           /\ UNCHANGED clears /\ (faults + crashes)' = faults + crashes + 1 => Spent' = Spent + 1
           /\ clears' = clears + 1 /\ UNCHANGED <<faults, crashes>> =>
                Spent' = Spent + Cardinality(Workers)
<1>1. Cardinality(Workers) \in Nat
  BY Counts
<1>2. \A a, b \in Nat : a * b \in Nat /\ a * (b + 1) = a * b + a
  OBVIOUS
<1>3. /\ clears \in Nat /\ faults \in Nat /\ crashes \in Nat
      /\ clears' \in Nat /\ faults' \in Nat /\ crashes' \in Nat
  BY DEF TypeInv, Counters
<1>4. PICK k \in Nat : k = Cardinality(Workers) * clears
  BY <1>1, <1>2, <1>3
<1>5. PICK m \in Nat : m = Cardinality(Workers) * clears'
  BY <1>1, <1>2, <1>3
<1>6. Spent = k + faults + crashes /\ Spent' = m + faults' + crashes'
  BY <1>4, <1>5 DEF Spent
<1>7. (UNCHANGED clears => m = k) /\ (clears' = clears + 1 => m = k + Cardinality(Workers))
  BY <1>1, <1>2, <1>3, <1>4, <1>5
<1>8. PICK c \in Nat : c = Cardinality(Workers)
  BY <1>1
<1>9. Spent \in Nat /\ Spent' \in Nat
  <2>1. \A a, b, n \in Nat : n + a + b \in Nat
    OBVIOUS
  <2> QED BY <1>3, <1>6, <2>1
<1>10. UNCHANGED <<clears, faults, crashes>> => Spent' = Spent
  BY <1>6, <1>7
<1>11. UNCHANGED clears /\ (faults + crashes)' = faults + crashes + 1 => Spent' = Spent + 1
  <2> SUFFICES ASSUME UNCHANGED clears, faults' + crashes' = faults + crashes + 1
               PROVE  Spent' = Spent + 1
    OBVIOUS
  <2>1. Spent = k + faults + crashes /\ Spent' = k + faults' + crashes'
    BY <1>6, <1>7
  <2>2. PICK a, b, x, y \in Nat : a = faults /\ b = crashes /\ x = faults' /\ y = crashes'
    BY <1>3
  <2>3. x + y = a + b + 1
    BY <2>2
  <2>4. k + x + y = k + a + b + 1
    BY <2>3
  <2> QED BY <2>1, <2>2, <2>4
<1>12. clears' = clears + 1 /\ UNCHANGED <<faults, crashes>> => Spent' = Spent + Cardinality(Workers)
  <2>1. \A a, b \in Nat : (k + c) + a + b = (k + a + b) + c
    OBVIOUS
  <2> QED BY <1>3, <1>6, <1>7, <1>8, <2>1
<1> QED BY <1>9, <1>10, <1>11, <1>12

(* A PDF that is archived stays so, and others may join it. *)
LEMMA CopiesGrow ==
    ASSUME TypeInv, WasMade, WasMade', NEW s \in Datasets, NEW d \in Docs, archive \subseteq archive'
    PROVE  /\ Copies(s, d) \subseteq Copies(s, d)'
           /\ UNCHANGED archive => Copies(s, d)' = Copies(s, d)
           /\ \A r, e, n : archive' = archive \union {<<r, e, n>>} =>
                /\ Copies(s, d)' \subseteq Copies(s, d) \union {n}
                /\ r # s \/ e # d => Copies(s, d)' = Copies(s, d)
<1>1. Copies(s, d) = {n \in Nat : <<s, d, n>> \in archive}
  <2>1. \A n \in 1..made[d] : n \in Nat
    BY DEF TypeInv, VariableTypes
  <2> QED BY <2>1 DEF Copies, WasMade
<1>2. Copies(s, d)' \subseteq {n \in Nat : <<s, d, n>> \in archive'}
  <2>1. \A n \in 1..made'[d] : n \in Nat
    OBVIOUS
  <2> QED BY <2>1 DEF Copies, WasMade
<1>3. {n \in Nat : <<s, d, n>> \in archive'} \subseteq Copies(s, d)'
  BY DEF Copies, WasMade
<1> QED BY <1>1, <1>2, <1>3

(* Nobody converts, archives or remembers: at most a run breaks off that   *)
(* was about to remember its PDF.                                          *)
LEMMA QuietWithin ==
    ASSUME TypeInv, TypeInv', NEW s, NEW d \in Docs, Within(s, d), NEW w,
           Copies(s, d)' = Copies(s, d), Converting(s, d)' \subseteq Converting(s, d),
           pdfTag'[d] = pdfTag[d],
           \/ Tagging(s, d) \subseteq Tagging(s, d)' /\ Spent' = Spent
           \/ Tagging(s, d) \subseteq Tagging(s, d)' \union {w} /\ Spent' = Spent + 1
    PROVE  Within(s, d)'
<1>1. PICK c, f, g, t, u, b, n \in Nat :
        /\ c = Cardinality(Copies(s, d)) /\ n = Cardinality(Workers) /\ b = Spent
        /\ f = Cardinality(Converting(s, d)) /\ g = Cardinality(Converting(s, d)')
        /\ t = Cardinality(Tagging(s, d)) /\ u = Cardinality(Tagging(s, d)')
  <2>1. Cardinality(Converting(s, d)') \in Nat /\ Cardinality(Tagging(s, d)') \in Nat
    BY Counted, CountedNext, SpentSteps
  <2> QED BY <2>1, Counted, SpentSteps
<1>2. g <= f
  BY <1>1, Counted, Counts
<1>3. \/ t <= u /\ Spent' = b
      \/ t <= u + 1 /\ Spent' = b + 1
  <2>1. IsFiniteSet(Tagging(s, d)')
    BY Counted, CountedNext, SpentSteps
  <2> QED BY <1>1, <2>1, Counts
<1>4. c + f <= b + n /\ (pdfTag[d] = 0 => c <= b + t)
  BY <1>1 DEF Within
<1>5. c + g <= Spent' + n /\ (pdfTag'[d] = 0 => c <= Spent' + u)
  BY <1>2, <1>3, <1>4
<1> QED BY <1>1, <1>5 DEF Within

(* A worker finds nothing, and will convert. *)
LEMMA MissWithin ==
    ASSUME TypeInv, TypeInv', NEW s, NEW d \in Docs, Within(s, d), pdfTag[d] = 0, NEW w,
           Copies(s, d)' = Copies(s, d), Tagging(s, d) \subseteq Tagging(s, d)', Spent' = Spent
    PROVE  Within(s, d)'
<1>1. PICK c, g, t, u, b, n \in Nat :
        /\ c = Cardinality(Copies(s, d)) /\ n = Cardinality(Workers) /\ b = Spent
        /\ g = Cardinality(Converting(s, d)')
        /\ t = Cardinality(Tagging(s, d)) /\ u = Cardinality(Tagging(s, d)')
  <2>1. Cardinality(Converting(s, d)') \in Nat /\ Cardinality(Tagging(s, d)') \in Nat
    BY Counted, CountedNext, SpentSteps
  <2> QED BY <2>1, Counted, SpentSteps
<1>2. g + u <= n
  <2>1. Cardinality(Converting(s, d)') + Cardinality(Tagging(s, d)') <= Cardinality(Workers)
    BY Counted, CountedNext, SpentSteps
  <2> QED BY <1>1, <2>1
<1>3. t <= u
  <2>1. IsFiniteSet(Tagging(s, d)')
    BY Counted, CountedNext, SpentSteps
  <2> QED BY <1>1, <2>1, Counts
<1>4. c <= b + t
  BY <1>1 DEF Within
<1>5. c + g <= b + n /\ c <= b + u
  BY <1>2, <1>3, <1>4
<1> QED BY <1>1, <1>5 DEF Within

(* A worker archives the PDF it made. *)
LEMMA ArchiveWithin ==
    ASSUME TypeInv, TypeInv', NEW s, NEW d \in Docs, Within(s, d), NEW w, NEW x,
           Copies(s, d)' \subseteq Copies(s, d) \union {x}, Spent' = Spent, pdfTag'[d] = pdfTag[d],
           w \in Converting(s, d), Converting(s, d)' \subseteq Converting(s, d) \ {w},
           w \in Tagging(s, d)', Tagging(s, d) \subseteq Tagging(s, d)' \ {w}
    PROVE  Within(s, d)'
<1>1. PICK c, e, f, g, t, u, b, n \in Nat :
        /\ c = Cardinality(Copies(s, d)) /\ e = Cardinality(Copies(s, d)')
        /\ n = Cardinality(Workers) /\ b = Spent
        /\ f = Cardinality(Converting(s, d)) /\ g = Cardinality(Converting(s, d)')
        /\ t = Cardinality(Tagging(s, d)) /\ u = Cardinality(Tagging(s, d)')
  <2>1. /\ Cardinality(Converting(s, d)') \in Nat /\ Cardinality(Tagging(s, d)') \in Nat
        /\ Cardinality(Copies(s, d)') \in Nat
    BY Counted, CountedNext, SpentSteps
  <2> QED BY <2>1, Counted, SpentSteps
<1>2. e <= c + 1 /\ g + 1 <= f
  BY <1>1, Counted, Counts
<1>3. t + 1 <= u
  <2>1. IsFiniteSet(Tagging(s, d)')
    BY Counted, CountedNext, SpentSteps
  <2> QED BY <1>1, <2>1, Counts
<1>4. c + f <= b + n /\ (pdfTag[d] = 0 => c <= b + t)
  BY <1>1 DEF Within
<1>5. e + g <= b + n /\ (pdfTag'[d] = 0 => e <= b + u)
  BY <1>2, <1>3, <1>4
<1> QED BY <1>1, <1>5 DEF Within

(* A worker remembers its PDF: nobody that comes now converts it. *)
LEMMA TagWithin ==
    ASSUME TypeInv, TypeInv', NEW s, NEW d \in Docs, Within(s, d), pdfTag'[d] # 0,
           Copies(s, d)' = Copies(s, d), Converting(s, d)' \subseteq Converting(s, d), Spent' = Spent
    PROVE  Within(s, d)'
<1>1. PICK c, f, g, b, n \in Nat :
        /\ c = Cardinality(Copies(s, d)) /\ n = Cardinality(Workers) /\ b = Spent
        /\ f = Cardinality(Converting(s, d)) /\ g = Cardinality(Converting(s, d)')
  <2>1. Cardinality(Converting(s, d)') \in Nat
    BY CountedNext
  <2> QED BY <2>1, Counted, SpentSteps
<1>2. g <= f
  BY <1>1, Counted, Counts
<1>3. c + f <= b + n
  BY <1>1 DEF Within
<1>4. c + g <= b + n
  BY <1>2, <1>3
<1> QED BY <1>1, <1>4 DEF Within

(* The caches are cleared: the workers may all convert it again. *)
LEMMA ClearWithin ==
    ASSUME TypeInv, TypeInv', NEW s, NEW d \in Docs, Within(s, d), ClearCache
    PROVE  Within(s, d)'
<1>1. /\ UNCHANGED <<archive, made, pc, job, faults, crashes>> /\ clears' = clears + 1
  BY DEF ClearCache, worker
<1>2. /\ Copies(s, d)' = Copies(s, d) /\ Converting(s, d)' = Converting(s, d)
      /\ Tagging(s, d)' = Tagging(s, d)
  BY <1>1 DEF Copies, Converting, Tagging, At, Doc
<1>3. PICK c, f, t, b, n \in Nat :
        /\ c = Cardinality(Copies(s, d)) /\ n = Cardinality(Workers) /\ b = Spent
        /\ f = Cardinality(Converting(s, d)) /\ t = Cardinality(Tagging(s, d))
  BY Counted, CountedNext, SpentSteps
<1>4. Spent' = b + n
  BY <1>1, <1>3, SpentSteps
<1>5. c + f <= b + n
  BY <1>3 DEF Within
<1>6. c + f <= (b + n) + n /\ c <= (b + n) + t
  BY <1>5
<1> QED BY <1>2, <1>3, <1>4, <1>6 DEF Within

(* Who is where after a step of one worker. *)
LEMMA OthersAt ==
    ASSUME NEW w \in Workers, \A v \in Workers \ {w} : pc'[v] = pc[v] /\ job'[v] = job[v],
           NEW s, NEW d
    PROVE  /\ Converting(s, d) \subseteq Converting(s, d)' \union {w}
           /\ Converting(s, d)' \subseteq Converting(s, d) \union {w}
           /\ w \in Converting(s, d) <=>
                pc[w] \in {"convert", "archive"} /\ job[w].dataset = s /\ job[w].doc = d
           /\ w \in Converting(s, d)' <=>
                pc'[w] \in {"convert", "archive"} /\ job'[w].dataset = s /\ job'[w].doc = d
           /\ Tagging(s, d) \subseteq Tagging(s, d)' \union {w}
           /\ Tagging(s, d)' \subseteq Tagging(s, d) \union {w}
           /\ w \in Tagging(s, d) <=> pc[w] = "tag" /\ job[w].dataset = s /\ job[w].doc = d
           /\ w \in Tagging(s, d)' <=> pc'[w] = "tag" /\ job'[w].dataset = s /\ job'[w].doc = d
BY DEF Converting, Tagging, At, Doc

(* A step of a worker that neither finds a PDF missing nor archives one    *)
(* nor remembers it.                                                       *)
LEMMA AsideWithin ==
    ASSUME TypeInv, TypeInv', NEW s, NEW d \in Docs, Within(s, d), NEW w \in Workers,
           Copies(s, d)' = Copies(s, d), pdfTag'[d] = pdfTag[d],
           \A v \in Workers \ {w} : pc'[v] = pc[v] /\ job'[v] = job[v],
           pc'[w] \in {"convert", "archive"} /\ job'[w].dataset = s /\ job'[w].doc = d =>
                pc[w] \in {"convert", "archive"} /\ job'[w] = job[w],
           \/ /\ pc[w] = "tag" /\ job[w].dataset = s /\ job[w].doc = d =>
                    pc'[w] = "tag" /\ job'[w] = job[w]
              /\ Spent' = Spent
           \/ Spent' = Spent + 1
    PROVE  Within(s, d)'
<1>1. Converting(s, d)' \subseteq Converting(s, d)
  BY OthersAt
<1>2. Tagging(s, d) \subseteq Tagging(s, d)' \union {w}
  BY OthersAt
<1>3. (pc[w] = "tag" /\ job[w].dataset = s /\ job[w].doc = d => pc'[w] = "tag" /\ job'[w] = job[w])
        => Tagging(s, d) \subseteq Tagging(s, d)'
  BY OthersAt
<1> QED BY <1>1, <1>2, <1>3, QuietWithin

(* Each step stays within the budget. *)
LEMMA WithinStep ==
    ASSUME TypeInv, TypeInv', HashInv, WasMade, WasMade', archive \subseteq archive',
           NEW s \in Datasets, NEW d \in Docs, Kind[d] = "office", OnlyIn(s, d), OnlyIn(s, d)',
           Within(s, d), [Next]_vars
    PROVE  Within(s, d)'
<1>1. ASSUME UNCHANGED archive PROVE Copies(s, d)' = Copies(s, d)
  BY <1>1, CopiesGrow
<1>2. ASSUME NEW w \in Workers, Fetch(w) PROVE Within(s, d)'
  <2>1. PICK j \in BagToSet(todo) :
          /\ job' = [job EXCEPT ![w] = j]
          /\ Goto(w, CASE Kind[j.doc] = "office" -> "lookup"
                       [] Kind[j.doc] = "scan" -> "render"
                       [] Kind[j.doc] \in {"pdf", "image"} -> "parse"
                       [] Kind[j.doc] = "other" -> "ask")
    BY <1>2 DEF Fetch
  <2>2. Kind[j.doc] \in Kinds
    BY DEF TypeInv, VariableTypes, JobType
  <2>3. PICK step \in {"lookup", "render", "parse", "ask"} : pc' = [pc EXCEPT ![w] = step]
    BY <2>1, <2>2 DEF Goto, Kinds, Paged
  <2>4. UNCHANGED <<archive, pdfTag, faults, crashes, clears>> /\ pc[w] = "idle"
    BY <1>2 DEF Fetch, tags, losses
  <2>5. \A v \in Workers \ {w} : pc'[v] = pc[v] /\ job'[v] = job[v]
    BY <2>1, <2>3 DEF TypeInv, VariableTypes
  <2>6. pc'[w] = step
    BY <2>3 DEF TypeInv, VariableTypes
  <2> QED BY <1>1, <2>4, <2>5, <2>6, AsideWithin, SpentSteps
<1>3. ASSUME NEW w \in Workers, Lookup(w) PROVE Within(s, d)'
  <2>1. /\ UNCHANGED <<archive, pdfTag, job, faults, crashes, clears>> /\ pc[w] = "lookup"
        /\ \A v \in Workers \ {w} : pc'[v] = pc[v]
        /\ pc'[w] \in {"parse", "convert"}
        /\ pc'[w] = "convert" =>
            ~(pdfTag[Doc(w)] # 0 /\ <<job[w].dataset, Doc(w), pdfTag[Doc(w)]>> \in archive)
    <3>1. pc \in [Workers -> Steps]
      BY DEF TypeInv, VariableTypes
    <3> QED BY <1>3, <3>1 DEF Lookup, Goto, tags, losses
  <2>2. CASE pc'[w] = "convert" /\ job[w].dataset = s /\ job[w].doc = d
    <3>1. pdfTag[d] = 0
      <4> SUFFICES ASSUME pdfTag[d] # 0 PROVE FALSE
        OBVIOUS
      <4>1. PICK r \in Datasets : <<r, d, pdfTag[d]>> \in archive
        BY DEF WasMade
      <4>2. r # s
        BY <2>1, <2>2, <4>1 DEF Doc
      <4>3. pdfTag[d] \in Nat
        BY DEF TypeInv, VariableTypes
      <4>4. pdfTag[d] \in Copies(r, d)
        BY <4>1, <4>3 DEF Copies, WasMade
      <4> QED BY <4>2, <4>4 DEF OnlyIn
    <3>2. Tagging(s, d) \subseteq Tagging(s, d)'
      BY <2>1 DEF Tagging, At, Doc
    <3> QED BY <1>1, <2>1, <3>1, <3>2, MissWithin, SpentSteps
  <2>3. CASE ~(pc'[w] = "convert" /\ job[w].dataset = s /\ job[w].doc = d)
    BY <1>1, <2>1, <2>3, AsideWithin, SpentSteps
  <2> QED BY <2>2, <2>3
<1>4. ASSUME NEW w \in Workers, Convert(w) \/ Render(w) PROVE Within(s, d)'
  <2>1. /\ UNCHANGED <<archive, pdfTag, job, faults, crashes, clears>>
        /\ pc[w] \in {"convert", "render"} /\ pc'[w] = "archive"
        /\ \A v \in Workers \ {w} : pc'[v] = pc[v]
    BY <1>4 DEF Convert, Render, Produce, Goto, tags, losses, TypeInv, VariableTypes
  <2>2. pc[w] = "render" => job[w].doc # d
    BY DEF TypeInv, WorkerHasJob, Doc
  <2> QED BY <1>1, <2>1, <2>2, AsideWithin, SpentSteps
<1>5. ASSUME NEW w \in Workers, Archive(w) PROVE Within(s, d)'
  <2>1. /\ UNCHANGED <<pdfTag, job, pdf, made, faults, crashes, clears>> /\ pc[w] = "archive"
        /\ \A v \in Workers \ {w} : pc'[v] = pc[v]
        /\ pc'[w] = IF Kind[Doc(w)] = "office" THEN "tag" ELSE "parse"
        /\ archive' = archive \union {<<job[w].dataset, Doc(w), pdf[w]>>}
    BY <1>5 DEF Archive, Goto, tags, losses, TypeInv, VariableTypes
  <2>2. job[w] \in JobType /\ job[w].dataset \in Datasets /\ pdf[w] \in 1..made[Doc(w)]
    BY <2>1 DEF TypeInv, WorkerHasJob, WasMade, JobType
  <2>3. CASE Doc(w) # d
    <3>1. Copies(s, d)' = Copies(s, d)
      <4>1. archive' = archive \union {<<job[w].dataset, Doc(w), pdf[w]>>}
        BY <2>1
      <4> QED BY <2>3, <4>1, CopiesGrow
    <3> QED BY <2>1, <2>3, <3>1, AsideWithin, SpentSteps DEF Doc
  <2>4. CASE Doc(w) = d /\ job[w].dataset # s
    <3>1. PICK r \in Datasets \ {s} : r = job[w].dataset
      BY <2>2, <2>4
    <3>2. pdf[w] \in Copies(r, d)'
      BY <2>1, <2>2, <2>4, <3>1 DEF Copies
    <3> QED BY <3>2 DEF OnlyIn
  <2>5. CASE Doc(w) = d /\ job[w].dataset = s
    <3>1. Copies(s, d)' \subseteq Copies(s, d) \union {pdf[w]}
      <4>1. archive' = archive \union {<<job[w].dataset, Doc(w), pdf[w]>>}
        BY <2>1
      <4> QED BY <4>1, CopiesGrow
    <3>2. \A v \in Workers \ {w} : pc'[v] = pc[v] /\ job'[v] = job[v]
      BY <2>1
    <3>3. /\ w \in Converting(s, d) /\ w \notin Converting(s, d)'
          /\ w \notin Tagging(s, d) /\ w \in Tagging(s, d)'
      <4>1. /\ pc[w] = "archive" /\ job[w].dataset = s /\ job[w].doc = d
            /\ pc'[w] = "tag" /\ job'[w].dataset = s /\ job'[w].doc = d
        BY <2>1, <2>5 DEF Doc
      <4> QED BY <3>2, <4>1, OthersAt
    <3>4. /\ Converting(s, d)' \subseteq Converting(s, d) \ {w}
          /\ Tagging(s, d) \subseteq Tagging(s, d)' \ {w}
      BY <3>2, <3>3, OthersAt
    <3> QED BY <2>1, <3>1, <3>3, <3>4, ArchiveWithin, SpentSteps
  <2> QED BY <2>3, <2>4, <2>5
<1>6. ASSUME NEW w \in Workers, Tag(w) PROVE Within(s, d)'
  <2>1. /\ UNCHANGED <<archive, made, job, pdf, faults, crashes, clears>>
        /\ pc[w] = "tag" /\ pc'[w] = "parse"
        /\ \A v \in Workers \ {w} : pc'[v] = pc[v]
        /\ pdfTag' = [pdfTag EXCEPT ![Doc(w)] = pdf[w]]
    BY <1>6 DEF Tag, Goto, losses, TypeInv, VariableTypes
  <2>2. CASE Doc(w) = d
    <3>1. pdfTag'[d] # 0
      <4>1. pdf[w] \in 1..made[d]
        BY <2>1, <2>2 DEF WasMade
      <4>2. pdfTag'[d] = pdf[w]
        BY <2>1, <2>2 DEF TypeInv, VariableTypes
      <4> QED BY <4>1, <4>2
    <3>2. Converting(s, d)' \subseteq Converting(s, d)
      <4>1. \A v \in Workers \ {w} : pc'[v] = pc[v] /\ job'[v] = job[v]
        BY <2>1
      <4>2. w \notin Converting(s, d)'
        BY <2>1, <4>1, OthersAt
      <4> QED BY <4>1, <4>2, OthersAt
    <3> QED BY <1>1, <2>1, <3>1, <3>2, TagWithin, SpentSteps
  <2>3. CASE Doc(w) # d
    <3>1. pdfTag'[d] = pdfTag[d]
      BY <2>1, <2>3 DEF TypeInv, VariableTypes
    <3> QED BY <1>1, <2>1, <2>3, <3>1, AsideWithin, SpentSteps DEF Doc
  <2> QED BY <2>2, <2>3
<1>7. ASSUME NEW w \in Workers,
             \/ OpenPage(w) \/ SkipImage(w) \/ CachedText(w) \/ Recognize(w)
             \/ FailToRecognize(w) \/ AnswerCached(w) \/ Ask(w) \/ EmitPage(w) \/ EmitText(w)
      PROVE  Within(s, d)'
  <2>1. /\ UNCHANGED <<archive, pdfTag, job, faults, crashes, clears>>
        /\ pc[w] \in {"parse", "ask", "emit"} /\ pc'[w] \in {"parse", "emit"}
        /\ \A v \in Workers \ {w} : pc'[v] = pc[v]
    BY <1>7, ParsingLeaves
  <2> QED BY <1>1, <2>1, AsideWithin, SpentSteps
<1>8. ASSUME NEW w \in Workers, Succeed(w) \/ Reject(w) \/ AskInVain(w) \/ Raise(w) \/ Crash(w)
      PROVE  Within(s, d)'
  <2>1. /\ UNCHANGED <<archive, pdfTag, clears>> /\ pc'[w] = "idle"
        /\ \A v \in Workers \ {w} : pc'[v] = pc[v] /\ job'[v] = job[v]
    <3>1. UNCHANGED <<archive, pdfTag, clears>> /\ Discard(w)
      BY <1>8 DEF Succeed, Reject, AskInVain, Raise, Crash, tags, losses
    <3>2. pc \in [Workers -> Steps] /\ job \in [Workers -> JobType \union {NoJob}]
      BY DEF TypeInv, VariableTypes
    <3> QED BY <3>1, <3>2 DEF Discard, Goto
  <2>2. CASE Succeed(w) \/ Reject(w) \/ AskInVain(w)
    <3>1. pc[w] # "tag" /\ UNCHANGED <<faults, crashes>>
      BY <2>2 DEF Succeed, Reject, AskInVain, losses
    <3> QED BY <1>1, <2>1, <3>1, AsideWithin, SpentSteps
  <2>3. CASE Raise(w) \/ Crash(w)
    <3>1. (faults + crashes)' = faults + crashes + 1
      BY <2>3 DEF Raise, Crash, TypeInv, Counters
    <3> QED BY <1>1, <2>1, <3>1, AsideWithin, SpentSteps
  <2> QED BY <1>8, <2>2, <2>3
<1>9. CASE UNCHANGED vars
  <2>1. UNCHANGED <<archive, pdfTag, made, pc, job, faults, crashes, clears>>
    BY <1>9 DEF vars, tags, worker, losses
  <2>2. /\ Copies(s, d)' = Copies(s, d) /\ Converting(s, d)' = Converting(s, d)
        /\ Tagging(s, d)' = Tagging(s, d)
    BY <2>1 DEF Copies, Converting, Tagging, At, Doc
  <2> QED BY <2>1, <2>2 DEF Within, Spent
<1> QED BY <1>2, <1>3, <1>4, <1>5, <1>6, <1>7, <1>8, <1>9, ClearWithin DEF Next, Step

(* No conversion at first. *)
LEMMA ReuseInit == Init => ReuseInv
<1> SUFFICES ASSUME Init PROVE ReuseInv
  OBVIOUS
<1>1. WasMade
  BY DEF Init, WasMade
<1>2. ASSUME NEW s \in Datasets, NEW d \in Docs PROVE Within(s, d)
  <2>1. Copies(s, d) = {} /\ Converting(s, d) = {} /\ Tagging(s, d) = {}
    BY DEF Init, Copies, Converting, Tagging, At
  <2>2. Cardinality({}) = 0
    BY FS!FS_EmptySet, SameSets
  <2>3. Cardinality(Workers) \in Nat
    BY Counts
  <2>4. Spent = Cardinality(Workers) * 0 + 0 + 0
    BY DEF Init, Spent
  <2>5. Spent = 0
    BY <2>3, <2>4
  <2> QED BY <2>1, <2>2, <2>3, <2>5 DEF Within
<1> QED BY <1>1, <1>2 DEF ReuseInv, WithinBudget

(* Every step keeps the budget: as no PDF leaves an archive, a document    *)
(* that is in one dataset only has been so before.                         *)
LEMMA ReuseStep == TypeInv /\ TypeInv' /\ HashInv /\ ReuseInv /\ [Next]_vars => ReuseInv'
<1> SUFFICES ASSUME TypeInv, TypeInv', HashInv, ReuseInv, [Next]_vars PROVE ReuseInv'
  OBVIOUS
<1>1. WasMade /\ WasMade' /\ archive \subseteq archive'
  BY MadeStep DEF ReuseInv
<1>2. ASSUME NEW s \in Datasets, NEW d \in Docs, Kind[d] = "office", OnlyIn(s, d)'
      PROVE  Within(s, d)'
  <2>1. OnlyIn(s, d)
    BY <1>1, <1>2, CopiesGrow DEF OnlyIn
  <2> QED BY <1>1, <1>2, <2>1, WithinStep DEF ReuseInv, WithinBudget
<1> QED BY <1>1, <1>2 DEF ReuseInv, WithinBudget

(* Unless the cache was cleared, or a run broke off, each worker converts a *)
(* document of one dataset once at most, however the workers interleave:   *)
(* what one has archived the others find by its tag (convert.py:263-278).  *)
THEOREM ConversionsReused == Spec => []ConversionsAreReused
<1>1. TypeInv /\ ReuseInv => ConversionsAreReused
  <2> SUFFICES ASSUME TypeInv, ReuseInv, NEW s \in Datasets, NEW d \in Docs, Kind[d] = "office",
                      OnlyIn(s, d)
               PROVE  Cardinality(Copies(s, d)) <= Cardinality(Workers) * (clears + 1) + faults + crashes
    BY DEF ConversionsAreReused, OnlyIn, Copies
  <2>1. Cardinality(Copies(s, d)) + Cardinality(Converting(s, d)) <= Spent + Cardinality(Workers)
    BY DEF ReuseInv, WithinBudget, Within
  <2>2. \A c, f, n, x, a, b \in Nat : c + f <= (n * x + a + b) + n => c <= n * (x + 1) + a + b
    OBVIOUS
  <2>3. /\ Cardinality(Copies(s, d)) \in Nat /\ Cardinality(Converting(s, d)) \in Nat
        /\ Cardinality(Workers) \in Nat /\ clears \in Nat /\ faults \in Nat /\ crashes \in Nat
    BY Counted DEF TypeInv, Counters
  <2> QED BY <2>1, <2>2, <2>3 DEF Spent
<1> QED BY <1>1, TypeInit, TypeStep, HashInit, HashStep, ReuseInit, ReuseStep, PTL DEF Spec
=============================================================================
