-------------------------- MODULE MCIngestPipeline --------------------------
(***************************************************************************)
(* A small instance of the pipeline: an archive `zip` and a mailbox `mbox` *)
(* that hold the same file `msg`, of one page.  The mailbox may be damaged,*)
(* and passes over its member if that raises.  A second archive, `tar`,    *)
(* has a broken link beside the file.                                      *)
(***************************************************************************)
EXTENDS IngestPipeline, TLC

CONSTANTS zip, mbox, tar, msg, link, page, b1, b2

MCDocs == {zip, mbox, tar, msg, link}
MCParts == {page}
MCContents ==
    (zip :> {msg}) @@ (mbox :> {msg}) @@ (tar :> {msg, link}) @@ (msg :> {page}) @@ (link :> {})
MCIrregular == {link}
MCFragile == {mbox}
MCLenient == {mbox}
MCAnalyzable == {msg, page}
MCBatches == {b1, b2}

Request(kind, doc, batch, context) ==
    [kind |-> kind, doc |-> doc, batch |-> batch, context |-> context]

(* Two files that share a member, in two batches. *)
TwoBatches == {Request("file", zip, b1, "analyze"), Request("file", mbox, b2, "skip_analyze")}

(* One file, and a request to ingest its member again from its entity, *)
(* which the archive may still lack.                                   *)
FileAndEntity == {Request("file", tar, b1, "analyze"), Request("entity", msg, b2, "analyze")}

OneFile == {Request("file", zip, b1, "analyze")}

WorkerSymmetry == Permutations(Workers)
=============================================================================
