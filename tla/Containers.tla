----------------------------- MODULE Containers -----------------------------
(***************************************************************************)
(* How files that hold more than one thing are taken apart: archives are   *)
(* unpacked into a directory that is then crawled, mailboxes and emails    *)
(* are gone through message by message, part by part, workbooks sheet by   *)
(* sheet and databases table by table.  What is found inside is queued as  *)
(* a file of its own, with its holder as its parent; the rows of a table   *)
(* are written to a CSV file and, in chunks, to fragments of the table's   *)
(* index text.                                                             *)
(*                                                                         *)
(* Which ingestor takes a file is settled by the Auction.  The ingestors   *)
(* differ in what they do when a part of a file fails: pass over it, give  *)
(* up, or keep what they have.  An ingestor shares nothing with the jobs   *)
(* beside it, so one job runs at a time.                                   *)
(***************************************************************************)
EXTENDS Auction, FiniteSets, Bags, BagsExt

CONSTANTS
    Kind,          \* what each file is, a member of Kinds
    Declared,      \* the types that may be declared for each, sets of them
    Holds,         \* the files directly inside of each
    Within,        \* the files a message is attached inside of, outermost first
    Unreadable,    \* files that are rejected when they are opened
    Damaged,       \* files that can be opened, but are not read to their end
    Hidden,        \* attachments a broken email hides from the MIME parser
    Ignored,       \* what is left out without a job, pairs of a holder and a member
    Tables,        \* the sheets of all workbooks, the tables of all databases
    Sheets,        \* those of each file, in order
    Rows,          \* the sizes of the rows of each table, 0 for an empty row
    ReadableRows,  \* how many rows of each can be read before it breaks off
    Undecodable,   \* rows of each whose values cannot be decoded
    Unqueryable,   \* tables a query cannot be made of
    Misnamed,      \* tables whose names VALID_TABLE does not match
    FragmentRows,  \* FRAGMENT_ROWS
    FragmentChars, \* FRAGMENT_CHARS
    Loads,         \* the files there may be to ingest
    MaxFaults,     \* bound on unexpected exceptions
    NoFile, NoTable

Archives == {"zip", "tar", "rar", "7z", "gz", "pst"}
Emails == {"msg", "emlx"}
Workbooks == {"xlsx"}
Databases == {"sqlite", "access"}
OwnTables == {"csv", "dbf"}
Tabular == Workbooks \union Databases \union OwnTables

(* A file is for one of these ingestors, for another one, or a message that *)
(* an Outlook message has attached, which is not taken out as a file.      *)
Kinds == Archives \union Emails \union Tabular \union {"mbox", "olm", "opfmsg", "olemsg", "leaf", "nested"}
Jobs == {f \in Files : Kind[f] \notin {"nested", "leaf"}}

(* How a file of each kind is met: what libmagic makes of it, the           *)
(* extensions it goes by, and the tests its bytes pass.                    *)
Mark(sniffed, extensions, looks) ==
    [sniffed |-> sniffed, extensions |-> extensions, looks |-> looks]
Marks(kind) ==
    CASE kind = "zip" -> Mark({"application/zip"}, {"zip"}, {"zip"})
      [] kind = "tar" -> Mark({"application/x-tar", "application/gzip"}, {"tar", "tgz", "gz"}, {"tar"})
      [] kind = "rar" -> Mark({"application/x-rar"}, {"rar"}, {"rar"})
      [] kind = "7z" -> Mark({"application/x-7z-compressed"}, {"7z"}, {})
      [] kind = "gz" -> Mark({"application/gzip"}, {"gz", "tgz"}, {})
      [] kind = "pst" -> Mark({"application/vnd.ms-outlook"}, {"pst", "ost", "pab"}, {})
      [] kind = "mbox" -> Mark({"text/plain", "application/mbox"}, {"mbox"}, {})
      [] kind = "olm" -> Mark({"application/zip"}, {"olm"}, {"zip"})
      [] kind = "olemsg" -> Mark({"application/vnd.ms-outlook"}, {"msg"}, {"ole"})
      [] kind = "msg" -> Mark({"message/rfc822"}, {"eml", "msg"}, {})
      [] kind = "emlx" -> Mark({"text/plain", "message/rfc822"}, {"emlx"}, {})
      [] kind = "csv" -> Mark({"text/csv"}, {"csv"}, {})
      [] kind = "dbf" -> Mark({"application/x-dbf"}, {"dbf"}, {})
      [] kind = "access" -> Mark({"application/x-msaccess"}, {"mdb"}, {})
      [] kind = "sqlite" -> Mark({"application/x-sqlite3"}, {"sqlite3", "sqlite", "db"}, {"sqlite"})
      [] kind = "xlsx" -> Mark({SheetType}, {"xlsx"}, {"zip", "sheets"})

Extensions ==
    {"pdf", "rar", "zip", "tar", "7z", "gz", "tgz", "pst", "ost", "pab", "olm", "msg", "eml", "emlx",
     "csv", "mdb", "sqlite3", "sqlite", "db", "xlsx", "mbox", "dbf"}

(* It goes by an extension of its kind, or by none that an ingestor claims *)
(* for more than text; for some kinds the extension is all there is to      *)
(* tell.  A message of an OLM archive is told by its marker.               *)
Recognisable(f, declared) ==
    IF Kind[f] = "opfmsg" THEN declared \intersect RoutingTypes # {}
    ELSE /\ declared \intersect RoutingTypes = {}
         /\ Sniffed[f] \in Marks(Kind[f]).sniffed
         /\ Looks[f] = Marks(Kind[f]).looks
         /\ \/ Extension[f] \in Marks(Kind[f]).extensions
            \/ Extension[f] \notin Extensions /\ Kind[f] \notin {"mbox", "olm", "emlx"}

ASSUME ContainersAssumption ==
    /\ Kind \in [Files -> Kinds]
    /\ DOMAIN Declared = Files /\ DOMAIN Sniffed = Files
    /\ DOMAIN Extension = Files /\ DOMAIN Looks = Files
    /\ Holds \in [Files -> SUBSET Files]
    /\ Unreadable \subseteq Files /\ Damaged \subseteq Files /\ Hidden \subseteq Files
    /\ Sheets \in [Files -> Seq(Tables)]
    /\ Rows \in [Tables -> Seq(Nat)]
    /\ ReadableRows \in [Tables -> Nat] /\ \A t \in Tables : ReadableRows[t] <= Len(Rows[t])
    /\ Undecodable \in [Tables -> SUBSET Nat]
    /\ Unqueryable \subseteq Tables /\ \A t \in Unqueryable : ReadableRows[t] = 0
    /\ Misnamed \subseteq Tables
    /\ FragmentRows \in Nat \ {0} /\ FragmentChars \in Nat \ {0}
    /\ Loads \subseteq Jobs
    /\ MaxFaults \in Nat
    /\ NoFile \notin Files /\ NoTable \notin Tables

(* A file is what its bytes and its name say, or it is turned away.         *)
ASSUME SignatureAssumption ==
    \A f \in Jobs : \A declared \in Declared[f] : CalledOff(f, declared) \/ Recognisable(f, declared)

(* What a file can hold: a message that an Outlook message has attached is  *)
(* held by that message alone, and so is a message of an OLM archive by     *)
(* the archive; its attachments are in the archive, not in its XML.        *)
InParts(m, h) == Kind[m] = "nested" \/ (Kind[m] = "opfmsg" /\ Kind[h] = "olm")

ASSUME HoldingAssumption ==
    /\ Within \in [Files -> Seq(Files)]
    /\ \A h \in Files : \A m \in Holds[h] : InParts(m, h) => Within[m] = Append(Within[h], h)
    /\ \A m \in Files : Within[m] # <<>> =>
        LET h == Within[m][Len(Within[m])]
        IN  /\ m \in Holds[h] /\ InParts(m, h)
            /\ Kind[m] = "nested" => Kind[h] \in {"olemsg", "nested"} /\ Kind[Within[m][1]] = "olemsg"
    /\ \A f \in Files : Kind[f] = "nested" \/ (Kind[f] = "opfmsg" /\ Holds[f] # {}) => Within[f] # <<>>
    /\ \A h \in Files : Kind[h] = "olm" => \A m \in Holds[h] : Kind[m] = "opfmsg"
    /\ Ignored \subseteq Files \X {m \in Files : Kind[m] # "nested"}
    /\ \A f \in Files : Kind[f] \in OwnTables \union Databases => Holds[f] = {}
    /\ \A f \in Files : Kind[f] \notin Tabular => Sheets[f] = <<>>

VARIABLES
    todo,       \* procrastinate: the jobs to run, a bag of files
    queued,     \* everything that was ever queued, a bag of items
    status,     \* store: processingStatus of each file
    fragments,  \* store: the fragments of the tables
    nested,     \* store: the messages of Outlook messages
    failed,     \* procrastinate: the files whose job used up its attempts
    passes,     \* how often each file was gone through
    unpacked,   \* what was in the directory of its last pass
    logged,     \* the members and tables of which something was passed over
    unanswered, \* the workbooks Tika answered with an error
    pc, file,   \* what the worker is doing, with which file
    ingestor,   \* the ingestor that has it
    left,       \* the items it has not dealt with yet
    item,       \* the one it has stored and queues next
    again,      \* it is in the second pass over its file
    seen,       \* attachments_checksums: the parts of the email it has queued
    open,       \* the messages it is in, each inside the one before
    sheets,     \* the tables it has not dealt with yet
    table,      \* the table it is reading
    row,        \* how many rows it has read
    csv,        \* the rows it has written to the CSV file
    chunk, chars, \* fragment_buffer: the rows in it, and its size
    buffer, held, \* its writer's buffer: fragments, and messages
    faults

taken == <<file, ingestor>>
store == <<status, fragments, nested>>
history == <<failed, passes, unpacked, logged, unanswered>>
members == <<left, item, again, seen, open>>
writer == <<buffer, held>>
reading == <<table, row, csv, chunk, chars>>
job == <<pc, taken, members, sheets, reading, writer>>
vars == <<todo, queued, store, history, job, faults>>

(* An item is a file as it was found in its holder, whole or truncated. *)
Item(holder, member, whole) == [holder |-> holder, member |-> member, whole |-> whole]
Items(f) == {Item(f, m, TRUE) : m \in Holds[f]}

Is(ingestors) == ingestor \in ingestors

(* What is left out and gets no job: an entry named in SKIP_ENTRIES, or of  *)
(* an archive that has another one under its path; an attachment without a *)
(* URL in an OLM message, without data in a workbook, without a kind in an *)
(* Outlook message; a part of an email that has no name and is empty or    *)
(* hidden.                                                                 *)
Kept(found) == {i \in found : <<i.holder, i.member>> \notin Ignored}

-----------------------------------------------------------------------------
(* Jobs *)

Fault == faults < MaxFaults /\ faults' = faults + 1

First(i) ==
    CASE i \in Archives -> "unpack"
      [] i \in Tabular -> "sheets"
      [] OTHER -> "members"

(* The parts of a message: of an email, those its MIME tree leads to. *)
Found(i, f) ==
    CASE i \in Emails -> {x \in Kept(Items(f)) : x.member \notin Hidden}
      [] i = "olemsg" -> Kept(Items(f))
      [] i \in {"mbox", "olm"} -> Items(f)
      [] OTHER -> {}

(* A tar is read to its end for the names in it, the XML of a message for   *)
(* its headers.                                                            *)
Rejected(i, f) == f \in Unreadable \/ (i \in {"tar", "opfmsg"} /\ f \in Damaged)

Start ==
    /\ pc = "idle"
    /\ \E f \in BagToSet(todo) : \E declared \in Declared[f] :
        /\ todo' = BagRemove(todo, f)
        /\ file' = f
        /\ ingestor' = IF CalledOff(f, declared) THEN "none" ELSE Winner(f, declared)
        /\ pc' = IF ingestor' = "none" \/ Rejected(ingestor', f) THEN "reject"
                 ELSE First(ingestor')
        /\ left' = Found(ingestor', f)
        /\ sheets' = Sheets[f]
        /\ failed' = failed \ {f}
        /\ passes' = [passes EXCEPT ![f] = @ + 1]
        /\ unpacked' = [unpacked EXCEPT ![f] = {}]
    /\ UNCHANGED <<queued, store, logged, unanswered, item, again, seen, open, reading, writer,
                   faults>>

SameFragment(x, y) == x.table = y.table /\ x.kind = y.kind /\ x.key = y.key

(* Manager.finalize, and the manager goes with the job. *)
Finalize(st) ==
    /\ status' = [status EXCEPT ![file] = st]
    /\ fragments' = {x \in fragments : \A y \in buffer : ~SameFragment(x, y)} \union buffer
    /\ nested' = nested \union held
    /\ pc' = "idle" /\ file' = NoFile /\ ingestor' = "none"
    /\ left' = {} /\ item' = NoFile /\ again' = FALSE /\ seen' = {} /\ open' = <<>>
    /\ sheets' = <<>> /\ table' = NoTable /\ row' = 0 /\ csv' = <<>>
    /\ chunk' = <<>> /\ chars' = 0 /\ buffer' = {} /\ held' = {}
    /\ UNCHANGED <<queued, passes, unpacked, logged, unanswered>>

Ends(st) == Finalize(st) /\ UNCHANGED <<todo, failed, faults>>

(* An archive that cannot be opened, a 7z that is not unpacked to its end, *)
(* an email that cannot be parsed, a workbook with a password, a CSV file   *)
(* without a dialect: nothing of it is crawled or queued.                  *)
Reject == pc = "reject" /\ Ends("failure")

(* An exception that is not the file's: the job is run again, until it has  *)
(* used up its attempts, however many a deployment allows.                 *)
RunsAgain == Finalize("failure") /\ todo' = BagAdd(todo, file) /\ UNCHANGED failed
GivesUp == Finalize("failure") /\ failed' = failed \union {file} /\ UNCHANGED todo
Raises == RunsAgain \/ GivesUp

-----------------------------------------------------------------------------
(* Archives: unpack into a directory, then crawl it *)

Crawl(found) ==
    /\ left' = Kept(found)
    /\ unpacked' = [unpacked EXCEPT ![file] = found]
    /\ pc' = "members"
    /\ UNCHANGED <<todo, queued, store, failed, passes, unanswered, taken, item, seen, open, sheets,
                   reading, writer>>

UnpackAll ==
    /\ pc = "unpack" /\ Is({"7z"})
    /\ Crawl(Items(file))
    /\ UNCHANGED <<logged, again, faults>>

(* A compressed file: if it ends early, that is an EOFError and not the     *)
(* file's; the job is run again until it gives up.                         *)
Decompress ==
    /\ pc = "unpack" /\ Is({"gz"})
    /\ \/ file \notin Damaged /\ Crawl(Items(file)) /\ UNCHANGED <<logged, again, faults>>
       \/ file \in Damaged /\ Fault /\ RunsAgain
       \/ file \in Damaged /\ GivesUp /\ UNCHANGED faults

(* Mutant: a member that fails ends the loop over the members. *)
UnpackMembers_Broken ==
    /\ \E before \in SUBSET Items(file) :
        /\ \A i \in before : i.member \notin Damaged
        /\ before = Items(file) \/ \E i \in Items(file) \ before : i.member \in Damaged
        /\ Crawl(before)
    /\ UNCHANGED <<logged, again, faults>>

(* Each member is extracted on its own.  A copy that breaks off leaves what *)
(* it has copied, and that is crawled too.                                 *)
UnpackMembers ==
    /\ \E failing \in SUBSET Items(file) :
        LET damaged == {i \in Items(file) : i.member \in Damaged}
        IN  /\ damaged \subseteq failing
            /\ \/ failing = damaged /\ UNCHANGED faults
               \/ Cardinality(failing \ damaged) = 1 /\ Fault
            /\ logged' = logged \union {<<i.holder, i.member>> : i \in failing}
            /\ \E rest \in [failing -> {TRUE, FALSE}] :
                Crawl((Items(file) \ failing)
                        \union {[i EXCEPT !.whole = FALSE] : i \in {j \in failing : rest[j]}})
    /\ UNCHANGED again

UnpackZip == pc = "unpack" /\ Is({"zip"}) /\ UnpackMembers
UnpackTar == pc = "unpack" /\ Is({"tar"}) /\ UnpackMembers
UnpackRar == pc = "unpack" /\ Is({"rar"}) /\ UnpackMembers

(* readpst, on a sound file. *)
ReadPst ==
    /\ pc = "unpack" /\ Is({"pst"}) /\ file \notin Damaged
    /\ Crawl(Items(file))
    /\ UNCHANGED <<logged, again, faults>>

(* Mutant: what a failed readpst has extracted is not crawled. *)
ReadPstFails_Dropped ==
    /\ pc = "unpack" /\ Is({"pst"}) /\ file \in Damaged
    /\ \E extracted \in SUBSET Items(file) :
        unpacked' = [unpacked EXCEPT ![file] = extracted]
    /\ left' = {} /\ again' = TRUE /\ pc' = "members"
    /\ UNCHANGED <<todo, queued, store, failed, passes, logged, unanswered, taken, item, seen,
                   open, sheets, reading, writer, faults>>

(* readpst fails, or times out: what it has extracted is crawled, and then *)
(* the exception is raised again.                                          *)
ReadPstFails ==
    /\ pc = "unpack" /\ Is({"pst"}) /\ file \in Damaged
    /\ \E extracted \in SUBSET Items(file) : Crawl(extracted)
    /\ again' = TRUE
    /\ UNCHANGED <<logged, faults>>

(* The crawl of a PST raises: it is made once more, from the beginning. *)
CrawlAgain ==
    /\ Fault
    /\ pc \in {"members", "queue"} /\ Is({"pst"}) /\ ~again
    /\ again' = TRUE
    /\ left' = Kept(unpacked[file]) /\ item' = NoFile
    /\ passes' = [passes EXCEPT ![file] = @ + 1]
    /\ pc' = "members"
    /\ UNCHANGED <<todo, queued, store, failed, unpacked, logged, unanswered, taken, seen, open,
                   sheets, reading, writer>>

-----------------------------------------------------------------------------
(* Members: store the bytes, queue a job *)

(* The parts of a message come before what follows the message: those of an *)
(* OLM message right after it, those of a nested one while it is open.     *)
Due(i) ==
    IF open # <<>> THEN i.holder = open[Len(open)]
    ELSE (\E j \in left : j.holder # file) => i.holder # file

(* An mbox message that cannot be written out is passed over. *)
Unwritable(i) == Is({"mbox"}) /\ i.member \in Damaged

StoreMember ==
    /\ pc = "members"
    /\ \E i \in left :
        /\ Due(i) /\ ~Unwritable(i) /\ Kind[i.member] # "nested"
        /\ left' = left \ {i}
        /\ item' = i
        /\ seen' = IF Is(Emails) THEN seen \union {i.member} ELSE seen
    /\ pc' = "queue"
    /\ UNCHANGED <<todo, queued, store, history, taken, again, open, sheets, reading, writer, faults>>

(* extract_message: the XML of a sound message names its attachments. *)
Attachments(i) ==
    IF Is({"olm"}) /\ i.holder = file /\ i.member \notin Damaged THEN Kept(Items(i.member)) ELSE {}

QueueMember ==
    /\ pc = "queue"
    /\ queued' = BagAdd(queued, item)
    /\ todo' = IF item.whole /\ item.member \in Jobs THEN BagAdd(todo, item.member) ELSE todo
    /\ left' = left \union Attachments(item)
    /\ item' = NoFile
    /\ pc' = "members"
    /\ UNCHANGED <<store, history, taken, again, seen, open, sheets, reading, writer, faults>>

(* ingest_message: an attached message is gone through in place. *)
OpenMessage ==
    /\ pc = "members" /\ Is({"olemsg"})
    /\ \E i \in left :
        /\ Due(i) /\ Kind[i.member] = "nested"
        /\ left' = (left \ {i}) \union Kept(Items(i.member))
        /\ open' = Append(open, i.member)
    /\ UNCHANGED <<todo, queued, store, history, pc, taken, item, again, seen, sheets, reading,
                   writer, faults>>

EndOfMessage == pc = "members" /\ open # <<>> /\ \A i \in left : ~Due(i)

(* Mutant: only the message that the file is gets emitted. *)
CloseMessage_Silent ==
    /\ EndOfMessage
    /\ open' = SubSeq(open, 1, Len(open) - 1)
    /\ UNCHANGED <<todo, queued, store, history, pc, taken, left, item, again, seen, sheets,
                   reading, writer, faults>>

(* It is emitted when it is through, under a fragment of its own. *)
CloseMessage ==
    /\ EndOfMessage
    /\ open' = SubSeq(open, 1, Len(open) - 1)
    /\ held' = held \union {open[Len(open)]}
    /\ UNCHANGED <<todo, queued, store, history, pc, taken, left, item, again, seen, sheets,
                   reading, buffer, faults>>

(* mbox and OLM log any exception and go on with the next message. *)
PassOver(i) ==
    /\ logged' = logged \union {<<i.holder, i.member>>}
    /\ left' = {j \in left \ {i} : j.holder = file}
    /\ item' = NoFile
    /\ pc' = "members"
    /\ UNCHANGED <<todo, queued, store, failed, passes, unpacked, unanswered, taken, again, seen,
                   open, sheets, reading, writer>>

PassOverMember ==
    \/ /\ pc = "members" /\ Is({"mbox", "olm"})
       /\ \E i \in left :
            /\ Due(i)
            /\ \/ Unwritable(i) /\ UNCHANGED faults
               \/ ~Unwritable(i) /\ Fault
            /\ PassOver(i)
    \/ /\ pc = "queue" /\ Is({"mbox", "olm"})
       /\ Fault
       /\ PassOver(item)

(* Mutant: the sweep goes through nested emails, too. *)
Sweepable_Unbounded(f) ==
    Items(f) \union {Item(f, m, TRUE) : m \in UNION {Holds[n] : n \in Holds[f]}}

(* ripmime, of the message and its direct parts. *)
Sweepable(f) == Items(f)

(* Mutant: the sweep queues what the walk has queued. *)
Sweep_Unchecked ==
    /\ pc = "members" /\ left = {} /\ Is({"msg"}) /\ ~again /\ file \notin Damaged
    /\ again' = TRUE
    /\ left' = Kept(Sweepable(file))
    /\ UNCHANGED <<todo, queued, store, history, pc, taken, item, seen, open, sheets, reading,
                   writer, faults>>

(* RFC822Ingestor.ingest: after the walk, ripmime, which is taken to write  *)
(* the same bytes for a part as the walk has decoded.                      *)
Sweep ==
    /\ pc = "members" /\ left = {} /\ Is({"msg"}) /\ ~again /\ file \notin Damaged
    /\ again' = TRUE
    /\ left' = {i \in Kept(Sweepable(file)) : i.member \notin seen}
    /\ UNCHANGED <<todo, queued, store, history, pc, taken, item, seen, open, sheets, reading,
                   writer, faults>>

(* ripmime fails, or anything after it: that is the result of the email. *)
RejectEmail ==
    /\ Is({"msg"})
    /\ \/ pc = "members" /\ left = {} /\ ~again /\ file \in Damaged /\ UNCHANGED faults
       \/ pc \in {"members", "queue"} /\ again /\ Fault
    /\ Finalize("failure")
    /\ UNCHANGED <<todo, failed>>

-----------------------------------------------------------------------------
(* Tables *)

Put(kind, t, key, rows) == [kind |-> kind, table |-> t, key |-> key, rows |-> rows]

(* Mutant: the table is first emitted when it is complete. *)
Open_Late ==
    /\ pc = "sheets" /\ sheets # <<>>
    /\ table' = Head(sheets)
    /\ sheets' = Tail(sheets)
    /\ row' = 0 /\ csv' = <<>> /\ chunk' = <<>> /\ chars' = 0
    /\ pc' = "rows"
    /\ UNCHANGED <<todo, queued, store, history, taken, members, writer, faults>>

(* The table, with its parent, ahead of its rows. *)
Open ==
    /\ pc = "sheets" /\ sheets # <<>>
    /\ table' = Head(sheets)
    /\ sheets' = Tail(sheets)
    /\ buffer' = buffer \union {Put("initial", Head(sheets), 0, <<>>)}
    /\ row' = 0 /\ csv' = <<>> /\ chunk' = <<>> /\ chars' = 0
    /\ pc' = "rows"
    /\ UNCHANGED <<todo, queued, store, history, taken, members, held, faults>>

OpenSheet == Is(Workbooks) /\ Open

(* get_tables of SQLite: a table with another name is left out.            *)
Valid(t) == Is({"sqlite"}) => t \notin Misnamed
OpenTable == Is(Databases) /\ Open /\ Valid(Head(sheets))
LeaveOut ==
    /\ pc = "sheets" /\ sheets # <<>> /\ Is(Databases) /\ ~Valid(Head(sheets))
    /\ sheets' = Tail(sheets)
    /\ UNCHANGED <<todo, queued, store, history, pc, taken, members, reading, writer, faults>>

(* The file is the table: its entity is emitted by Finalize, in any case.   *)
(* Nothing is read from the buffer before that, so it may be there already.*)
OpenOwn == Is(OwnTables) /\ Open

(* The next row that its reader yields. *)
AtRow == pc = "rows" /\ row < ReadableRows[table]
Decodable(t, n) == Rows[t][n] > 0 /\ n \notin Undecodable[t]

(* An empty row is skipped. *)
SkipRow ==
    /\ AtRow /\ Rows[table][row + 1] = 0
    /\ row' = row + 1
    /\ UNCHANGED <<todo, queued, store, history, pc, taken, members, sheets, table, csv, chunk,
                   chars, writer, faults>>

(* A row of a DBF that cannot be decoded is passed over. *)
PassOverRow ==
    /\ AtRow /\ row + 1 \in Undecodable[table] /\ Is({"dbf"})
    /\ row' = row + 1
    /\ logged' = logged \union {<<file, table>>}
    /\ UNCHANGED <<todo, queued, store, failed, passes, unpacked, unanswered, pc, taken, members,
                   sheets, table, csv, chunk, chars, writer, faults>>

(* flush_fragment, keyed by the rows so far. *)
FlushChunk(rows, count) == buffer' = buffer \union {Put("text", table, count, rows)}

(* Mutant: the buffer is not truncated at the bound on its size. *)
ReadRow_Untruncated ==
    /\ AtRow /\ Decodable(table, row + 1)
    /\ row' = row + 1
    /\ csv' = Append(csv, row')
    /\ LET rows == Append(chunk, row')
           size == chars + Rows[table][row']
       IN  IF Len(rows) >= FragmentRows \/ size >= FragmentChars
           THEN /\ FlushChunk(rows, Len(csv'))
                /\ chunk' = IF Len(rows) >= FragmentRows THEN <<>> ELSE rows
                /\ chars' = 0
           ELSE chunk' = rows /\ chars' = size /\ UNCHANGED buffer
    /\ UNCHANGED <<todo, queued, store, history, pc, taken, members, sheets, table, held, faults>>

(* Mutant: a chunk is flushed when it is over its bound. *)
ReadRow_Over ==
    /\ AtRow /\ Decodable(table, row + 1)
    /\ row' = row + 1
    /\ csv' = Append(csv, row')
    /\ LET rows == Append(chunk, row')
           size == chars + Rows[table][row']
       IN  IF Len(rows) > FragmentRows \/ size >= FragmentChars
           THEN FlushChunk(rows, Len(csv')) /\ chunk' = <<>> /\ chars' = 0
           ELSE chunk' = rows /\ chars' = size /\ UNCHANGED buffer
    /\ UNCHANGED <<todo, queued, store, history, pc, taken, members, sheets, table, held, faults>>

(* _emit_value_rows: a row goes to the file and to the buffer, which is    *)
(* flushed at a number of rows or of characters.                           *)
ReadRow ==
    /\ AtRow /\ Decodable(table, row + 1)
    /\ row' = row + 1
    /\ csv' = Append(csv, row')
    /\ LET rows == Append(chunk, row')
           size == chars + Rows[table][row']
       IN  IF Len(rows) >= FragmentRows \/ size >= FragmentChars
           THEN FlushChunk(rows, Len(csv')) /\ chunk' = <<>> /\ chars' = 0
           ELSE chunk' = rows /\ chars' = size /\ UNCHANGED buffer
    /\ UNCHANGED <<todo, queued, store, history, pc, taken, members, sheets, table, held, faults>>

BreaksOff == pc = "rows" /\ row = ReadableRows[table] /\ row < Len(Rows[table])

(* A sheet breaks off, or a DBF: what was read of the file so far is kept. *)
RejectSheet == BreaksOff /\ Is(Workbooks) /\ Ends("failure")
RejectDbf == BreaksOff /\ Is({"dbf"}) /\ Ends("failure")

(* A table that a query cannot be made of ends the database with it. *)
RejectTable == pc = "rows" /\ Is({"sqlite"}) /\ table \in Unqueryable /\ Ends("failure")

(* The last rows are flushed, if there are any, and the CSV file is stored. *)
Close ==
    /\ IF chunk # <<>> THEN FlushChunk(chunk, Len(csv)) ELSE UNCHANGED buffer
    /\ chunk' = <<>> /\ chars' = 0
    /\ pc' = "emit"
    /\ UNCHANGED <<todo, queued, store, failed, passes, unpacked, unanswered, taken, members,
                   sheets, table, row, csv, held, faults>>

CloseSheet == pc = "rows" /\ row = Len(Rows[table]) /\ Close /\ UNCHANGED logged

(* Mutant: a table that breaks off is taken for a complete one. *)
CutShort_Silent == BreaksOff /\ Is({"sqlite"}) /\ table \notin Unqueryable /\ Close /\ UNCHANGED logged

(* generate_rows of SQLite: the error is logged, and the cursor has no more *)
(* rows after it, or it is at the same row again, maybe without end.       *)
CursorRaises ==
    /\ BreaksOff /\ Is({"sqlite"}) /\ table \notin Unqueryable
    /\ logged' = logged \union {<<file, table>>}
    /\ UNCHANGED <<todo, queued, store, failed, passes, unpacked, unanswered, pc, taken, members,
                   sheets, reading, writer, faults>>
CutShort ==
    /\ BreaksOff /\ Is({"sqlite"}) /\ table \notin Unqueryable
    /\ Close
    /\ logged' = logged \union {<<file, table>>}

(* generate_rows of Access: how mdb-export ended is not looked at. *)
ExportEnds == BreaksOff /\ Is({"access"}) /\ Close /\ UNCHANGED logged

(* The table again, with its file and the number of its rows. *)
EmitTable ==
    /\ pc = "emit"
    /\ buffer' = buffer \union {Put("table", table, 0, csv)}
    /\ pc' = "sheets"
    /\ UNCHANGED <<todo, queued, store, history, taken, members, sheets, reading, held, faults>>

(* ingest_embedded, after the last sheet: a file without data is logged; an *)
(* answer of Tika that is an error holds no files, and is not looked at.   *)
FindEmbedded ==
    /\ pc = "sheets" /\ sheets = <<>> /\ Is(Workbooks)
    /\ \/ /\ left' = Kept(Items(file))
          /\ logged' = logged \union (({file} \X Holds[file]) \intersect Ignored)
          /\ UNCHANGED <<unanswered, faults>>
       \/ /\ Fault
          /\ left' = {}
          /\ unanswered' = unanswered \union {file}
          /\ UNCHANGED logged
    /\ pc' = "members"
    /\ UNCHANGED <<todo, queued, store, failed, passes, unpacked, taken, item, again, seen, open,
                   sheets, reading, writer>>

-----------------------------------------------------------------------------
(* How a pass over a file ends *)

Succeed ==
    /\ \/ pc = "members" /\ left = {} /\ open = <<>>
       \/ pc = "sheets" /\ sheets = <<>> /\ ~Is(Workbooks)
    /\ Is({"msg"}) => again
    /\ Is({"pst"}) => ~again
    /\ Ends("success")

(* The exception of readpst is raised again, after the crawl. *)
RejectPst ==
    /\ pc = "members" /\ left = {} /\ Is({"pst"}) /\ again
    /\ file \in Damaged
    /\ Ends("failure")

RaiseAfterCrawl ==
    /\ pc = "members" /\ left = {} /\ Is({"pst"}) /\ again
    /\ file \notin Damaged
    /\ Raises
    /\ UNCHANGED faults

(* Any other exception, where nothing catches it: a mailbox is iterated     *)
(* outside of the try for its messages, and an OLM archive is opened so.   *)
Raise ==
    /\ Fault
    /\ pc # "idle"
    /\ \/ Is(Tabular \union {"zip", "tar", "rar", "7z", "gz", "emlx", "olemsg"})
       \/ Is({"mbox"}) /\ pc = "members"
       \/ Is({"olm"}) /\ pc = "members" /\ left = Items(file)
       \/ Is({"pst"}) /\ again
       \/ Is({"msg"}) /\ ~again
    /\ Raises

Init ==
    /\ todo \in {SetToBag({f}) : f \in Loads}
    /\ queued = EmptyBag
    /\ status = [f \in Files |-> "absent"]
    /\ fragments = {} /\ nested = {}
    /\ failed = {} /\ unanswered = {}
    /\ passes = [f \in Files |-> 0]
    /\ unpacked = [f \in Files |-> {}]
    /\ logged = {}
    /\ pc = "idle" /\ file = NoFile /\ ingestor = "none"
    /\ left = {} /\ item = NoFile /\ again = FALSE /\ seen = {} /\ open = <<>>
    /\ sheets = <<>> /\ table = NoTable /\ row = 0 /\ csv = <<>>
    /\ chunk = <<>> /\ chars = 0 /\ buffer = {} /\ held = {}
    /\ faults = 0

Next ==
    \/ Start \/ Reject
    \/ UnpackAll \/ Decompress \/ UnpackZip \/ UnpackTar \/ UnpackRar
    \/ ReadPst \/ ReadPstFails \/ CrawlAgain
    \/ StoreMember \/ QueueMember \/ OpenMessage \/ CloseMessage \/ PassOverMember
    \/ Sweep \/ RejectEmail
    \/ OpenSheet \/ OpenTable \/ LeaveOut \/ OpenOwn \/ SkipRow \/ PassOverRow \/ ReadRow
    \/ RejectSheet \/ RejectDbf \/ RejectTable
    \/ CloseSheet \/ CursorRaises \/ CutShort \/ ExportEnds \/ EmitTable \/ FindEmbedded
    \/ Succeed \/ RejectPst \/ RaiseAfterCrawl \/ Raise
    \/ pc = "idle" /\ BagToSet(todo) = {} /\ UNCHANGED vars

Spec == Init /\ [][Next]_vars

-----------------------------------------------------------------------------
(* Properties *)

ItemType == [holder: Files, member: Files, whole: BOOLEAN]
IsFragment(x) ==
    /\ x.kind \in {"initial", "text", "table"} /\ x.table \in Tables
    /\ x.key \in Nat /\ x.rows \in Seq(Nat)

(* Every variable has its type; no fragment holds more rows than it may. *)
TypeOK ==
    /\ IsABag(todo) /\ BagToSet(todo) \subseteq Jobs
    /\ IsABag(queued) /\ BagToSet(queued) \subseteq ItemType
    /\ status \in [Files -> {"absent", "success", "failure"}]
    /\ \A x \in fragments \union buffer :
        IsFragment(x) /\ (x.kind = "text" => Len(x.rows) \in 1..FragmentRows)
    /\ nested \union held \subseteq Files /\ open \in Seq(Files)
    /\ failed \union unanswered \subseteq Jobs
    /\ passes \in [Files -> Nat]
    /\ unpacked \in [Files -> SUBSET ItemType]
    /\ logged \subseteq Files \X (Files \union Tables)
    /\ pc \in {"idle", "reject", "unpack", "members", "queue", "sheets", "rows", "emit"}
    /\ file \in Jobs \union {NoFile} /\ ingestor \in Ingestors \union {"none"}
    /\ left \subseteq ItemType
    /\ item \in ItemType \/ item = NoFile
    /\ again \in BOOLEAN /\ seen \subseteq Files
    /\ sheets \in Seq(Tables) /\ table \in Tables \union {NoTable}
    /\ row \in Nat /\ csv \in Seq(Nat) /\ chunk \in Seq(Nat)
    /\ chars \in 0..(FragmentChars - 1)
    /\ faults \in 0..MaxFaults

Ended(f) == status[f] # "absent" /\ file # f /\ ~BagIn(f, todo)

(* The ingestor is the one for what the file is, whatever type was declared *)
(* by what it was found in: a mail header does not turn a PST file into a   *)
(* message, and a message of an OLM archive is not just XML                *)
(* (manager.py:196-201).                                                   *)
RoutedByContent ==
    file # NoFile => ingestor = Kind[file] \/ (ingestor = "none" /\ pc = "reject")

(* Whose pass a holder is gone through in: that of the OLM archive or the   *)
(* Outlook message which it is a message of, at whatever depth.            *)
Taker(f) == IF Within[f] = <<>> THEN f ELSE Within[f][1]

(* A file is queued by what holds it directly, and once each time that is  *)
(* gone through: no level of attached emails queues what is below it, and  *)
(* the sweep leaves out what the walk has queued (msg.py:166-206).         *)
QueuedByHolder ==
    \A i \in BagToSet(queued) :
        i.member \in Holds[i.holder] /\ queued[i] <= passes[Taker(i.holder)]

(* What a pass over a file goes through. *)
GoneThrough(f) == {h \in Files : Taker(h) = f /\ (h = f \/ h \notin Damaged)}

(* A file that is a success has had everything sound in it queued that no   *)
(* ingestor leaves out, except for what an exception was logged for, or for *)
(* the message that holds it, and for the files in a workbook that Tika     *)
(* answered with an error.  Only an emlx file is not swept for what its     *)
(* MIME tree hides (zip.py:22-39, msg.py:166-211, olm.py:99-109).          *)
SuccessIsComplete ==
    \A f \in Jobs : status[f] = "success" => \A h \in GoneThrough(f) :
        \A m \in Holds[h] \ (Damaged \union (IF Kind[f] = "emlx" THEN Hidden ELSE {})) :
            \/ <<h, m>> \in Ignored \/ f \in unanswered
            \/ IF Kind[m] = "nested" THEN m \in nested ELSE BagIn(Item(h, m, TRUE), queued)
            \/ <<h, m>> \in logged
            \/ \E x \in logged : x[2] = h
            \/ h # f /\ \E x \in logged : x[1] = h

(* Once an archive has ended, all that was unpacked of it has been queued,  *)
(* but for the entries that are left out: also if it was extracted in part, *)
(* or the crawl had to be made again.  Only a job that has used up its      *)
(* attempts may end before (outlookpst.py:30-39, directory.py:43-46).      *)
UnpackedIsQueued ==
    \A f \in Jobs : Ended(f) => f \in failed \/ \A i \in Kept(unpacked[f]) : BagIn(i, queued)

(* Once an Outlook message has ended in success, each message inside it of  *)
(* which something was queued has been emitted, in that pass or in one that *)
(* raised: no file is left with a parent that is not there                 *)
(* (outlookmsg.py:107-115).                                                *)
HoldersAreEmitted ==
    \A i \in BagToSet(queued) :
        Kind[i.holder] = "nested" /\ status[Taker(i.holder)] = "success" => i.holder \in nested

TextOf(t) == {x \in fragments : x.kind = "text" /\ x.table = t}
Readable(t) == {n \in 1..ReadableRows[t] : Decodable(t, n)}
Covers(x, n) == n \in (x.key - Len(x.rows) + 1)..x.key

(* A table that names its file has each of its rows in the file and in one  *)
(* fragment of its text, in order, under whatever bound each fragment was   *)
(* flushed, and although earlier passes broke off in it (table.py:51-90).   *)
TablesAreWhole ==
    \A x \in fragments : x.kind = "table" =>
        /\ {x.rows[n] : n \in DOMAIN x.rows} = Readable(x.table)
        /\ \A n \in DOMAIN x.rows :
            /\ Cardinality({y \in TextOf(x.table) : Covers(y, n)}) = 1
            /\ \A y \in TextOf(x.table) :
                Covers(y, n) => y.rows[n - (y.key - Len(y.rows))] = x.rows[n]

(* A success has every table, each with all its rows unless a warning says  *)
(* that some were left out.  Two exceptions: a table of SQLite under a name *)
(* that VALID_TABLE does not match is left out (sqlite.py:28-30), and an    *)
(* export of Access that fails looks like the end of the table              *)
(* (access.py:54-72).                                                      *)
SuccessHasTables ==
    \A f \in Jobs : status[f] = "success" /\ Kind[f] # "access" =>
        \A n \in DOMAIN Sheets[f] :
            \/ Kind[f] = "sqlite" /\ Sheets[f][n] \in Misnamed
            \/ \E x \in fragments :
                /\ x.kind = "table" /\ x.table = Sheets[f][n]
                /\ \/ <<f, x.table>> \in logged
                   \/ {x.rows[k] : k \in DOMAIN x.rows} =
                        {k \in DOMAIN Rows[x.table] : Rows[x.table][k] > 0}

(* No text is left without a table that has a parent and a name, wherever  *)
(* a workbook or a database breaks off (table.py:153-157).                 *)
NoOrphans ==
    \A x \in fragments : \E y \in fragments : y.kind = "initial" /\ y.table = x.table

=============================================================================
