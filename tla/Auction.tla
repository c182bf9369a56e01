------------------------------ MODULE Auction ------------------------------
(***************************************************************************)
(* Which ingestor gets a file.  Each class bids a score for it, by the     *)
(* types and the name of its entity and in part by looks at the file, and  *)
(* the first of the highest bids wins; where none is positive, Tika gets   *)
(* the file.  A type may have been declared by whoever queued the entity,  *)
(* a mail header or a crawler: the bytes overrule it, but for the marker   *)
(* that the messages of an OLM archive carry.                              *)
(*                                                                         *)
(* Of the 38 classes, those that compete for the files of Containers.      *)
(***************************************************************************)
EXTENDS Integers, Sequences

CONSTANTS
    Files,
    Sniffed,   \* what libmagic makes of the bytes of each file
    Extension, \* the extension of its name, or "none"
    Looks      \* the formats whose own test its bytes pass

RoutingTypes == {"application/xml+opfmessage"}
SheetType == "application/vnd.openxmlformats-officedocument.spreadsheetml.sheet"

(* Mutant: a declared type is believed. *)
Types_Declared(f, declared) == IF declared # {} THEN declared ELSE {Sniffed[f]}

(* Manager.auction: the types the bidders get to see. *)
Types(f, declared) == IF declared \intersect RoutingTypes # {} THEN declared ELSE {Sniffed[f]}

(* Ingestor.match: by type, or by name. *)
Match(f, types, mine, extensions, score) ==
    IF types \intersect mine # {} \/ Extension[f] \in extensions THEN score ELSE -1

(* A test of the bytes that is enough by itself. *)
ZipBid(f, types) ==
    IF "zip" \in Looks[f] THEN 3 ELSE Match(f, types, {"application/zip"}, {"zip"}, 3)
TarBid(f, types) ==
    IF "tar" \in Looks[f] THEN 4 ELSE Match(f, types, {"application/x-tar"}, {"tar"}, 4)
RarBid(f, types) ==
    IF "rar" \in Looks[f] THEN 4 ELSE Match(f, types, {}, {"rar"}, 4)

(* A compressed tar is left to the tar ingestor. *)
SingleFileBid(f, types, mine, extensions) ==
    IF "tar" \in Looks[f] THEN -1 ELSE Match(f, types, mine, extensions, 2)

(* A test of the bytes that is made of a bidder. *)
Checked(f, look, bid) == IF bid > 0 /\ look \notin Looks[f] THEN -1 ELSE bid

SqliteBid(f, types) ==
    Checked(f, "sqlite", Match(f, types, {"application/x-sqlite3"}, {"sqlite3", "sqlite", "db"}, 8))

(* Mutant: an Outlook message is known by its type. *)
OutlookMsgBid_Unchecked(f, types) == Match(f, types, {"application/vnd.ms-outlook"}, {"msg"}, 10)

OutlookMsgBid(f, types) ==
    Checked(f, "ole", Match(f, types, {"application/vnd.ms-outlook"}, {"msg"}, 10))
XlsxBid(f, types) ==
    Checked(f, "sheets", Match(f, types, {SheetType}, {"xlsx"}, 7))

(* An encrypted file ends the auction; so does one that goes by the name of *)
(* a spreadsheet and is no zip file.                                       *)
CalledOff(f, declared) ==
    LET types == Types(f, declared)
    IN  \/ "application/encrypted" \in types
        \/ /\ Match(f, types, {SheetType},
                    {"xlsx"}, 7) > 0
           /\ "zip" \notin Looks[f]

(* Both would look at the first bytes of a file by another name, but they   *)
(* compare bytes with a string: that never matches.                        *)
MboxBid(f, types) == Match(f, types, {"application/mbox"}, {"mbox"}, 10)
PdfBid(f, types) == Match(f, types, {"application/pdf"}, {"pdf"}, 6)

(* PST and DBF name their score BASE_SCORE, and bid with the general one. *)
PstBid(f, types) == Match(f, types, {"application/vnd.ms-outlook"}, {"pst", "ost", "pab"}, 3)
DbfBid(f, types) == Match(f, types, {"application/x-dbf"}, {"dbf"}, 3)

(* Every class, in the order of the entry points. *)
Classes ==
    <<"xml", "plain", "pdf", "rar", "zip", "tar", "7z", "gz", "pst", "olm", "opfmsg", "olemsg",
      "msg", "emlx", "csv", "access", "sqlite", "xlsx", "mbox", "dbf">>

Bid(class, f, types) ==
    CASE class = "xml" -> Match(f, types, {"text/xml"}, {"xml"}, 1)
      [] class = "plain" -> Match(f, types, {"text/plain"}, {"txt"}, 1)
      [] class = "pdf" -> PdfBid(f, types)
      [] class = "rar" -> RarBid(f, types)
      [] class = "zip" -> ZipBid(f, types)
      [] class = "tar" -> TarBid(f, types)
      [] class = "7z" -> Match(f, types, {"application/x-7z-compressed"}, {"7z"}, 4)
      [] class = "gz" -> SingleFileBid(f, types, {"application/gzip"}, {"gz", "tgz"})
      [] class = "pst" -> PstBid(f, types)
      [] class = "olm" -> Match(f, types, {}, {"olm"}, 10)
      [] class = "opfmsg" -> Match(f, types, RoutingTypes, {}, 15)
      [] class = "olemsg" -> OutlookMsgBid(f, types)
      [] class = "msg" -> Match(f, types, {"message/rfc822"}, {"eml", "msg"}, 7)
      [] class = "emlx" -> Match(f, types, {}, {"emlx"}, 8)
      [] class = "csv" -> Match(f, types, {"text/csv"}, {"csv"}, 7)
      [] class = "access" -> Match(f, types, {"application/x-msaccess"}, {"mdb"}, 8)
      [] class = "sqlite" -> SqliteBid(f, types)
      [] class = "xlsx" -> XlsxBid(f, types)
      [] class = "mbox" -> MboxBid(f, types)
      [] class = "dbf" -> DbfBid(f, types)

(* Manager.auction: the first of the highest bids. *)
Winner(f, declared) ==
    LET bid(n) == Bid(Classes[n], f, Types(f, declared))
        best == {n \in DOMAIN Classes :
                    bid(n) > 0 /\ \A k \in DOMAIN Classes : bid(k) < bid(n) \/ (bid(k) = bid(n) /\ n <= k)}
    IN  IF best = {} THEN "tika" ELSE Classes[CHOOSE n \in best : TRUE]

Ingestors == {"tika"} \union {Classes[n] : n \in DOMAIN Classes}
=============================================================================
