---------------------------- MODULE MCContainers ----------------------------
(***************************************************************************)
(* A small instance: files of each kind, sound and damaged, with what they *)
(* hold, under the names and the types they are met with.                  *)
(***************************************************************************)
EXTENDS Containers, TLC

Entry(kind, sniffed, extension, looks, holds) ==
    [kind |-> kind, sniffed |-> sniffed, extension |-> extension, looks |-> looks, holds |-> holds]
Leaf == Entry("leaf", "text/plain", "txt", {}, {})
Nested(holds) == Entry("nested", "application/vnd.ms-outlook", "msg", {"ole"}, holds)
Email(extension, holds) == Entry("msg", "message/rfc822", extension, {}, holds)
Xlsx(looks, sniffed) == Entry("xlsx", sniffed, "xlsx", looks, {"picture", "trace"})

(* A compressed tar looks like a gzip file to libmagic, a PST file like an  *)
(* Outlook message, and an mbox like plain text.                           *)
Catalogue ==
    [f \in {"text", "image", "picture", "broken", "trace"} |-> Leaf]
    @@ "zip" :> Entry("zip", "application/zip", "zip", {"zip"}, {"text", "forwarded", "broken", "trace"})
    @@ "tar" :> Entry("tar", "application/gzip", "tgz", {"tar"}, {"text", "broken", "list"})
    @@ "tarTorn" :> Entry("tar", "application/gzip", "tgz", {"tar"}, {"text"})
    @@ "rar" :> Entry("rar", "application/x-rar", "none", {"rar"}, {"text", "broken"})
    @@ "seven" :> Entry("7z", "application/x-7z-compressed", "7z", {}, {"text", "book", "trace"})
    @@ "sevenTorn" :> Entry("7z", "application/x-7z-compressed", "7z", {}, {"text"})
    @@ "gz" :> Entry("gz", "application/gzip", "gz", {}, {"list"})
    @@ "gzTorn" :> Entry("gz", "application/gzip", "gz", {}, {"text"})
    @@ "pst" :> Entry("pst", "application/vnd.ms-outlook", "pst", {}, {"forwarded", "text"})
    @@ "pstTorn" :> Entry("pst", "application/vnd.ms-outlook", "none", {}, {"text", "picture"})
    @@ "mbox" :> Entry("mbox", "text/plain", "mbox", {}, {"forwarded", "broken"})
    @@ "mail" :> Email("msg", {"forwarded", "text", "picture", "trace"})
    @@ "mailTorn" :> Email("eml", {"text"})
    @@ "forwarded" :> Email("none", {"image"})
    @@ "apple" :> Entry("emlx", "text/plain", "emlx", {}, {"forwarded", "picture"})
    @@ "olm" :> Entry("olm", "application/zip", "olm", {"zip"}, {"letter", "note"})
    @@ "letter" :> Entry("opfmsg", "text/xml", "none", {}, {"image", "forwarded", "trace"})
    @@ "note" :> Entry("opfmsg", "text/plain", "none", {}, {"picture"})
    @@ "outlook" :> Entry("olemsg", "application/vnd.ms-outlook", "none", {"ole"}, {"reply", "text"})
    @@ "reply" :> Nested({"first", "image", "trace"})
    @@ "first" :> Nested({"picture"})
    @@ "book" :> Xlsx({"zip", "sheets"}, SheetType)
    @@ "bookTorn" :> Xlsx({"zip", "sheets"}, SheetType)
    @@ "bookLocked" :> Xlsx({"ole"}, "application/encrypted")
    @@ "bookNamed" :> Xlsx({}, "application/octet-stream")
    @@ "base" :> Entry("sqlite", "application/x-sqlite3", "db", {"sqlite"}, {})
    @@ "baseOdd" :> Entry("sqlite", "application/x-sqlite3", "db", {"sqlite"}, {})
    @@ "access" :> Entry("access", "application/x-msaccess", "mdb", {}, {})
    @@ "list" :> Entry("csv", "text/csv", "txt", {}, {})
    @@ "fields" :> Entry("dbf", "application/x-dbf", "dbf", {}, {})
    @@ "fieldsTorn" :> Entry("dbf", "application/x-dbf", "dbf", {}, {})

MCFiles == DOMAIN Catalogue
MCKind == [f \in MCFiles |-> Catalogue[f].kind]
MCSniffed == [f \in MCFiles |-> Catalogue[f].sniffed]
MCExtension == [f \in MCFiles |-> Catalogue[f].extension]
MCLooks == [f \in MCFiles |-> Catalogue[f].looks]
MCHolds == [f \in MCFiles |-> Catalogue[f].holds]
MCWithin ==
    [f \in MCFiles |->
        CASE f \in {"letter", "note"} -> <<"olm">> [] f = "reply" -> <<"outlook">>
          [] f = "first" -> <<"outlook", "reply">> [] OTHER -> <<>>]

(* What nothing is done with: a skipped entry, or a part without a name, a  *)
(* URL or data.                                                            *)
MCIgnored == {<<f, "trace">> : f \in MCFiles}

(* The messages of an OLM archive are queued with their marker; any other  *)
(* type that is declared is wrong.                                         *)
MCDeclared ==
    [f \in MCFiles |->
        CASE f \in {"letter", "note"} -> {RoutingTypes}
          [] f \in {"list", "rar"} -> {{}, {"text/plain"}}
          [] f \in {"pst", "forwarded", "zip"} -> {{"application/vnd.ms-outlook"}}
          [] OTHER -> {{}}]

(* People has an empty row and a row that fills a chunk by its size, sums   *)
(* rows that fill chunks by their number.                                  *)
MCTables == {"people", "sums", "odd", "entries", "names", "x"}
MCSheets ==
    [f \in MCFiles |->
        CASE f = "book" -> <<"people">>
          [] f = "base" -> <<"people", "x", "sums">>
          [] f \in {"bookTorn", "access"} -> <<"people", "sums">>
          [] f = "baseOdd" -> <<"people", "odd">>
          [] f = "list" -> <<"entries">>
          [] f = "fields" -> <<"names">>
          [] f = "fieldsTorn" -> <<"sums">>
          [] OTHER -> <<>>]
MCRows ==
    [t \in MCTables |->
        CASE t = "people" -> <<1, 0, 4, 1, 1, 1>> [] t = "names" -> <<2, 1, 3>>
          [] OTHER -> <<1, 1, 1, 1, 1>>]
MCReadableRows ==
    [t \in MCTables |-> CASE t = "sums" -> 4 [] t = "odd" -> 0 [] OTHER -> Len(MCRows[t])]
MCUndecodable == [t \in MCTables |-> IF t = "names" THEN {2} ELSE {}]

MCLoads ==
    {f \in MCFiles : Catalogue[f].kind \notin {"leaf", "nested"}}
        \ {"forwarded", "letter", "note", "book", "list"}
=============================================================================
