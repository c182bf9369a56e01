------------------------------ MODULE MCCrawl ------------------------------
(***************************************************************************)
(* A folder of files, enough of them to fill the pool of two threads, one  *)
(* of them a link that may be broken.                                      *)
(***************************************************************************)
EXTENDS Crawl, TLC

CONSTANTS folder, f1, f2, f3, f4, f5, f6

LongFiles == {f1, f2, f3, f4, f5, f6}
LongWalk == <<f1, f2, folder, f3, f4, f5, f6>>
ShortFiles == {f1, f2}
ShortWalk == <<folder, f1, f2>>
MCFolders == {folder}
MCIrregular == {f2}
=============================================================================
