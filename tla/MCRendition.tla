---------------------------- MODULE MCRendition ----------------------------
(***************************************************************************)
(* A small instance: a memo and a bill of two pages, with a letterhead on  *)
(* both, a note with a drawing, a scan, a photo, a file for Tika, and four *)
(* files that cannot be read.                                              *)
(***************************************************************************)
EXTENDS Rendition, TLC

CONSTANTS d1, d2, memo, note, scan, bill, torn, locked, photo, sheet, smudge, junk,
          letterhead, icon, stamp, content, english, german, eng, deu

MCKind ==
    (memo :> "office") @@ (note :> "office") @@ (torn :> "office") @@ (scan :> "scan")
        @@ (bill :> "pdf") @@ (locked :> "pdf")
        @@ (photo :> "image") @@ (smudge :> "image") @@ (sheet :> "other") @@ (junk :> "other")
MCPages ==
    (memo :> <<<<letterhead>>, <<icon, stamp>>>>) @@ (note :> <<<<icon>>>>) @@ (scan :> <<<<stamp>>>>)
        @@ (bill :> <<<<letterhead>>, <<stamp>>>>) @@ (photo :> <<<<stamp>>>>) @@ (sheet :> <<<<content>>>>)
        @@ [d \in {torn, locked, smudge, junk} |-> <<>>]
MCModelOf == (english :> eng) @@ (german :> deu)

Run(s, d, l) == [dataset |-> s, doc |-> d, languages |-> l]

(* The same document three times over, in two datasets, in two settings;   *)
(* two of a kind; and what has no pages, again and again.                  *)
MCLoads ==
    {Run(d1, note, english) :> 3,
     (Run(d1, note, english) :> 1) @@ (Run(d2, note, english) :> 1),
     (Run(d1, bill, english) :> 1) @@ (Run(d1, bill, german) :> 1),
     (Run(d1, memo, english) :> 1) @@ (Run(d1, bill, english) :> 1),
     (Run(d1, scan, english) :> 1) @@ (Run(d1, torn, german) :> 1),
     (Run(d1, bill, english) :> 1) @@ (Run(d1, locked, english) :> 1),
     (Run(d1, photo, english) :> 1) @@ (Run(d1, photo, german) :> 1) @@ (Run(d1, sheet, english) :> 2),
     (Run(d2, sheet, english) :> 1) @@ (Run(d1, junk, english) :> 1) @@ (Run(d1, smudge, english) :> 1)}

Symmetry == Permutations(Workers)
=============================================================================
