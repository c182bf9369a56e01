----------------------------- MODULE MCConvert -----------------------------
(***************************************************************************)
(* Three documents, one of each kind, on two threads; with as many ports   *)
(* as threads, each can have one of its own.                               *)
(***************************************************************************)
EXTENDS Convert, TLC

ThreadSymmetry == Permutations(Threads)
PortSymmetry == Permutations(Ports)
Symmetry == ThreadSymmetry \union PortSymmetry
=============================================================================
