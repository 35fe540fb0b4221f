--------------------------- MODULE MCWatchService ---------------------------
(***************************************************************************)
(* WatchService for TLC: process names are model values, and which of them *)
(* is which does not matter to any invariant or action property.           *)
(***************************************************************************)
EXTENDS WatchService, TLC

ProcSymmetry == Permutations(Proc)
=============================================================================
