---------------------------- MODULE MCTokenAuth ----------------------------
(***************************************************************************)
(* TokenAuth for TLC: interchangeable processes as model values.           *)
(***************************************************************************)
EXTENDS TokenAuth, TLC

ProcSymmetry == Permutations(Proc)
=============================================================================
