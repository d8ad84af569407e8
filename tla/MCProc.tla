------------------------------- MODULE MCProc -------------------------------
(***************************************************************************)
(* Proc for TLC.  Storage for struct proc is interchangeable.              *)
(***************************************************************************)
EXTENDS Proc, TLC

Symmetry == Permutations(Proc)
=============================================================================
