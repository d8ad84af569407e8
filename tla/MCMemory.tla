------------------------------ MODULE MCMemory ------------------------------
(***************************************************************************)
(* AddrSpace and Coremap together on a small machine.                      *)
(***************************************************************************)
EXTENDS AddrSpace, TLC

CONSTANT k1

MCOwners == (As \X (Table \union Page)) \union {k1}

MCTouched == {<<"text", 0>>, <<"data", 0>>}

Symmetry == Permutations(Process)
=============================================================================
