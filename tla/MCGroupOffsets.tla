-------------------------- MODULE MCGroupOffsets ----------------------------
(***************************************************************************)
(* GroupOffsets for model checking.  Consumers are interchangeable: every  *)
(* first assignment is an initial state.                                   *)
(***************************************************************************)
EXTENDS GroupOffsets

Symmetry == Permutations(Consumers)

=============================================================================
