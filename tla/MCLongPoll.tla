---------------------------- MODULE MCLongPoll ------------------------------
(***************************************************************************)
(* LongPoll for model checking.  Fetching connections are interchangeable, *)
(* and so are partitions.                                                  *)
(***************************************************************************)
EXTENDS LongPoll

Symmetry == Permutations(Fetches) \cup Permutations(Partitions)

=============================================================================
