-------------------------- MODULE MCDramSsdStorage --------------------------
(* Two trainers on two keys, of which DRAM keeps one. *)
EXTENDS DramSsdStorage

Symmetry == Permutations(Trainers)

=============================================================================
