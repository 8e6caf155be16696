----------------------------- MODULE MCSSDHashKV -----------------------------
(* SSDHashKV, synchronous compaction, on a small instance. *)
EXTENDS SSDHashKV, TLC

\* Keys and values are interchangeable in the properties, all of them safety.
Symmetry == Permutations(Keys) \cup Permutations(Values)
=============================================================================
