--------------------------- MODULE MCSSDHashKVAsync ---------------------------
(* The committer against the compaction thread. *)
EXTENDS SSDHashKVAsync, TLC

\* Keys and values are interchangeable in the properties, all of them safety.
Symmetry == Permutations(Keys) \cup Permutations(Values)
=============================================================================
