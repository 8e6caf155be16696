------------------------ MODULE MCSSDHashKVCheckpoint ------------------------
(* Checkpoint, crash and restore of the synchronous store. *)
EXTENDS SSDHashKVCheckpoint, TLC

\* Keys and values are interchangeable in the properties, all of them safety.
Symmetry == Permutations(Keys) \cup Permutations(Values)
=============================================================================
