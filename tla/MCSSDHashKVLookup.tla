-------------------------- MODULE MCSSDHashKVLookup --------------------------
(* One lock-free reader against the synchronous store. *)
EXTENDS SSDHashKVLookup, TLC

\* Keys and values are interchangeable in the invariants.
Symmetry == Permutations(Keys) \cup Permutations(Values)
=============================================================================
