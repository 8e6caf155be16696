------------------------------ MODULE LRUCache ------------------------------
(***************************************************************************)
(* LRUCache (framework/embedding/cache.h): the keys of the fast tier that  *)
(* may be evicted, most recently used first, and the reference counts of   *)
(* the keys that are prefetched, which leave the list until every user of  *)
(* them came by.  Each operation holds the mutex of the cache.             *)
(***************************************************************************)
EXTENDS Naturals, Sequences, SequencesExt

CONSTANT Keys

VARIABLES lru,              \* from head to tail
          prefetch_id_table \* key -> ref_count_, 0: no entry

cacheVars == <<lru, prefetch_id_table>>

CacheInit == lru = <<>> /\ prefetch_id_table = [k \in Keys |-> 0]

\* The list without the node mp has for k.
Unlinked(k) ==
  IF Contains(lru, k) THEN RemoveAt(lru, CHOOSE i \in 1..Len(lru) : lru[i] = k) ELSE lru

\* update, for one key of the batch: it becomes the head.
Touched(k) == <<k>> \o Unlinked(k)

update(k) == lru' = Touched(k) /\ UNCHANGED prefetch_id_table

\* Faulty variant: a second user of the key takes no reference.
add_to_prefetch_list_once(k) ==
  /\ prefetch_id_table' = [prefetch_id_table EXCEPT ![k] = 1]
  /\ lru' = Unlinked(k)

\* A prefetched key cannot be evicted; Ref() when it is prefetched already.
add_to_prefetch_list(k) ==
  /\ prefetch_id_table' = [prefetch_id_table EXCEPT ![k] = @ + 1]
  /\ lru' = IF prefetch_id_table[k] = 0 THEN Unlinked(k) ELSE lru

\* UnRef(); the last user puts the key back.  A key without an entry ends the
\* process (LOG(FATAL)): the caller guards with IsPrefetched.
IsPrefetched(k) == prefetch_id_table[k] > 0

\* Faulty variant: the key goes back only when a reference is left.
add_to_cache_early(k) ==
  /\ prefetch_id_table' = [prefetch_id_table EXCEPT ![k] = @ - 1]
  /\ lru' = IF prefetch_id_table[k] > 1 THEN Touched(k) ELSE lru

add_to_cache(k) ==
  /\ prefetch_id_table' = [prefetch_id_table EXCEPT ![k] = @ - 1]
  /\ lru' = IF prefetch_id_table[k] = 1 THEN Touched(k) ELSE lru

\* The n keys at the tail, in the order of their eviction; they leave the list.
EvicIds(n) == Reverse(SubSeq(lru, Len(lru) - n + 1, Len(lru)))

get_evic_ids(n) ==
  /\ lru' = SubSeq(lru, 1, Len(lru) - n)
  /\ UNCHANGED prefetch_id_table
=============================================================================
