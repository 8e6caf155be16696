--------------------------- MODULE SSDHashKVLookup ---------------------------
(***************************************************************************)
(* Readers against the synchronous store.  SSDHashKV::Lookup takes no      *)
(* lock: DramSsdHashStorage::Get calls it from any thread while the        *)
(* eviction thread commits.  Its three loads (the position, its flushed_   *)
(* field, the record) are three steps here.                                *)
(***************************************************************************)
EXTENDS SSDHashKV

CONSTANT Readers

VARIABLES
  r_pc,       \* reader -> where its Lookup is
  r_key,      \* reader -> argument of Lookup
  r_posi,     \* reader -> posi, the position it found
  r_flag,     \* reader -> the value of posi->flushed_ it read
  r_result,   \* reader -> the record it copied
  h_seen,     \* history: values the key had during the lookup
  h_rounds,   \* history: compactions that overlap the lookup (capped)
  h_reused    \* history: readers whose lookup saw the buffer being reset

readerVars == <<r_pc, r_key, r_posi, r_flag, r_result>>
historyVars == <<h_seen, h_rounds, h_reused>>
lookupVars == <<vars, readerVars, historyVars>>

RoundsCap == 2      \* bound of h_rounds: the properties tell 0, 1 and more

InitLookup ==
  /\ Init
  /\ r_pc = [r \in Readers |-> "idle"]
  /\ r_key = [r \in Readers |-> NULL]
  /\ r_posi = [r \in Readers |-> NULL]
  /\ r_flag = [r \in Readers |-> FALSE]
  /\ r_result = [r \in Readers |-> NULL]
  /\ h_seen = [r \in Readers |-> {}]
  /\ h_rounds = [r \in Readers |-> 0]
  /\ h_reused = {}

\* The committer is inside Compaction.
InCompaction ==
  \/ pc \in {"init_evict_map", "move_file", "move_item"}
  \/ pc \in {"check_buffer", "update_flush_status", "append", "publish"}
       /\ rec.is_compaction

\* find_wait_free; a key that is not in the map ends the lookup (NotFound).
Find(r, k) ==
  /\ r_pc[r] = "idle"
  /\ hash_map_[k] # NULL
  /\ r_key' = [r_key EXCEPT ![r] = k]
  /\ r_posi' = [r_posi EXCEPT ![r] = hash_map_[k]]
  /\ r_pc' = [r_pc EXCEPT ![r] = "found"]
  /\ h_seen' = [h_seen EXCEPT ![r] = {Lookup(k)}]
  /\ h_rounds' = [h_rounds EXCEPT ![r] = IF InCompaction THEN 1 ELSE 0]
  /\ h_reused' = h_reused \ {r}
  /\ UNCHANGED <<vars, r_flag, r_result>>

LoadFlushed(r) ==
  /\ r_pc[r] = "found"
  /\ r_flag' = [r_flag EXCEPT ![r] = r_posi[r] \in flushed_]
  /\ r_pc' = [r_pc EXCEPT ![r] = "copy"]
  /\ UNCHANGED <<vars, r_key, r_posi, r_result, historyVars>>

\* Faulty variant: the flushed_ field is ignored.
CopyRecordFromBuffer(r) ==
  /\ r_pc[r] = "copy"
  /\ r_result' = [r_result EXCEPT ![r] =
                    write_buffer_[r_posi[r].buffer_offset]]
  /\ r_pc' = [r_pc EXCEPT ![r] = "done"]
  /\ UNCHANGED <<vars, r_key, r_posi, r_flag, historyVars>>

\* The copy.  A deleted file is unmapped: reading it is undefined behaviour,
\* Garbage stands for whatever comes out of it.
CopyRecord(r) ==
  LET p == r_posi[r] IN
  /\ r_pc[r] = "copy"
  /\ r_result' = [r_result EXCEPT ![r] =
       IF ~r_flag[r] THEN write_buffer_[p.buffer_offset]
       ELSE IF p.version \in deleted THEN Garbage
       ELSE Read(file_data[p.version], p.offset)]
  /\ r_pc' = [r_pc EXCEPT ![r] = "done"]
  /\ UNCHANGED <<vars, r_key, r_posi, r_flag, historyVars>>

Return(r) ==
  /\ r_pc[r] = "done"
  /\ r_pc' = [r_pc EXCEPT ![r] = "idle"]
  /\ r_key' = [r_key EXCEPT ![r] = NULL]
  /\ r_posi' = [r_posi EXCEPT ![r] = NULL]
  /\ r_flag' = [r_flag EXCEPT ![r] = FALSE]
  /\ r_result' = [r_result EXCEPT ![r] = NULL]
  /\ h_seen' = [h_seen EXCEPT ![r] = {}]
  /\ h_rounds' = [h_rounds EXCEPT ![r] = 0]
  /\ h_reused' = h_reused \ {r}
  /\ UNCHANGED vars

Looking == {r \in Readers : r_pc[r] \in {"found", "copy"}}

\* A step of the committer, with the bookkeeping of the histories.  A lookup
\* that is done touches nothing shared before it returns, so the committer's
\* steps are explored before and after its Return only.
StoreStep ==
  /\ \A r \in Readers : r_pc[r] # "done"
  /\ Next
  /\ UNCHANGED readerVars
  /\ h_seen' = [r \in Readers |->
       IF r \in Looking THEN h_seen[r] \cup {Lookup(r_key[r])'} ELSE h_seen[r]]
  /\ h_rounds' = [r \in Readers |->
       IF /\ r \in Looking
          /\ pc' = "init_evict_map"
          /\ h_rounds[r] < RoundsCap
         THEN h_rounds[r] + 1 ELSE h_rounds[r]]
  /\ h_reused' = IF pc = "update_flush_status" THEN h_reused \cup Looking
                                               ELSE h_reused

NextLookup ==
  \/ StoreStep
  \/ \E r \in Readers :
       \/ \E k \in Keys : Find(r, k)
       \/ LoadFlushed(r)
       \/ CopyRecord(r)
       \/ Return(r)

SpecLookup == InitLookup /\ [][NextLookup]_lookupVars

-----------------------------------------------------------------------------
\* Deleting the compacted files one compaction late protects readers: a lookup
\* that overlaps at most one Compaction never copies from an unmapped file
\* (DeleteInvalidFiles runs before InitializeEvictMap).
DelayedDeleteProtectsReaders ==
  \A r \in Readers :
    r_pc[r] = "copy" /\ r_flag[r] /\ h_rounds[r] <= 1
      => r_posi[r].version \notin deleted

\* Within that window, and as long as CheckBuffer did not recycle the write
\* buffer under a lookup that goes to it, Lookup returns a value the key had
\* while the lookup was running.
LookupInWindowIsCurrent ==
  \A r \in Readers :
    /\ r_pc[r] = "done"
    /\ IF r_flag[r] THEN h_rounds[r] <= 1 ELSE r \notin h_reused
    => r_result[r] \in h_seen[r]
=============================================================================
