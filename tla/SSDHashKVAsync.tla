---------------------------- MODULE SSDHashKVAsync ----------------------------
(***************************************************************************)
(* SSDHashKV with asynchronous compaction, the mode the code defaults to   *)
(* (framework/embedding/ssd_hash_kv.h).  Two threads share the store       *)
(* without a common lock: the committer (serialized by the mutex of the    *)
(* SSD storage) and the compaction thread.  They meet in the               *)
(* compare-and-swap on a key's position, in the counters of the files, in  *)
(* evict_file_set_, and under mu_ when one of them begins a file.          *)
(***************************************************************************)
EXTENDS Integers, Sequences, FiniteSets

CONSTANTS
  Keys, Values,
  Garbage,          \* content of memory nobody wrote
  NULL,             \* no EmbPosition
  MaxAppCount,      \* max_app_count_ = BUFFER_SIZE / val_len_
  CapInvalidId,     \* CAP_INVALID_ID
  MaxFiles,         \* bound: the highest version a file is created with
  MaxAppended       \* bound: total_app_count_ when a commit begins stays below

ASSUME MaxAppCountAssumption == MaxAppCount \in Nat \ {0}
ASSUME MaxFilesAssumption == MaxFiles \in Nat

INSTANCE EmbFile

Versions == 0..MaxFiles
Slots == 0..(MaxAppCount - 1)

\* class EmbPosition; born is the flushed_ argument of its constructor, which
\* UpdateFlushStatus may later set (variable flushed_).
Position == [version : Versions, offset : Nat, buffer_offset : Nat,
             born : BOOLEAN]

ASSUME KeysAssumption == IsFiniteSet(Keys)
ASSUME NULLAssumption == NULL \notin Position

VARIABLES
  hash_map_, flushed_,
  file_data, file_count, file_invalid, deleted,
  current_version_, evict_version_, compaction_version_,
  current_offset_, buffer_cur_, write_buffer_, key_buffer_,
  total_app_count_,
  evict_file_set_, evict_file_map_,
  pc,             \* the committer
  rec,            \* key and value it saves
  ep, old_posi,   \* locals of SaveKVAsync
  c_pc,           \* the compaction thread
  scan_left,      \* LookupValidItems: keys not visited yet
  files_left, items_left,
  id_buffer,      \* records read for the new file: <<key, posi, value>>
  n_cas,          \* FlushAndUpdate: records whose position is updated
  invalid_files   \* files all of whose records have been read

fileVars   == <<file_data, file_count, file_invalid, deleted>>
bufferVars == <<current_offset_, buffer_cur_, write_buffer_, key_buffer_>>
commitVars == <<pc, rec, ep, old_posi>>
compactVars == <<c_pc, scan_left, files_left, items_left, id_buffer, n_cas,
                 invalid_files>>
vars == <<hash_map_, flushed_, fileVars, current_version_, evict_version_,
          compaction_version_, bufferVars, total_app_count_,
          evict_file_set_, evict_file_map_, commitVars, compactVars>>

NoMap == [v \in {} |-> {}]

InitThreads ==
  /\ compaction_version_ = 0
  /\ current_offset_ = 0
  /\ buffer_cur_ = 0
  /\ write_buffer_ = [i \in Slots |-> Garbage]
  /\ key_buffer_ = [i \in Slots |-> Garbage]
  /\ deleted = {}
  /\ flushed_ = {}
  /\ evict_file_set_ = {}
  /\ evict_file_map_ = NoMap
  /\ pc = "idle" /\ rec = NULL /\ ep = NULL /\ old_posi = NULL
  /\ c_pc = "idle"
  /\ scan_left = {} /\ files_left = {} /\ items_left = {}
  /\ id_buffer = <<>> /\ n_cas = 0
  /\ invalid_files = {}

Init ==
  /\ InitThreads
  /\ hash_map_ = [k \in Keys |-> NULL]
  /\ file_data = [v \in Versions |-> <<>>]
  /\ file_count = [v \in Versions |-> 0]
  /\ file_invalid = [v \in Versions |-> 0]
  /\ current_version_ = 0
  /\ evict_version_ = 0
  /\ total_app_count_ = 0

-----------------------------------------------------------------------------
(* The committer.                                                          *)

\* Commit; compaction_fn_ is empty in this mode.
Commit(k, v) ==
  /\ pc = "idle"
  /\ total_app_count_ < MaxAppended
  /\ rec' = [key |-> k, value |-> v]
  /\ total_app_count_' = total_app_count_ + 1
  /\ pc' = "check_buffer"
  /\ UNCHANGED <<hash_map_, flushed_, fileVars, current_version_,
                 evict_version_, compaction_version_, bufferVars,
                 evict_file_set_, evict_file_map_, ep, old_posi, compactVars>>

\* Faulty variant: off by one.
BufferFullLate == buffer_cur_ > MaxAppCount

BufferFull == buffer_cur_ + 1 > MaxAppCount

\* CheckBufferAsync: WriteFile(evict_version_).
WriteBuffer ==
  /\ pc = "check_buffer"
  /\ BufferFull
  /\ file_data' = [file_data EXCEPT ![evict_version_] =
                     Write(@, write_buffer_, buffer_cur_)]
  /\ pc' = "update_flush_status"
  /\ UNCHANGED <<hash_map_, flushed_, file_count, file_invalid, deleted,
                 current_version_, evict_version_, compaction_version_,
                 bufferVars, total_app_count_, evict_file_set_,
                 evict_file_map_, rec, ep, old_posi, compactVars>>

UpdateFlushStatus ==
  /\ pc = "update_flush_status"
  /\ flushed_' = flushed_ \cup
       {hash_map_[key_buffer_[i]] : i \in 0..(buffer_cur_ - 1)}
  /\ pc' = "new_evict_file"
  /\ UNCHANGED <<hash_map_, fileVars, current_version_, evict_version_,
                 compaction_version_, bufferVars, total_app_count_,
                 evict_file_set_, evict_file_map_, rec, ep, old_posi,
                 compactVars>>

\* CheckBufferAsync, the part under mu_.
NewEvictFile ==
  /\ pc = "new_evict_file"
  /\ current_version_ < MaxFiles
  /\ current_version_' = current_version_ + 1
  /\ evict_version_' = current_version_ + 1
  /\ current_offset_' = 0
  /\ buffer_cur_' = 0
  /\ pc' = "append"
  /\ UNCHANGED <<hash_map_, flushed_, fileVars, compaction_version_,
                 write_buffer_, key_buffer_, total_app_count_,
                 evict_file_set_, evict_file_map_, rec, ep, old_posi,
                 compactVars>>

\* SaveKVAsync: the position is made and the record enters the buffer.
AppendToWriteBuffer ==
  /\ \/ pc = "append"
     \/ pc = "check_buffer" /\ ~BufferFull
  /\ ep' = [version |-> evict_version_, offset |-> current_offset_,
            buffer_offset |-> buffer_cur_, born |-> FALSE]
  /\ current_offset_' = current_offset_ + 1
  /\ write_buffer_' = [write_buffer_ EXCEPT ![buffer_cur_] = rec.value]
  /\ key_buffer_' = [key_buffer_ EXCEPT ![buffer_cur_] = rec.key]
  /\ buffer_cur_' = buffer_cur_ + 1
  /\ pc' = "insert"
  /\ UNCHANGED <<hash_map_, flushed_, fileVars, current_version_,
                 evict_version_, compaction_version_, total_app_count_,
                 evict_file_set_, evict_file_map_, rec, old_posi, compactVars>>

\* The locals of SaveKVAsync end with it.
ReturnFromCommit ==
  pc' = "idle" /\ rec' = NULL /\ ep' = NULL /\ old_posi' = NULL

\* insert_lockless, which keeps a position that is there, and AddCount; the
\* loop then loads old_posi.
Insert ==
  /\ pc = "insert"
  /\ file_count' = [file_count EXCEPT ![ep.version] = @ + 1]
  /\ IF hash_map_[rec.key] = NULL
       THEN /\ hash_map_' = [hash_map_ EXCEPT ![rec.key] = ep]
            /\ ReturnFromCommit
       ELSE pc' = "load_old" /\ UNCHANGED <<hash_map_, rec, ep, old_posi>>
  /\ UNCHANGED <<flushed_, file_data, file_invalid, deleted, current_version_,
                 evict_version_, compaction_version_, bufferVars,
                 total_app_count_, evict_file_set_, evict_file_map_,
                 compactVars>>

LoadOldPosition ==
  /\ pc = "load_old"
  /\ old_posi' = hash_map_[rec.key]
  /\ pc' = "cas"
  /\ UNCHANGED <<hash_map_, flushed_, fileVars, current_version_,
                 evict_version_, compaction_version_, bufferVars,
                 total_app_count_, evict_file_set_, evict_file_map_, rec, ep,
                 compactVars>>

\* UpdatePosition: retried while the compaction thread gets in between.
UpdatePosition ==
  /\ pc = "cas"
  /\ IF hash_map_[rec.key] = old_posi
       THEN /\ hash_map_' = [hash_map_ EXCEPT ![rec.key] = ep]
            /\ pc' = "add_invalid"
       ELSE pc' = "load_old" /\ UNCHANGED hash_map_
  /\ UNCHANGED <<flushed_, fileVars, current_version_, evict_version_,
                 compaction_version_, bufferVars, total_app_count_,
                 evict_file_set_, evict_file_map_, rec, ep, old_posi,
                 compactVars>>

\* Faulty variant: the new position's file is charged.
AddInvalidCountToNewFile ==
  /\ pc = "add_invalid"
  /\ file_invalid' = [file_invalid EXCEPT ![ep.version] = @ + 1]
  /\ pc' = "queue_file"
  /\ UNCHANGED <<hash_map_, flushed_, file_data, file_count, deleted,
                 current_version_, evict_version_, compaction_version_,
                 bufferVars, total_app_count_, evict_file_set_,
                 evict_file_map_, rec, ep, old_posi, compactVars>>

AddInvalidCount ==
  /\ pc = "add_invalid"
  /\ file_invalid' = [file_invalid EXCEPT ![old_posi.version] = @ + 1]
  /\ pc' = "queue_file"
  /\ UNCHANGED <<hash_map_, flushed_, file_data, file_count, deleted,
                 current_version_, evict_version_, compaction_version_,
                 bufferVars, total_app_count_, evict_file_set_,
                 evict_file_map_, rec, ep, old_posi, compactVars>>

QueueFile ==
  LET v == old_posi.version IN
  /\ pc = "queue_file"
  /\ evict_file_set_' =
       IF v # evict_version_ /\ IsNeedToBeCompacted(file_count[v],
                                                    file_invalid[v])
         THEN evict_file_set_ \cup {v} ELSE evict_file_set_
  /\ ReturnFromCommit
  /\ UNCHANGED <<hash_map_, flushed_, fileVars, current_version_,
                 evict_version_, compaction_version_, bufferVars,
                 total_app_count_, evict_file_map_, compactVars>>

Committer ==
  \/ \E k \in Keys, v \in Values : Commit(k, v)
  \/ WriteBuffer
  \/ UpdateFlushStatus
  \/ NewEvictFile
  \/ AppendToWriteBuffer
  \/ Insert
  \/ LoadOldPosition
  \/ UpdatePosition
  \/ AddInvalidCount
  \/ QueueFile

-----------------------------------------------------------------------------
(* The compaction thread.                                                  *)

HashSize == Cardinality({k \in Keys : hash_map_[k] # NULL})

\* On size_t: a total below the size wraps to a huge number.
CompactionTriggered ==
  \/ total_app_count_ < HashSize
  \/ (HashSize * 3) \div 2 < total_app_count_
  \/ total_app_count_ - HashSize > CapInvalidId

\* CompactionAsync begins: DeleteInvalidFiles.
DeleteInvalidFiles ==
  /\ c_pc = "idle"
  /\ CompactionTriggered
  /\ deleted' = deleted \cup DOMAIN evict_file_map_
  /\ evict_file_map_' = NoMap
  /\ c_pc' = "init_evict_map"
  /\ UNCHANGED <<hash_map_, flushed_, file_data, file_count, file_invalid,
                 current_version_, evict_version_, compaction_version_,
                 bufferVars, total_app_count_, evict_file_set_, commitVars,
                 scan_left, files_left, items_left, id_buffer, n_cas,
                 invalid_files>>

\* InitializeEvictMapWithoutErase: the files, then a walk over the hash map
\* that reads one key after the other while the committer goes on.
InitializeEvictMap ==
  /\ c_pc = "init_evict_map"
  /\ evict_file_map_' = [v \in evict_file_set_ |-> {}]
  /\ files_left' = evict_file_set_
  /\ scan_left' = Keys
  /\ c_pc' = "scan"
  /\ UNCHANGED <<hash_map_, flushed_, fileVars, current_version_,
                 evict_version_, compaction_version_, bufferVars,
                 total_app_count_, evict_file_set_, commitVars, items_left,
                 id_buffer, n_cas, invalid_files>>

\* Faulty variant: the record at the head of a file is overlooked.
LookupItemSkippingHead(k) ==
  LET p == hash_map_[k] IN
  /\ c_pc = "scan"
  /\ k \in scan_left
  /\ scan_left' = scan_left \ {k}
  /\ evict_file_map_' =
       IF p # NULL /\ p.version \in DOMAIN evict_file_map_ /\ p.offset > 0
         THEN [evict_file_map_ EXCEPT ![p.version] = @ \cup {<<k, p>>}]
         ELSE evict_file_map_
  /\ c_pc' = IF scan_left = {k} THEN "next_file" ELSE "scan"
  /\ UNCHANGED <<hash_map_, flushed_, fileVars, current_version_,
                 evict_version_, compaction_version_, bufferVars,
                 total_app_count_, evict_file_set_, commitVars, files_left,
                 items_left, id_buffer, n_cas, invalid_files>>

LookupValidItem(k) ==
  LET p == hash_map_[k] IN
  /\ c_pc = "scan"
  /\ k \in scan_left
  /\ scan_left' = scan_left \ {k}
  /\ evict_file_map_' =
       IF p # NULL /\ p.version \in DOMAIN evict_file_map_
         THEN [evict_file_map_ EXCEPT ![p.version] = @ \cup {<<k, p>>}]
         ELSE evict_file_map_
  /\ c_pc' = IF scan_left = {k} THEN "next_file" ELSE "scan"
  /\ UNCHANGED <<hash_map_, flushed_, fileVars, current_version_,
                 evict_version_, compaction_version_, bufferVars,
                 total_app_count_, evict_file_set_, commitVars, files_left,
                 items_left, id_buffer, n_cas, invalid_files>>

\* MoveToNewFileAsync, outer loop.
MoveFile(v) ==
  /\ c_pc = "next_file"
  /\ v \in files_left
  /\ \A w \in files_left : v <= w
  /\ files_left' = files_left \ {v}
  /\ items_left' = evict_file_map_[v]
  /\ total_app_count_' = total_app_count_ - file_invalid[v]
  /\ invalid_files' = IF evict_file_map_[v] = {}
                        THEN invalid_files \cup {v} ELSE invalid_files
  /\ c_pc' = IF evict_file_map_[v] = {} THEN "next_file" ELSE "item"
  /\ UNCHANGED <<hash_map_, flushed_, fileVars, current_version_,
                 evict_version_, compaction_version_, bufferVars,
                 evict_file_set_, evict_file_map_, commitVars, scan_left,
                 id_buffer, n_cas>>

\* Inner loop: read one record; FlushAndUpdate when the buffer is full.  The
\* file joins invalid_files after its last record, and after that flush.
ReadItem(it) ==
  LET last == items_left = {it}
      full == Len(id_buffer) + 1 = MaxAppCount
  IN
  /\ c_pc = "item"
  /\ it \in items_left
  /\ items_left' = items_left \ {it}
  /\ id_buffer' = Append(id_buffer,
       <<it[1], it[2], Read(file_data[it[2].version], it[2].offset)>>)
  /\ invalid_files' = IF last /\ ~full
                        THEN invalid_files \cup {it[2].version}
                        ELSE invalid_files
  /\ c_pc' = IF full THEN "flush" ELSE IF last THEN "next_file" ELSE "item"
  /\ UNCHANGED <<hash_map_, flushed_, fileVars, current_version_,
                 evict_version_, compaction_version_, bufferVars,
                 total_app_count_, evict_file_set_, evict_file_map_,
                 commitVars, scan_left, files_left, n_cas>>

\* FlushAndUpdate, under mu_: a new file.  The call at the end of
\* MoveToNewFileAsync is made even when nothing was read.
NewCompactionFile ==
  /\ \/ c_pc = "flush"
     \/ c_pc = "next_file" /\ files_left = {}
  /\ current_version_ < MaxFiles
  /\ current_version_' = current_version_ + 1
  /\ compaction_version_' = current_version_ + 1
  /\ c_pc' = IF c_pc = "flush" THEN "write" ELSE "write_last"
  /\ UNCHANGED <<hash_map_, flushed_, fileVars, evict_version_, bufferVars,
                 total_app_count_, evict_file_set_, evict_file_map_,
                 commitVars, scan_left, files_left, items_left, id_buffer,
                 n_cas, invalid_files>>

WriteCompactionFile ==
  /\ c_pc \in {"write", "write_last"}
  /\ file_data' = [file_data EXCEPT ![compaction_version_] =
       @ \o [i \in 1..Len(id_buffer) |-> id_buffer[i][3]]]
  /\ file_count' = [file_count EXCEPT ![compaction_version_] =
                      @ + Len(id_buffer)]
  /\ n_cas' = 0
  /\ c_pc' = IF c_pc = "write" THEN "update" ELSE "update_last"
  /\ UNCHANGED <<hash_map_, flushed_, file_invalid, deleted, current_version_,
                 evict_version_, compaction_version_, bufferVars,
                 total_app_count_, evict_file_set_, evict_file_map_,
                 commitVars, scan_left, files_left, items_left, id_buffer,
                 invalid_files>>

\* Faulty variant: a plain store in place of the compare-and-swap.
SwapPositionBlindly ==
  /\ c_pc \in {"update", "update_last"}
  /\ n_cas < Len(id_buffer)
  /\ n_cas' = n_cas + 1
  /\ hash_map_' = [hash_map_ EXCEPT ![id_buffer[n_cas + 1][1]] =
       [version |-> compaction_version_, offset |-> n_cas,
        buffer_offset |-> n_cas, born |-> TRUE]]
  /\ UNCHANGED <<flushed_, fileVars, current_version_, evict_version_,
                 compaction_version_, bufferVars, total_app_count_,
                 evict_file_set_, evict_file_map_, commitVars, c_pc,
                 scan_left, files_left, items_left, id_buffer, invalid_files>>

\* One record: the position is swapped unless the committer was faster.
SwapPosition ==
  LET k == id_buffer[n_cas + 1][1]
      cv == compaction_version_
      new == [version |-> cv, offset |-> n_cas, buffer_offset |-> n_cas,
              born |-> TRUE]
  IN
  /\ c_pc \in {"update", "update_last"}
  /\ n_cas < Len(id_buffer)
  /\ n_cas' = n_cas + 1
  /\ IF hash_map_[k] = id_buffer[n_cas + 1][2]
       THEN /\ hash_map_' = [hash_map_ EXCEPT ![k] = new]
            /\ UNCHANGED <<file_invalid, evict_file_set_>>
       ELSE /\ file_invalid' = [file_invalid EXCEPT ![cv] = @ + 1]
            /\ evict_file_set_' =
                 IF IsNeedToBeCompacted(file_count[cv], file_invalid[cv] + 1)
                   THEN evict_file_set_ \cup {cv} ELSE evict_file_set_
            /\ UNCHANGED hash_map_
  /\ UNCHANGED <<flushed_, file_data, file_count, deleted, current_version_,
                 evict_version_, compaction_version_, bufferVars,
                 total_app_count_, evict_file_map_, commitVars, c_pc,
                 scan_left, files_left, items_left, id_buffer, invalid_files>>

\* FlushAndUpdate ends: the files read to their end leave evict_file_set_.
EraseInvalidFiles ==
  /\ c_pc \in {"update", "update_last"}
  /\ n_cas = Len(id_buffer)
  /\ evict_file_set_' = evict_file_set_ \ invalid_files
  /\ n_cas' = 0
  /\ id_buffer' = <<>>
  /\ invalid_files' = IF c_pc = "update" /\ items_left = {}
                        THEN {id_buffer[Len(id_buffer)][2].version} ELSE {}
  /\ c_pc' = IF c_pc = "update_last" THEN "idle"
             ELSE IF items_left = {} THEN "next_file" ELSE "item"
  /\ UNCHANGED <<hash_map_, flushed_, fileVars, current_version_,
                 evict_version_, compaction_version_, bufferVars,
                 total_app_count_, evict_file_map_, commitVars, scan_left,
                 files_left, items_left>>

CompactionThread ==
  \/ DeleteInvalidFiles
  \/ InitializeEvictMap
  \/ \E k \in scan_left : LookupValidItem(k)
  \/ \E v \in Versions : MoveFile(v)
  \/ \E it \in items_left : ReadItem(it)
  \/ NewCompactionFile
  \/ WriteCompactionFile
  \/ SwapPosition
  \/ EraseInvalidFiles

Next == Committer \/ CompactionThread

Spec == Init /\ [][Next]_vars

-----------------------------------------------------------------------------
(* Correctness.                                                            *)

\* Type correctness: versions in range, neither buffer overrun.
TypeOK ==
  /\ hash_map_ \in [Keys -> Position \cup {NULL}]
  /\ flushed_ \subseteq Position
  /\ file_data \in [Versions -> Seq(Values \cup {Garbage})]
  /\ file_count \in [Versions -> Nat]
  /\ file_invalid \in [Versions -> Nat]
  /\ deleted \cup evict_file_set_ \cup files_left \cup invalid_files
       \subseteq Versions
  /\ {current_version_, evict_version_, compaction_version_} \subseteq Versions
  /\ buffer_cur_ \in 0..MaxAppCount
  /\ n_cas \in 0..Len(id_buffer)
  /\ Len(id_buffer) <= MaxAppCount

Contents(p) ==
  IF p.born \/ p \in flushed_ THEN Read(file_data[p.version], p.offset)
                              ELSE write_buffer_[p.buffer_offset]

Lookup(k) == IF hash_map_[k] = NULL THEN NULL ELSE Contents(hash_map_[k])

\* The commit in progress, until its position is in the hash map.
Pending ==
  IF pc \in {"idle", "add_invalid", "queue_file"}
    THEN <<>> ELSE <<<<rec.key, rec.value>>>>

KV == INSTANCE KVStore WITH store <- [k \in Keys |-> Lookup(k)],
                            pending <- Pending, NoValue <- NULL

\* Whatever the interleaving of the committer with the compaction thread, what
\* Lookup would return changes only when SaveKVAsync publishes a commit, and
\* then to the committed value: a compaction that read a record before it was
\* overwritten never brings the old value back (FlushAndUpdate's
\* compare-and-swap against pos_buffer).
ImplementsKVStore == KV!Spec

\* No key points into a file the compaction thread has deleted, although
\* LookupValidItems walks the hash map while the committer changes it.
NoDanglingPosition ==
  \A k \in Keys : hash_map_[k] # NULL =>
    /\ hash_map_[k].version \notin deleted
    /\ hash_map_[k].version <= current_version_

Quiescent == pc = "idle" /\ c_pc = "idle"

Live == {v \in 0..current_version_ :
           v \notin deleted /\ v \notin DOMAIN evict_file_map_}

\* When both threads rest, the invalid_count_ of a file that compaction has not
\* taken is the number of its records no key points to, although both threads
\* add to it (AddInvalidCountAtomic in SaveKVAsync and FlushAndUpdate).
InvalidCountExact ==
  Quiescent =>
    \A v \in Live :
      file_count[v] - file_invalid[v] =
        Cardinality({k \in Keys : hash_map_[k] # NULL
                                  /\ hash_map_[k].version = v})
=============================================================================
