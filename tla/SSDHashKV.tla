------------------------------ MODULE SSDHashKV ------------------------------
(***************************************************************************)
(* SSDHashKV with synchronous compaction                                   *)
(* (framework/embedding/ssd_hash_kv.h, TF_SSDHASH_ASYNC_COMPACTION=false): *)
(* a lock-free hash map from keys to positions, a write buffer of          *)
(* max_app_count_ records, and embedding files numbered by version.        *)
(* Committers are serialized by the mutex of the SSD storage, so one       *)
(* control variable pc follows the only commit in progress; its steps are  *)
(* the points between which a lock-free reader can look at the store.      *)
(***************************************************************************)
EXTENDS EmbFile, FiniteSets

CONSTANTS
  Keys, Values,
  NULL,             \* no EmbPosition
  MaxAppCount,      \* max_app_count_ = BUFFER_SIZE / val_len_
  CapInvalidId,     \* CAP_INVALID_ID
  MaxFiles,         \* bound: the highest version a file is created with
  MaxBatch          \* bound: number of records of one BatchCommit

ASSUME MaxAppCountAssumption == MaxAppCount \in Nat \ {0}
ASSUME MaxFilesAssumption == MaxFiles \in Nat
ASSUME MaxBatchAssumption == MaxBatch \in Nat
ASSUME KeysAssumption == IsFiniteSet(Keys)

Versions == 0..MaxFiles
Slots == 0..(MaxAppCount - 1)

\* class EmbPosition.  Within one store <<version, offset>> identifies the
\* object; its mutable field flushed_ is the variable flushed_ below.
Position == [version : Versions, offset : Nat, buffer_offset : Nat]

ASSUME NULLAssumption == NULL \notin Position

VARIABLES
  hash_map_,        \* key -> current EmbPosition, or NULL
  flushed_,         \* the positions whose flushed_ field is true
  file_data,        \* version -> records written to the file
  file_count,       \* version -> count_
  file_invalid,     \* version -> invalid_count_
  deleted,          \* versions whose file is deleted (is_deleted_)
  current_version_, current_offset_,
  buffer_cur_, write_buffer_, key_buffer_,
  total_app_count_,
  evict_file_set_,  \* versions that qualify for compaction
  evict_file_map_,  \* version -> its valid items when compaction started
  pc,               \* where the commit in progress is
  batch,            \* records of the commit still to be saved
  files_left,       \* MoveToNewFile: files still to be moved
  items_left,       \* MoveToNewFile: items of the current file to be moved
  rec,              \* arguments of the SaveKV in progress
  ep                \* the EmbPosition SaveKV made

fileVars   == <<file_data, file_count, file_invalid, deleted>>
bufferVars == <<current_offset_, buffer_cur_, write_buffer_, key_buffer_>>
evictVars  == <<evict_file_set_, evict_file_map_>>
loopVars   == <<batch, files_left, items_left>>
vars == <<hash_map_, flushed_, fileVars, current_version_, bufferVars,
          total_app_count_, evictVars, pc, loopVars, rec, ep>>

Item == Keys \X Position
Record == [key : Keys, value : Values \cup {Garbage}, is_compaction : BOOLEAN]
Batches == UNION {[1..n -> Keys \X Values] : n \in 1..MaxBatch}

Init ==
  /\ hash_map_ = [k \in Keys |-> NULL]
  /\ flushed_ = {}
  /\ file_data = [v \in Versions |-> <<>>]
  /\ file_count = [v \in Versions |-> 0]
  /\ file_invalid = [v \in Versions |-> 0]
  /\ deleted = {}
  /\ current_version_ = 0
  /\ current_offset_ = 0
  /\ buffer_cur_ = 0
  /\ write_buffer_ = [i \in Slots |-> Garbage]
  /\ key_buffer_ = [i \in Slots |-> Garbage]
  /\ total_app_count_ = 0
  /\ evict_file_set_ = {}
  /\ evict_file_map_ = [v \in {} |-> {}]
  /\ pc = "idle"
  /\ batch = <<>>
  /\ files_left = {}
  /\ items_left = {}
  /\ rec = NULL
  /\ ep = NULL

-----------------------------------------------------------------------------
(* Compaction, run by the committer before it saves anything.              *)

HashSize == Cardinality({k \in Keys : hash_map_[k] # NULL})

\* The test is made on size_t: a total below the size wraps to a huge number.
CompactionTriggered ==
  \/ total_app_count_ < HashSize
  \/ (HashSize * 3) \div 2 < total_app_count_
  \/ total_app_count_ - HashSize > CapInvalidId

\* DeleteInvalidFiles: the files compacted by the PREVIOUS compaction go.
DeleteInvalidFiles ==
  /\ deleted' = deleted \cup DOMAIN evict_file_map_
  /\ evict_file_map_' = [v \in {} |-> {}]

\* BatchCommit (Commit is the batch of one) enters and calls Compaction.
BatchCommit(b) ==
  /\ pc = "idle"
  /\ batch' = b
  /\ IF CompactionTriggered
       THEN /\ DeleteInvalidFiles
            /\ pc' = "init_evict_map"
            /\ UNCHANGED total_app_count_
       ELSE /\ total_app_count_' = total_app_count_ + Len(b)
            /\ pc' = "next_record"
            /\ UNCHANGED <<deleted, evict_file_map_>>
  /\ UNCHANGED <<hash_map_, flushed_, file_data, file_count, file_invalid,
                 current_version_, bufferVars, evict_file_set_, files_left,
                 items_left, rec, ep>>

\* Faulty variant: the record at the head of a file is overlooked.
LookupValidItemsSkippingHead(v) ==
  {<<k, hash_map_[k]>> : k \in {j \in Keys : /\ hash_map_[j] # NULL
                                           /\ hash_map_[j].version = v
                                           /\ hash_map_[j].offset > 0}}

\* LookupValidItems: the items of the hash map that live in file v.
LookupValidItems(v) ==
  {it \in {<<k, hash_map_[k]>> : k \in {k \in Keys : hash_map_[k] # NULL}} :
     it[2].version = v}

\* Faulty variant: the files taken over stay in evict_file_set_.
InitializeEvictMapWithoutErase ==
  /\ pc = "init_evict_map"
  /\ evict_file_map_' = [v \in evict_file_set_ |-> LookupValidItems(v)]
  /\ files_left' = evict_file_set_
  /\ pc' = "move_file"
  /\ UNCHANGED <<hash_map_, flushed_, fileVars, current_version_, bufferVars,
                 total_app_count_, evict_file_set_, batch, items_left, rec, ep>>

InitializeEvictMap ==
  /\ pc = "init_evict_map"
  /\ evict_file_map_' = [v \in evict_file_set_ |-> LookupValidItems(v)]
  /\ evict_file_set_' = {}
  /\ files_left' = evict_file_set_
  /\ pc' = "move_file"
  /\ UNCHANGED <<hash_map_, flushed_, fileVars, current_version_, bufferVars,
                 total_app_count_, batch, items_left, rec, ep>>

\* MoveToNewFile, outer loop: evict_file_map_ is a std::map, visited in the
\* order of the versions.
MoveFile(v) ==
  /\ pc = "move_file"
  /\ v \in files_left
  /\ \A w \in files_left : v <= w
  /\ files_left' = files_left \ {v}
  /\ items_left' = evict_file_map_[v]
  /\ total_app_count_' = total_app_count_ - file_invalid[v]
  /\ pc' = "move_item"
  /\ UNCHANGED <<hash_map_, flushed_, fileVars, current_version_, bufferVars,
                 evictVars, batch, rec, ep>>

\* MoveToNewFile, inner loop: the record is read from the file, whatever its
\* flushed_ field says, and saved again.
MoveItem(it) ==
  /\ pc = "move_item"
  /\ it \in items_left
  /\ items_left' = items_left \ {it}
  /\ rec' = [key |-> it[1],
             value |-> Read(file_data[it[2].version], it[2].offset),
             is_compaction |-> TRUE]
  /\ pc' = "check_buffer"
  /\ UNCHANGED <<hash_map_, flushed_, fileVars, current_version_, bufferVars,
                 total_app_count_, evictVars, batch, files_left, ep>>

EndOfFile ==
  /\ pc = "move_item"
  /\ items_left = {}
  /\ pc' = "move_file"
  /\ UNCHANGED <<hash_map_, flushed_, fileVars, current_version_, bufferVars,
                 total_app_count_, evictVars, loopVars, rec, ep>>

\* Faulty variant: a commit that compacts does not count its records.
EndOfCompactionUncounted ==
  /\ pc = "move_file"
  /\ files_left = {}
  /\ pc' = "next_record"
  /\ UNCHANGED <<hash_map_, flushed_, fileVars, current_version_, bufferVars,
                 total_app_count_, evictVars, loopVars, rec, ep>>

\* Faulty variant: the compacted files are deleted at once.
EndOfCompactionDeletingFiles ==
  /\ pc = "move_file"
  /\ files_left = {}
  /\ total_app_count_' = total_app_count_ + Len(batch)
  /\ DeleteInvalidFiles
  /\ pc' = "next_record"
  /\ UNCHANGED <<hash_map_, flushed_, file_data, file_count, file_invalid,
                 current_version_, bufferVars, evict_file_set_, loopVars, rec,
                 ep>>

\* Compaction returns to BatchCommit, which counts its records.
EndOfCompaction ==
  /\ pc = "move_file"
  /\ files_left = {}
  /\ total_app_count_' = total_app_count_ + Len(batch)
  /\ pc' = "next_record"
  /\ UNCHANGED <<hash_map_, flushed_, fileVars, current_version_, bufferVars,
                 evictVars, loopVars, rec, ep>>

-----------------------------------------------------------------------------
(* The loop of BatchCommit: CheckBuffer and SaveKV for every record.       *)

NextRecord ==
  /\ pc = "next_record"
  /\ batch # <<>>
  /\ rec' = [key |-> Head(batch)[1], value |-> Head(batch)[2],
             is_compaction |-> FALSE]
  /\ batch' = Tail(batch)
  /\ pc' = "check_buffer"
  /\ UNCHANGED <<hash_map_, flushed_, fileVars, current_version_, bufferVars,
                 total_app_count_, evictVars, files_left, items_left, ep>>

EndOfCommit ==
  /\ pc = "next_record"
  /\ batch = <<>>
  /\ rec' = NULL
  /\ ep' = NULL
  /\ pc' = "idle"
  /\ UNCHANGED <<hash_map_, flushed_, fileVars, current_version_, bufferVars,
                 total_app_count_, evictVars, loopVars>>

\* Faulty variant: off by one.
BufferFullLate == buffer_cur_ > MaxAppCount

BufferFull == buffer_cur_ + 1 > MaxAppCount

\* Faulty variant: the full buffer is flushed by SaveKV, between
\* AppendToWriteBuffer and the insertion into the hash map.
WriteBufferBeforeInsert ==
  /\ pc = "publish"
  /\ BufferFull
  /\ file_data' = [file_data EXCEPT ![current_version_] =
                     Write(@, write_buffer_, buffer_cur_)]
  /\ pc' = "update_flush_status"
  /\ UNCHANGED <<hash_map_, flushed_, file_count, file_invalid, deleted,
                 current_version_, bufferVars, total_app_count_, evictVars,
                 loopVars, rec, ep>>

\* Faulty variant: off by one.
FileFullLate == file_count[current_version_] > MaxAppCount

\* The file takes no further buffer.
FileFull == file_count[current_version_] >= MaxAppCount

\* CheckBuffer, no room for another record: the buffer is written to the
\* current file, and a new file is begun when the current one is full.
WriteBuffer ==
  /\ pc = "check_buffer"
  /\ BufferFull
  /\ file_data' = [file_data EXCEPT ![current_version_] =
                     Write(@, write_buffer_, buffer_cur_)]
  /\ IF FileFull
       THEN /\ current_version_ < MaxFiles
            /\ current_version_' = current_version_ + 1
            /\ current_offset_' = 0
       ELSE UNCHANGED <<current_version_, current_offset_>>
  /\ pc' = "update_flush_status"
  /\ UNCHANGED <<hash_map_, flushed_, file_count, file_invalid, deleted,
                 buffer_cur_, write_buffer_, key_buffer_, total_app_count_,
                 evictVars, loopVars, rec, ep>>

\* Faulty variant: the last buffered key is not marked.
UpdateFlushStatusButLast ==
  /\ pc = "update_flush_status"
  /\ flushed_' = flushed_ \cup
       {hash_map_[key_buffer_[i]] : i \in 0..(buffer_cur_ - 2)}
  /\ buffer_cur_' = 0
  /\ pc' = "append"
  /\ UNCHANGED <<hash_map_, fileVars, current_version_, current_offset_,
                 write_buffer_, key_buffer_, total_app_count_, evictVars,
                 loopVars, rec, ep>>

\* The rest of CheckBuffer: UpdateFlushStatus marks the position every
\* buffered key has NOW, then the buffer is empty.
UpdateFlushStatus ==
  /\ pc = "update_flush_status"
  /\ flushed_' = flushed_ \cup
       {hash_map_[key_buffer_[i]] : i \in 0..(buffer_cur_ - 1)}
  /\ buffer_cur_' = 0
  /\ pc' = "append"
  /\ UNCHANGED <<hash_map_, fileVars, current_version_, current_offset_,
                 write_buffer_, key_buffer_, total_app_count_, evictVars,
                 loopVars, rec, ep>>

\* SaveKV, first half: make the position, AppendToWriteBuffer.  CheckBuffer
\* has just emptied the buffer, or found room in it and did nothing.
AppendToWriteBuffer ==
  /\ \/ pc = "append"
     \/ pc = "check_buffer" /\ ~BufferFull
  /\ ep' = [version |-> current_version_, offset |-> current_offset_,
            buffer_offset |-> buffer_cur_]
  /\ current_offset_' = current_offset_ + 1
  /\ write_buffer_' = [write_buffer_ EXCEPT ![buffer_cur_] = rec.value]
  /\ key_buffer_' = [key_buffer_ EXCEPT ![buffer_cur_] = rec.key]
  /\ buffer_cur_' = buffer_cur_ + 1
  /\ pc' = "publish"
  /\ UNCHANGED <<hash_map_, flushed_, fileVars, current_version_,
                 total_app_count_, evictVars, loopVars, rec>>

\* SaveKV, second half: the position enters the hash map, the counters of the
\* new and of the old file are updated.
Publish ==
  LET old == hash_map_[rec.key]
      supersedes == old # NULL /\ ~rec.is_compaction
      count == [file_count EXCEPT ![ep.version] = @ + 1]
      invalid == IF supersedes
                   THEN [file_invalid EXCEPT ![old.version] = @ + 1]
                   ELSE file_invalid
  IN
  /\ pc = "publish"
  /\ hash_map_' = [hash_map_ EXCEPT ![rec.key] = ep]
  /\ file_count' = count
  /\ file_invalid' = invalid
  /\ evict_file_set_' =
       IF /\ supersedes
          /\ old.version # current_version_
          /\ IsNeedToBeCompacted(count[old.version], invalid[old.version])
         THEN evict_file_set_ \cup {old.version}
         ELSE evict_file_set_
  /\ pc' = IF rec.is_compaction THEN "move_item" ELSE "next_record"
  /\ UNCHANGED <<flushed_, file_data, deleted, current_version_, bufferVars,
                 total_app_count_, evict_file_map_, loopVars, rec, ep>>

Next ==
  \/ \E b \in Batches : BatchCommit(b)
  \/ InitializeEvictMap
  \/ \E v \in Versions : MoveFile(v)
  \/ \E it \in items_left : MoveItem(it)
  \/ EndOfFile
  \/ EndOfCompaction
  \/ NextRecord
  \/ EndOfCommit
  \/ WriteBuffer
  \/ UpdateFlushStatus
  \/ AppendToWriteBuffer
  \/ Publish

Spec == Init /\ [][Next]_vars

-----------------------------------------------------------------------------
(* Correctness.                                                            *)

PCs == {"idle", "init_evict_map", "move_file", "move_item",
        "next_record", "check_buffer", "update_flush_status", "append",
        "publish"}

\* Type correctness of the state of SSDHashKV.
TypeOK ==
  /\ hash_map_ \in [Keys -> Position \cup {NULL}]
  /\ flushed_ \subseteq Position
  /\ file_data \in [Versions -> Seq(Values \cup {Garbage})]
  /\ file_count \in [Versions -> Nat]
  /\ file_invalid \in [Versions -> Nat]
  /\ deleted \subseteq Versions
  /\ current_version_ \in Versions
  /\ current_offset_ \in Nat
  /\ buffer_cur_ \in 0..MaxAppCount
  /\ write_buffer_ \in [Slots -> Values \cup {Garbage}]
  /\ key_buffer_ \in [Slots -> Keys \cup {Garbage}]
  /\ total_app_count_ \in Int
  /\ evict_file_set_ \subseteq Versions
  /\ DOMAIN evict_file_map_ \subseteq Versions
  /\ evict_file_map_ \in [DOMAIN evict_file_map_ -> SUBSET Item]
  /\ pc \in PCs
  /\ batch \in Seq(Keys \X Values)
  /\ files_left \subseteq Versions
  /\ items_left \subseteq Item
  /\ rec \in Record \cup {NULL}
  /\ ep \in Position \cup {NULL}

\* What Lookup(k) copies when nothing moves under it: from the file when the
\* position is flushed, from the write buffer otherwise.
Contents(p) ==
  IF p \in flushed_ THEN Read(file_data[p.version], p.offset)
                    ELSE write_buffer_[p.buffer_offset]

Lookup(k) == IF hash_map_[k] = NULL THEN NULL ELSE Contents(hash_map_[k])

Saving == pc \in {"check_buffer", "update_flush_status", "append", "publish"}

\* The records of the commit in progress that no lookup sees yet.
Pending ==
  IF Saving /\ ~rec.is_compaction
    THEN <<<<rec.key, rec.value>>>> \o batch
    ELSE batch

KV == INSTANCE KVStore WITH store <- [k \in Keys |-> Lookup(k)],
                            pending <- Pending, NoValue <- NULL

\* SSDHashKV implements the abstract store: every flush, file roll, move of a
\* record by MoveToNewFile and deletion of a file leaves what Lookup returns
\* for every key unchanged, and only SaveKV of a commit changes it: the records
\* of a batch take effect one by one, each exactly once and in order (Lookup,
\* CheckBuffer, SaveKV, MoveToNewFile).
ImplementsKVStore == KV!Spec

\* No key points into a file that DeleteInvalidFiles removed, or that does
\* not exist: MoveToNewFile has taken every valid record out in time.
NoDanglingPosition ==
  \A k \in Keys : hash_map_[k] # NULL =>
    /\ hash_map_[k].version \notin deleted
    /\ hash_map_[k].version <= current_version_

\* TF_CHECK_OK(UpdateFlushStatus()) in CheckBuffer never fails: every key of
\* the write buffer is in the hash map when the buffer is flushed.
FlushFindsEveryKey ==
  pc = "update_flush_status" =>
    \A i \in 0..(buffer_cur_ - 1) : hash_map_[key_buffer_[i]] # NULL

\* No file outgrows BUFFER_SIZE, the length EmbFile maps for reading, so that
\* Read never leaves the mapping (CheckBuffer, Mmap).
FileFitsMapping == \A v \in Versions : Len(file_data[v]) <= MaxAppCount

\* A file is handed to compaction once: SaveKV never queues a file that an
\* earlier Compaction moved or deleted, nor the file being written.
CompactedOnce ==
  \A v \in evict_file_set_ :
    /\ v < current_version_
    /\ v \notin deleted
    /\ v \notin DOMAIN evict_file_map_

Live == {v \in 0..current_version_ :
           v \notin deleted /\ v \notin DOMAIN evict_file_map_}

\* The records of a file, by their number in it.
Records(v) == {v} \X (1..file_count[v])

Holds(v) == {k \in Keys : hash_map_[k] # NULL /\ hash_map_[k].version = v}

\* Between commits the counters that trigger compaction are exact: a live
\* file's invalid_count_ is the number of its records no key points to, and
\* total_app_count_ is the number of records in live files (SaveKV,
\* MoveToNewFile, BatchCommit).
CountersExact ==
  pc = "idle" =>
    /\ \A v \in Live : file_count[v] - file_invalid[v] = Cardinality(Holds(v))
    /\ total_app_count_ = Cardinality(UNION {Records(v) : v \in Live})

-----------------------------------------------------------------------------
(* The inductive invariant behind ImplementsKVStore and the others.        *)

\* Compaction has its map and is not finished.
Moving == pc \in {"move_file", "move_item"} \/ (Saving /\ rec.is_compaction)

\* The next record goes where the buffer will be written, no file exists above
\* the current one, and compaction never touches the current one.
FilesInv ==
  /\ current_offset_ = Len(file_data[current_version_]) +
       (IF pc = "update_flush_status" THEN 0 ELSE buffer_cur_)
  /\ \A v \in Versions : v > current_version_ => file_data[v] = <<>>
  /\ \A v \in deleted \cup evict_file_set_ \cup DOMAIN evict_file_map_ :
       v < current_version_
  /\ pc = "append" => buffer_cur_ = 0

\* A flushed position points into the written part of its file; one that is not
\* flushed is in its key's slot of the write buffer, and its record will be, or
\* during UpdateFlushStatus already is, at its offset.
PositionInv ==
  /\ \A p \in flushed_ : p.offset < Len(file_data[p.version])
  /\ \A k \in Keys : LET p == hash_map_[k] IN p # NULL =>
       /\ p.version <= current_version_
       /\ p.version \notin deleted
       /\ p \notin flushed_ =>
            /\ p.version \notin evict_file_set_ \cup DOMAIN evict_file_map_
            /\ p.buffer_offset < buffer_cur_
            /\ key_buffer_[p.buffer_offset] = k
            /\ IF pc = "update_flush_status"
                 THEN /\ p.offset < Len(file_data[p.version])
                      /\ file_data[p.version][p.offset + 1] =
                           write_buffer_[p.buffer_offset]
                 ELSE /\ p.version = current_version_
                      /\ p.offset = Len(file_data[current_version_]) +
                                      p.buffer_offset

\* Every buffered key is in the hash map, the one being saved excepted.
BufferInv ==
  \A i \in 0..(buffer_cur_ - 1) :
    /\ key_buffer_[i] \in Keys
    /\ hash_map_[key_buffer_[i]] # NULL
         \/ (pc = "publish" /\ i = buffer_cur_ - 1)

\* The commit and the save in progress.
SaveInv ==
  /\ pc = "idle" => batch = <<>>
  /\ Saving => rec \in Record
  /\ Saving /\ ~rec.is_compaction => rec.value \in Values
  /\ pc = "publish" =>
       /\ buffer_cur_ > 0
       /\ ep = [version |-> current_version_, offset |-> current_offset_ - 1,
                buffer_offset |-> buffer_cur_ - 1]
       /\ key_buffer_[buffer_cur_ - 1] = rec.key
       /\ write_buffer_[buffer_cur_ - 1] = rec.value

\* MoveToNewFile: a key that still points into a file of evict_file_map_ is
\* waiting in files_left or items_left, or is the one being saved, and what
\* waits there is what the hash map says now.
MoveInv ==
  /\ ~Moving => files_left = {} /\ items_left = {}
  /\ pc = "move_file" => items_left = {}
  /\ files_left \subseteq DOMAIN evict_file_map_
  /\ \A v \in files_left : \A it \in evict_file_map_[v] :
       hash_map_[it[1]] = it[2] /\ it[2].version = v
  /\ \A it \in items_left :
       /\ hash_map_[it[1]] = it[2]
       /\ it[2].version \in DOMAIN evict_file_map_ \ files_left
       /\ Saving => it[1] # rec.key
  /\ Saving /\ rec.is_compaction => LET p == hash_map_[rec.key] IN
       /\ p # NULL
       /\ p.version \in DOMAIN evict_file_map_ \ files_left
       /\ rec.value = Read(file_data[p.version], p.offset)
  /\ pc # "init_evict_map" =>
       \A k \in Keys : LET p == hash_map_[k] IN
         p # NULL /\ p.version \in DOMAIN evict_file_map_ =>
           \/ p.version \in files_left /\ <<k, p>> \in evict_file_map_[p.version]
           \/ <<k, p>> \in items_left
           \/ Saving /\ rec.is_compaction /\ rec.key = k
  /\ pc = "init_evict_map" => DOMAIN evict_file_map_ = {}

\* The inductive invariant: what ties the hash map to the write buffer, to the
\* files and to the progress of MoveToNewFile between any two steps of a commit.
IInv == TypeOK /\ FilesInv /\ PositionInv /\ BufferInv /\ SaveInv /\ MoveInv
=============================================================================
