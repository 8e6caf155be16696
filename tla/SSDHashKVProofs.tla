--------------------------- MODULE SSDHashKVProofs ---------------------------
(***************************************************************************)
(* Proofs about SSDHashKV with synchronous compaction: the committer, its  *)
(* lock-free readers (SSDHashKVLookup), and checkpoint and restore         *)
(* (SSDHashKVCheckpoint).                                                  *)
(***************************************************************************)
EXTENDS SSDHashKVLookup, SSDHashKVCheckpoint, FiniteSetTheorems,
        FunctionTheorems, SequenceTheorems, TLAPS

\* What appending the buffer to a file does (EmbFile::Write).
LEMMA WriteProperties ==
  ASSUME NEW S, NEW data \in Seq(S), NEW buffer \in [Slots -> S],
         NEW n \in 0..MaxAppCount
  PROVE  /\ Write(data, buffer, n) \in Seq(S)
         /\ Len(Write(data, buffer, n)) = Len(data) + n
         /\ \A i \in 1..Len(data) : Write(data, buffer, n)[i] = data[i]
         /\ \A i \in 0..(n - 1) :
              Write(data, buffer, n)[Len(data) + i + 1] = buffer[i]
<1> DEFINE t == [i \in 1..n |-> buffer[i - 1]]
<1>1. n \in Nat /\ MaxAppCount \in Nat
  BY MaxAppCountAssumption
<1>2. \A i \in 1..n : buffer[i - 1] \in S
  BY <1>1 DEF Slots
<1>3. t \in Seq(S) /\ Len(t) = n /\ \A i \in 1..n : t[i] = buffer[i - 1]
  <2>1. t \in [1..n -> S]
    BY <1>2
  <2>2. t \in Seq(S)
    BY <2>1, <1>1, SeqDef
  <2> QED BY <2>1, <2>2, <1>1, LenProperties
<1>4. Write(data, buffer, n) = data \o t
  BY DEF Write
<1> HIDE DEF t
<1> QED BY <1>1, <1>3, <1>4, ConcatProperties, LenProperties

\* A read returns a record of the file, or Garbage outside of it.
LEMMA ReadType ==
  ASSUME NEW S, NEW data \in Seq(S), NEW offset \in Nat
  PROVE  Read(data, offset) \in S \cup {Garbage}
  BY ElementOfSeq, LenProperties DEF Read

\* A batch is a sequence of records.
LEMMA BatchType ==
  ASSUME NEW b \in Batches PROVE b \in Seq(Keys \X Values)
<1>1. PICK n \in 1..MaxBatch : b \in [1..n -> Keys \X Values]
  BY DEF Batches
<1> QED BY <1>1, MaxBatchAssumption, SeqDef

\* The empty store satisfies the invariant (the constructor).
LEMMA InitIInv == Init => IInv
<1> SUFFICES ASSUME Init PROVE IInv
  OBVIOUS
<1> USE MaxAppCountAssumption, MaxFilesAssumption DEF Init
<1>1. TypeOK
  BY DEF TypeOK, Versions, Slots, PCs
<1>2. FilesInv /\ PositionInv /\ BufferInv /\ SaveInv /\ MoveInv
  BY DEF FilesInv, PositionInv, BufferInv, SaveInv, MoveInv, Saving, Moving,
         Versions
<1> QED BY <1>1, <1>2 DEF IInv

-----------------------------------------------------------------------------
(* One lemma per action: it keeps the invariant and, Publish of a commit   *)
(* excepted, what Lookup returns.                                          *)

StoreUnchanged == \A k \in Keys : Lookup(k)' = Lookup(k)

\* BatchCommit enters: no key points into a file of the last compaction, so
\* DeleteInvalidFiles removes nothing a lookup needs.
LEMMA BatchCommitStep ==
  ASSUME IInv, NEW b \in Batches, BatchCommit(b) PROVE IInv' /\ StoreUnchanged
<1> USE MaxAppCountAssumption, MaxFilesAssumption DEF IInv, BatchCommit, fileVars,
        bufferVars, evictVars, loopVars, DeleteInvalidFiles
<1>1. TypeOK'
  <2>1. b \in Seq(Keys \X Values) /\ Len(b) \in Nat
    BY BatchType, LenProperties
  <2>2. CASE CompactionTriggered
    BY <2>1, <2>2, SMTT(60) DEF TypeOK, PCs
  <2>3. CASE ~CompactionTriggered
    BY <2>1, <2>3, SMTT(60) DEF TypeOK, PCs
  <2> QED BY <2>2, <2>3
<1>2. FilesInv'
  BY DEF FilesInv, TypeOK
<1>3. PositionInv'
  <2>1. \A k \in Keys :
          hash_map_[k] # NULL =>
            hash_map_[k].version \notin DOMAIN evict_file_map_
    BY DEF MoveInv, Moving, Saving
  <2>2. deleted' \subseteq deleted \cup DOMAIN evict_file_map_
    BY DEF TypeOK
  <2>3. DOMAIN evict_file_map_' \subseteq DOMAIN evict_file_map_
    BY DEF TypeOK
  <2>4. pc # "update_flush_status" /\ pc' # "update_flush_status"
    OBVIOUS
  <2> QED BY <2>1, <2>2, <2>3, <2>4 DEF PositionInv
<1>4. BufferInv'
  BY DEF BufferInv
<1>5. SaveInv'
  BY BatchType, NULLAssumption DEF SaveInv, Saving, TypeOK
<1>6. MoveInv'
  BY DEF MoveInv, Moving, Saving, TypeOK
<1>7. StoreUnchanged
  BY DEF StoreUnchanged, Lookup, Contents
<1> QED BY <1>1, <1>2, <1>3, <1>4, <1>5, <1>6, <1>7

\* InitializeEvictMap: from here on every key in a file to be compacted waits in
\* evict_file_map_.
LEMMA InitializeEvictMapStep ==
  ASSUME IInv, InitializeEvictMap PROVE IInv' /\ StoreUnchanged
<1> USE MaxAppCountAssumption, MaxFilesAssumption DEF IInv, InitializeEvictMap, fileVars,
        bufferVars, evictVars, loopVars, LookupValidItems, Item
<1>1. TypeOK'
  BY NULLAssumption, SMTT(60) DEF TypeOK, PCs
<1>2. FilesInv'
  BY DEF FilesInv, TypeOK
<1>3. PositionInv'
  BY DEF PositionInv, FilesInv, MoveInv, Moving, Saving, TypeOK
<1>4. BufferInv'
  BY DEF BufferInv
<1>5. SaveInv'
  BY NULLAssumption DEF SaveInv, Saving, TypeOK
<1>6. MoveInv'
  BY DEF MoveInv, Moving, Saving, TypeOK
<1>7. StoreUnchanged
  BY DEF StoreUnchanged, Lookup, Contents
<1> QED BY <1>1, <1>2, <1>3, <1>4, <1>5, <1>6, <1>7

\* MoveToNewFile turns to the next file: what waited in files_left now waits in
\* items_left.
LEMMA MoveFileStep ==
  ASSUME IInv, NEW v \in Versions, MoveFile(v) PROVE IInv' /\ StoreUnchanged
<1> USE MaxAppCountAssumption, MaxFilesAssumption DEF IInv, MoveFile, fileVars,
        bufferVars, evictVars, loopVars, Item
<1>1. TypeOK'
  <2>1. v \in DOMAIN evict_file_map_
    BY DEF MoveInv
  <2>2. evict_file_map_[v] \in SUBSET Item
    BY <2>1 DEF TypeOK
  <2>3. total_app_count_' \in Int /\ files_left' \subseteq Versions
    BY DEF TypeOK
  <2> QED BY <2>2, <2>3 DEF TypeOK, PCs
<1>2. FilesInv'
  BY DEF FilesInv, TypeOK
<1>3. PositionInv'
  BY DEF PositionInv, FilesInv, MoveInv, Moving, Saving, TypeOK
<1>4. BufferInv'
  BY DEF BufferInv
<1>5. SaveInv'
  BY NULLAssumption DEF SaveInv, Saving, TypeOK
<1>6. MoveInv'
  <2>1. /\ pc = "move_file" /\ pc' = "move_item" /\ Moving /\ Moving'
        /\ ~Saving /\ ~Saving'
        /\ v \in files_left /\ files_left' = files_left \ {v}
        /\ items_left = {} /\ items_left' = evict_file_map_[v]
        /\ UNCHANGED <<hash_map_, evict_file_map_, rec, file_data>>
    BY DEF MoveInv, Moving, Saving
  <2>2. files_left \subseteq DOMAIN evict_file_map_
    BY DEF MoveInv
  <2>3. \A it \in items_left' :
          /\ hash_map_[it[1]] = it[2]
          /\ it[2].version \in DOMAIN evict_file_map_ \ files_left'
    BY <2>1, <2>2 DEF MoveInv
  <2>4. \A k \in Keys : LET p == hash_map_[k] IN
          p # NULL /\ p.version \in DOMAIN evict_file_map_ =>
            \/ p.version \in files_left' /\ <<k, p>> \in evict_file_map_[p.version]
            \/ <<k, p>> \in items_left'
    BY <2>1 DEF MoveInv
  <2> QED BY <2>1, <2>2, <2>3, <2>4 DEF MoveInv
<1>7. StoreUnchanged
  BY DEF StoreUnchanged, Lookup, Contents
<1> QED BY <1>1, <1>2, <1>3, <1>4, <1>5, <1>6, <1>7

\* MoveToNewFile reads a record: it is flushed, so the file holds what Lookup
\* returns for its key.
LEMMA MoveItemStep ==
  ASSUME IInv, NEW it \in items_left, MoveItem(it) PROVE IInv' /\ StoreUnchanged
<1> USE MaxAppCountAssumption, MaxFilesAssumption DEF IInv, MoveItem, fileVars,
        bufferVars, evictVars, loopVars, Item, Record
<1>0. /\ it \in Item
      /\ it[2].version \in Versions
      /\ it[2].offset \in Nat
      /\ hash_map_[it[1]] = it[2]
      /\ it[2].version \in DOMAIN evict_file_map_ \ files_left
  BY DEF TypeOK, Position, MoveInv
<1>a. Read(file_data[it[2].version], it[2].offset) \in Values \cup {Garbage}
  BY <1>0, ReadType DEF TypeOK
<1>b. rec' \in Record /\ rec'.is_compaction /\ rec'.key = it[1]
  BY <1>0, <1>a
<1>1. TypeOK'
  BY <1>b DEF TypeOK, PCs
<1>2. FilesInv'
  BY DEF FilesInv, TypeOK
<1>3. PositionInv'
  BY DEF PositionInv, FilesInv, MoveInv, Moving, Saving, TypeOK
<1>4. BufferInv'
  BY DEF BufferInv
<1>5. SaveInv'
  BY <1>b DEF SaveInv, Saving, TypeOK
<1>6. MoveInv'
  <2>1. \A x \in items_left' : x[1] # it[1]
    <3> SUFFICES ASSUME NEW x \in items_left', x[1] = it[1] PROVE FALSE
      OBVIOUS
    <3>1. x \in Item /\ hash_map_[x[1]] = x[2]
      BY DEF TypeOK, MoveInv
    <3>2. x = it
      BY <3>1, <1>0
    <3> QED BY <3>2
  <2>2. it[2] # NULL
    BY <1>0, NULLAssumption
  <2>3. Saving' /\ Moving' /\ ~Saving /\ Moving
    BY <1>b DEF Saving, Moving
  <2>4. \A k \in Keys : LET p == hash_map_[k] IN
          p # NULL /\ p.version \in DOMAIN evict_file_map_ =>
            \/ p.version \in files_left /\ <<k, p>> \in evict_file_map_[p.version]
            \/ <<k, p>> \in items_left'
            \/ rec'.key = k
    BY <1>b, <2>3 DEF MoveInv
  <2> QED BY <1>0, <1>b, <2>1, <2>2, <2>3, <2>4 DEF MoveInv
<1>7. StoreUnchanged
  BY DEF StoreUnchanged, Lookup, Contents
<1> QED BY <1>1, <1>2, <1>3, <1>4, <1>5, <1>6, <1>7

\* MoveToNewFile is done with a file.
LEMMA EndOfFileStep ==
  ASSUME IInv, EndOfFile PROVE IInv' /\ StoreUnchanged
<1> USE MaxAppCountAssumption, MaxFilesAssumption DEF IInv, EndOfFile, fileVars,
        bufferVars, evictVars, loopVars
<1>1. TypeOK'
  BY NULLAssumption, SMTT(60) DEF TypeOK, PCs
<1>2. FilesInv'
  BY DEF FilesInv, TypeOK
<1>3. PositionInv'
  BY DEF PositionInv, FilesInv, MoveInv, Moving, Saving, TypeOK
<1>4. BufferInv'
  BY DEF BufferInv
<1>5. SaveInv'
  BY NULLAssumption DEF SaveInv, Saving, TypeOK
<1>6. MoveInv'
  BY DEF MoveInv, Moving, Saving, TypeOK
<1>7. StoreUnchanged
  BY DEF StoreUnchanged, Lookup, Contents
<1> QED BY <1>1, <1>2, <1>3, <1>4, <1>5, <1>6, <1>7

\* Compaction returns: no key points into a compacted file any more.
LEMMA EndOfCompactionStep ==
  ASSUME IInv, EndOfCompaction PROVE IInv' /\ StoreUnchanged
<1> USE MaxAppCountAssumption, MaxFilesAssumption DEF IInv, EndOfCompaction, fileVars,
        bufferVars, evictVars, loopVars
<1>1. TypeOK'
  BY NULLAssumption, SMTT(60) DEF TypeOK, PCs
<1>2. FilesInv'
  BY DEF FilesInv, TypeOK
<1>3. PositionInv'
  BY DEF PositionInv, FilesInv, MoveInv, Moving, Saving, TypeOK
<1>4. BufferInv'
  BY DEF BufferInv
<1>5. SaveInv'
  BY NULLAssumption DEF SaveInv, Saving, TypeOK
<1>6. MoveInv'
  BY DEF MoveInv, Moving, Saving, TypeOK
<1>7. StoreUnchanged
  BY DEF StoreUnchanged, Lookup, Contents
<1> QED BY <1>1, <1>2, <1>3, <1>4, <1>5, <1>6, <1>7

\* BatchCommit turns to its next record.
LEMMA NextRecordStep ==
  ASSUME IInv, NextRecord PROVE IInv' /\ StoreUnchanged
<1> USE MaxAppCountAssumption, MaxFilesAssumption DEF IInv, NextRecord, fileVars,
        bufferVars, evictVars, loopVars, Record
<1>1. TypeOK'
  BY HeadTailProperties, NULLAssumption, SMTT(60) DEF TypeOK, PCs
<1>2. FilesInv'
  BY DEF FilesInv, TypeOK
<1>3. PositionInv'
  BY DEF PositionInv, FilesInv, MoveInv, Moving, Saving, TypeOK
<1>4. BufferInv'
  BY DEF BufferInv
<1>5. SaveInv'
  BY HeadTailProperties, NULLAssumption DEF SaveInv, Saving, TypeOK
<1>6. MoveInv'
  BY DEF MoveInv, Moving, Saving, TypeOK
<1>7. StoreUnchanged
  BY DEF StoreUnchanged, Lookup, Contents
<1> QED BY <1>1, <1>2, <1>3, <1>4, <1>5, <1>6, <1>7

\* BatchCommit returns.
LEMMA EndOfCommitStep ==
  ASSUME IInv, EndOfCommit PROVE IInv' /\ StoreUnchanged
<1> USE MaxAppCountAssumption, MaxFilesAssumption DEF IInv, EndOfCommit, fileVars,
        bufferVars, evictVars, loopVars
<1>1. TypeOK'
  BY NULLAssumption, SMTT(60) DEF TypeOK, PCs
<1>2. FilesInv'
  BY DEF FilesInv, TypeOK
<1>3. PositionInv'
  BY DEF PositionInv, FilesInv, MoveInv, Moving, Saving, TypeOK
<1>4. BufferInv'
  BY DEF BufferInv
<1>5. SaveInv'
  BY NULLAssumption DEF SaveInv, Saving, TypeOK
<1>6. MoveInv'
  BY DEF MoveInv, Moving, Saving, TypeOK
<1>7. StoreUnchanged
  BY DEF StoreUnchanged, Lookup, Contents
<1> QED BY <1>1, <1>2, <1>3, <1>4, <1>5, <1>6, <1>7

\* CheckBuffer writes the buffer: every record lands at the offset its position
\* was given, although the positions do not say so yet.
LEMMA WriteBufferStep ==
  ASSUME IInv, WriteBuffer PROVE IInv' /\ StoreUnchanged
<1> USE MaxAppCountAssumption, MaxFilesAssumption DEF IInv, WriteBuffer,
        evictVars, loopVars
<1> DEFINE cv == current_version_
           old == file_data[cv]
           new == Write(old, write_buffer_, buffer_cur_)
<1>0. /\ old \in Seq(Values \cup {Garbage})
      /\ Len(old) \in Nat
      /\ cv \in Versions
      /\ buffer_cur_ \in Nat /\ current_offset_ \in Nat
  BY LenProperties DEF TypeOK, Versions
<1>1. /\ new \in Seq(Values \cup {Garbage})
      /\ Len(new) = Len(old) + buffer_cur_
      /\ \A i \in 1..Len(old) : new[i] = old[i]
      /\ \A i \in 0..(buffer_cur_ - 1) : new[Len(old) + i + 1] = write_buffer_[i]
  <2>1. /\ write_buffer_ \in [Slots -> Values \cup {Garbage}]
        /\ buffer_cur_ \in 0..MaxAppCount
    BY DEF TypeOK
  <2> HIDE DEF old
  <2> QED BY ONLY <1>0, <2>1, WriteProperties, SMTT(60) DEF new
<1>2. /\ file_data' = [file_data EXCEPT ![cv] = new]
      /\ \A v \in Versions : v # cv => file_data'[v] = file_data[v]
      /\ file_data'[cv] = new
  BY <1>0 DEF TypeOK
<1> HIDE DEF new, old
<1>3. TypeOK'
  <2>1. file_data' \in [Versions -> Seq(Values \cup {Garbage})]
    BY <1>0, <1>1, <1>2 DEF TypeOK
  <2>2. current_version_' \in Versions /\ current_offset_' \in Nat
    BY SMTT(60) DEF TypeOK, Versions
  <2> QED BY <2>1, <2>2 DEF TypeOK, PCs
<1>4. current_offset_ = Len(old) + buffer_cur_
  BY DEF FilesInv, old
<1>5. \/ current_version_' = cv /\ current_offset_' = current_offset_
      \/ /\ current_version_' = cv + 1 /\ current_offset_' = 0
         /\ cv + 1 \in Versions
  BY <1>0 DEF Versions
<1>6. FilesInv'
  <2>1. current_offset_' = Len(file_data'[current_version_'])
    <3>1. CASE current_version_' = cv /\ current_offset_' = current_offset_
      BY <3>1, <1>1, <1>2, <1>4
    <3>2. CASE /\ current_version_' = cv + 1 /\ current_offset_' = 0
               /\ cv + 1 \in Versions
      <4>1. file_data'[cv + 1] = <<>>
        BY <3>2, <1>0, <1>2 DEF FilesInv, Versions
      <4> QED BY <4>1, <3>2, EmptySeq
    <3> QED BY <1>5, <3>1, <3>2
  <2>2. \A v \in Versions : v > current_version_' => file_data'[v] = <<>>
    BY <1>0, <1>2, <1>5 DEF FilesInv, Versions
  <2>3. \A v \in deleted \cup evict_file_set_ \cup DOMAIN evict_file_map_ :
          v < current_version_'
    <3>1. \A v \in deleted \cup evict_file_set_ \cup DOMAIN evict_file_map_ :
            v \in Int /\ v < cv
      BY DEF FilesInv, Versions, TypeOK
    <3> QED BY <3>1, <1>0, <1>5 DEF Versions
  <2> QED BY <2>1, <2>2, <2>3 DEF FilesInv
<1>7. \A v \in Versions : \A o \in Nat : o < Len(file_data[v]) =>
        /\ o < Len(file_data'[v])
        /\ file_data'[v][o + 1] = file_data[v][o + 1]
  <2> SUFFICES ASSUME NEW v \in Versions, NEW o \in Nat, o < Len(file_data[v])
               PROVE  /\ o < Len(file_data'[v])
                      /\ file_data'[v][o + 1] = file_data[v][o + 1]
    OBVIOUS
  <2>1. CASE v # cv
    BY <2>1, <1>2
  <2>2. CASE v = cv
    <3>1. o < Len(old) /\ o + 1 \in 1..Len(old)
      BY <2>2, <1>0 DEF old
    <3>2. file_data[v] = old /\ file_data'[v] = new
      BY <2>2, <1>2 DEF old
    <3> QED BY <3>1, <3>2, <1>0, <1>1
  <2> QED BY <2>1, <2>2
<1>8. PositionInv'
  <2>1. \A p \in flushed_ : p.offset < Len(file_data'[p.version])
    BY <1>7 DEF PositionInv, TypeOK, Position
  <2>2. ASSUME NEW k \in Keys, hash_map_[k] # NULL
        PROVE  LET p == hash_map_[k] IN
                 /\ p.version <= current_version_'
                 /\ p.version \notin deleted
                 /\ p \notin flushed_ =>
                      /\ p.version \notin evict_file_set_
                                            \cup DOMAIN evict_file_map_
                      /\ p.buffer_offset < buffer_cur_
                      /\ key_buffer_[p.buffer_offset] = k
                      /\ p.offset < Len(file_data'[p.version])
                      /\ file_data'[p.version][p.offset + 1] =
                           write_buffer_[p.buffer_offset]
    <3> DEFINE p == hash_map_[k]
    <3>1. /\ p \in Position /\ p.version \in Versions /\ p.offset \in Nat
          /\ p.buffer_offset \in Nat
      BY <2>2 DEF TypeOK, Position
    <3>2. p.version <= current_version_'
      BY <2>2, <3>1, <1>0, <1>5 DEF PositionInv, Versions
    <3>3. ASSUME p \notin flushed_
          PROVE  /\ p.offset < Len(file_data'[p.version])
                 /\ file_data'[p.version][p.offset + 1] =
                      write_buffer_[p.buffer_offset]
      <4>1. /\ p.version = cv
            /\ p.offset = Len(old) + p.buffer_offset
            /\ p.buffer_offset < buffer_cur_
        BY <3>3, <2>2 DEF PositionInv, old
      <4>2. p.buffer_offset \in 0..(buffer_cur_ - 1)
        BY <4>1, <3>1, <1>0
      <4>3. file_data'[p.version] = new
        BY <4>1, <1>2
      <4>4. p.offset < Len(new)
        BY <4>1, <3>1, <1>0, <1>1
      <4>5. new[p.offset + 1] = write_buffer_[p.buffer_offset]
        BY <4>1, <4>2, <1>1
      <4> QED BY <4>3, <4>4, <4>5
    <3> QED BY <2>2, <3>2, <3>3 DEF PositionInv
  <2> QED BY <2>1, <2>2 DEF PositionInv
<1>9. BufferInv'
  BY DEF BufferInv
<1>10. SaveInv'
  BY DEF SaveInv, Saving
<1>11. MoveInv'
  <2>1. Saving /\ Saving' /\ (Moving' <=> Moving)
    BY DEF Saving, Moving
  <2>2. rec.is_compaction => LET p == hash_map_[rec.key] IN
          Read(file_data'[p.version], p.offset) =
            Read(file_data[p.version], p.offset)
    <3> SUFFICES ASSUME rec.is_compaction
                 PROVE  file_data'[hash_map_[rec.key].version] =
                          file_data[hash_map_[rec.key].version]
      OBVIOUS
    <3>1. /\ hash_map_[rec.key].version \in DOMAIN evict_file_map_
          /\ hash_map_[rec.key].version \in Versions
      BY <2>1 DEF MoveInv, TypeOK
    <3>2. hash_map_[rec.key].version # cv
      BY <3>1, <1>0 DEF FilesInv, Versions
    <3> QED BY <3>1, <3>2, <1>2
  <2> QED BY <2>1, <2>2 DEF MoveInv
<1>12. StoreUnchanged
  <2> SUFFICES ASSUME NEW k \in Keys, hash_map_[k] # NULL,
                      hash_map_[k] \in flushed_
               PROVE  Read(file_data'[hash_map_[k].version],
                           hash_map_[k].offset) =
                      Read(file_data[hash_map_[k].version],
                           hash_map_[k].offset)
    BY DEF StoreUnchanged, Lookup, Contents
  <2> QED BY <1>7 DEF Read, PositionInv, TypeOK, Position
<1> QED BY <1>3, <1>6, <1>8, <1>9, <1>10, <1>11, <1>12

\* UpdateFlushStatus switches the buffered keys from the buffer to the file,
\* where the same records are.
LEMMA UpdateFlushStatusStep ==
  ASSUME IInv, UpdateFlushStatus PROVE IInv' /\ StoreUnchanged
<1> USE MaxAppCountAssumption, MaxFilesAssumption DEF IInv, UpdateFlushStatus,
        fileVars, evictVars, loopVars
<1>0. buffer_cur_ \in Nat
  BY DEF TypeOK
<1>1. \A i \in 0..(buffer_cur_ - 1) :
        /\ hash_map_[key_buffer_[i]] \in Position
        /\ hash_map_[key_buffer_[i]].offset <
             Len(file_data[hash_map_[key_buffer_[i]].version])
  <2> SUFFICES ASSUME NEW i \in 0..(buffer_cur_ - 1)
               PROVE  LET p == hash_map_[key_buffer_[i]] IN
                      p \in Position /\ p.offset < Len(file_data[p.version])
    OBVIOUS
  <2>1. key_buffer_[i] \in Keys /\ hash_map_[key_buffer_[i]] # NULL
    BY DEF BufferInv
  <2>2. hash_map_[key_buffer_[i]] \in Position
    BY <2>1 DEF TypeOK
  <2> QED BY <2>1, <2>2 DEF PositionInv
<1>2. TypeOK'
  BY <1>1, SMTT(60) DEF TypeOK, PCs
<1>3. FilesInv'
  BY DEF FilesInv, TypeOK
<1>4. \A k \in Keys : hash_map_[k] # NULL => hash_map_[k] \in flushed_'
  <2> SUFFICES ASSUME NEW k \in Keys, hash_map_[k] # NULL,
                      hash_map_[k] \notin flushed_
               PROVE  hash_map_[k] \in flushed_'
    OBVIOUS
  <2>1. /\ hash_map_[k].buffer_offset \in 0..(buffer_cur_ - 1)
        /\ key_buffer_[hash_map_[k].buffer_offset] = k
    BY <1>0 DEF PositionInv, TypeOK, Position
  <2> QED BY <2>1
<1>5. PositionInv'
  BY <1>1, <1>4 DEF PositionInv
<1>6. BufferInv'
  BY DEF BufferInv
<1>7. SaveInv'
  BY DEF SaveInv, Saving
<1>8. MoveInv'
  BY DEF MoveInv, Moving, Saving
<1>9. StoreUnchanged
  <2> SUFFICES ASSUME NEW k \in Keys, hash_map_[k] # NULL,
                      hash_map_[k] \notin flushed_
               PROVE  Read(file_data[hash_map_[k].version],
                           hash_map_[k].offset) =
                      write_buffer_[hash_map_[k].buffer_offset]
    BY <1>4 DEF StoreUnchanged, Lookup, Contents
  <2> QED BY DEF PositionInv, Read
<1> QED BY <1>2, <1>3, <1>5, <1>6, <1>7, <1>8, <1>9

\* AppendToWriteBuffer overwrites a slot no position refers to.
LEMMA AppendToWriteBufferStep ==
  ASSUME IInv, AppendToWriteBuffer PROVE IInv' /\ StoreUnchanged
<1> USE MaxAppCountAssumption, MaxFilesAssumption DEF IInv,
        AppendToWriteBuffer, fileVars, evictVars, loopVars
<1>0. /\ buffer_cur_ \in Nat /\ buffer_cur_ < MaxAppCount
      /\ current_offset_ \in Nat
      /\ buffer_cur_ \in Slots
      /\ current_version_ \in Versions
  BY SMTT(60) DEF TypeOK, FilesInv, BufferFull, Slots
<1>1. rec \in Record /\ Saving /\ Saving' /\ (Moving' <=> Moving)
  BY DEF SaveInv, Saving, Moving
<1>2. TypeOK'
  <2>1. ep' \in Position
    BY <1>0 DEF Position
  <2>2. /\ write_buffer_' \in [Slots -> Values \cup {Garbage}]
        /\ key_buffer_' \in [Slots -> Keys \cup {Garbage}]
    BY <1>0, <1>1 DEF TypeOK, Record
  <2>3. buffer_cur_' \in 0..MaxAppCount /\ current_offset_' \in Nat
    BY <1>0
  <2> QED BY <2>1, <2>2, <2>3 DEF TypeOK, PCs
<1>3. FilesInv'
  <2>1. pc # "update_flush_status" /\ pc' # "update_flush_status"
    OBVIOUS
  <2>2. Len(file_data[current_version_]) \in Nat
    BY LenProperties, <1>0 DEF TypeOK
  <2> QED BY <1>0, <2>1, <2>2 DEF FilesInv
<1>4. \A i \in 0..(buffer_cur_ - 1) :
        /\ write_buffer_'[i] = write_buffer_[i]
        /\ key_buffer_'[i] = key_buffer_[i]
  BY <1>0 DEF TypeOK, Slots
<1>5. /\ write_buffer_'[buffer_cur_] = rec.value
      /\ key_buffer_'[buffer_cur_] = rec.key
  BY <1>0 DEF TypeOK
<1>6. \A k \in Keys : hash_map_[k] # NULL /\ hash_map_[k] \notin flushed_ =>
        /\ hash_map_[k].buffer_offset \in 0..(buffer_cur_ - 1)
        /\ hash_map_[k].buffer_offset < buffer_cur_'
  BY <1>0, SMTT(60) DEF PositionInv, TypeOK, Position
<1>7. PositionInv'
  BY <1>4, <1>6 DEF PositionInv
<1>8. BufferInv'
  <2> SUFFICES ASSUME NEW i \in 0..(buffer_cur_' - 1)
               PROVE  /\ key_buffer_'[i] \in Keys
                      /\ hash_map_[key_buffer_'[i]] # NULL
                           \/ i = buffer_cur_' - 1
    BY DEF BufferInv
  <2>1. CASE i = buffer_cur_
    BY <2>1, <1>0, <1>1, <1>5 DEF Record
  <2>2. CASE i # buffer_cur_
    <3>1. i \in 0..(buffer_cur_ - 1)
      BY <2>2, <1>0
    <3> QED BY <3>1, <1>4 DEF BufferInv
  <2> QED BY <2>1, <2>2
<1>9. SaveInv'
  BY <1>0, <1>1, <1>5 DEF SaveInv
<1>10. MoveInv'
  BY <1>1 DEF MoveInv
<1>11. StoreUnchanged
  BY <1>4, <1>6 DEF StoreUnchanged, Lookup, Contents
<1> QED BY <1>2, <1>3, <1>7, <1>8, <1>9, <1>10, <1>11

\* Publish of a record moved by compaction changes no lookup, Publish of a
\* committed record is a Commit of the abstract store.
LEMMA PublishStep ==
  ASSUME IInv, Publish
  PROVE  /\ IInv'
         /\ rec.is_compaction => StoreUnchanged
         /\ ~rec.is_compaction =>
              /\ rec.key \in Keys /\ rec.value \in Values
              /\ \A k \in Keys : Lookup(k)' =
                   IF k = rec.key THEN rec.value ELSE Lookup(k)
<1> USE MaxAppCountAssumption, MaxFilesAssumption DEF IInv, bufferVars, loopVars
<1> DEFINE key == rec.key
           old == hash_map_[key]
<1>0. /\ pc = "publish" /\ pc' \in {"move_item", "next_record"}
      /\ pc' = "move_item" <=> rec.is_compaction
      /\ hash_map_' = [hash_map_ EXCEPT ![key] = ep]
      /\ UNCHANGED <<flushed_, file_data, deleted, current_version_,
                     current_offset_, buffer_cur_, write_buffer_, key_buffer_,
                     total_app_count_, evict_file_map_, batch, files_left,
                     items_left, rec, ep>>
  BY DEF Publish
<1>1. /\ Saving /\ ~Saving' /\ rec \in Record /\ key \in Keys
      /\ rec.is_compaction \in BOOLEAN
      /\ rec.value \in Values \cup {Garbage}
      /\ (Moving <=> rec.is_compaction) /\ (Moving' <=> rec.is_compaction)
  BY <1>0 DEF SaveInv, Saving, Moving, Record
<1>2. /\ buffer_cur_ \in Nat /\ buffer_cur_ > 0 /\ buffer_cur_ <= MaxAppCount
      /\ ep = [version |-> current_version_, offset |-> current_offset_ - 1,
               buffer_offset |-> buffer_cur_ - 1]
      /\ key_buffer_[buffer_cur_ - 1] = key
      /\ write_buffer_[buffer_cur_ - 1] = rec.value
      /\ current_version_ \in Versions
      /\ Len(file_data[current_version_]) \in Nat
      /\ current_offset_ = Len(file_data[current_version_]) + buffer_cur_
  BY <1>0, LenProperties DEF SaveInv, FilesInv, TypeOK
<1>3. ep \in Position /\ ep # NULL /\ ep.version = current_version_
  BY <1>2, NULLAssumption DEF Position
<1>4. ep \notin flushed_
  BY <1>2, <1>3 DEF PositionInv
<1>5. /\ hash_map_'[key] = ep
      /\ \A k \in Keys : k # key => hash_map_'[k] = hash_map_[k]
  BY <1>0, <1>1 DEF TypeOK
<1>6. /\ evict_file_set_ \subseteq evict_file_set_'
      /\ \A v \in evict_file_set_' : v \in evict_file_set_ \/
           (old # NULL /\ v = old.version /\ v # current_version_)
  BY DEF Publish
<1>7. old # NULL => old \in Position /\ old.version \in Versions
                    /\ old.version <= current_version_
  BY <1>1 DEF TypeOK, Position, PositionInv
<1>8. TypeOK'
  <2>1. hash_map_' \in [Keys -> Position \cup {NULL}]
    BY <1>0, <1>1, <1>3 DEF TypeOK
  <2>2. file_count' \in [Versions -> Nat]
    <3>1. file_count' = [file_count EXCEPT ![ep.version] =
                           file_count[ep.version] + 1]
      BY DEF Publish
    <3>2. file_count \in [Versions -> Nat] /\ ep.version \in Versions
      BY <1>2, <1>3 DEF TypeOK
    <3> QED BY ONLY <3>1, <3>2
  <2>3. file_invalid' \in [Versions -> Nat]
    <3>1. \/ file_invalid' = file_invalid
          \/ file_invalid' = [file_invalid EXCEPT ![old.version] =
                                file_invalid[old.version] + 1]
      BY DEF Publish
    <3>2. file_invalid \in [Versions -> Nat]
      BY DEF TypeOK
    <3> QED BY ONLY <3>1, <3>2
  <2>4. evict_file_set_' \subseteq Versions
    BY <1>6, <1>7 DEF TypeOK
  <2> QED BY <1>0, <2>1, <2>2, <2>3, <2>4 DEF TypeOK, PCs
<1>9. FilesInv'
  <2>1. \A v \in evict_file_set_' : v < current_version_
    BY <1>2, <1>6, <1>7 DEF FilesInv, Versions
  <2> QED BY <1>0, <2>1 DEF FilesInv
<1>10. \A k \in Keys : hash_map_'[k] # NULL /\ hash_map_'[k] \notin flushed_ =>
         hash_map_'[k].version = current_version_
  BY <1>0, <1>3, <1>5 DEF PositionInv
<1>11. PositionInv'
  <2>1. ASSUME NEW k \in Keys, hash_map_'[k] # NULL
        PROVE  LET p == hash_map_'[k] IN
                 /\ p.version <= current_version_
                 /\ p.version \notin deleted
                 /\ p \notin flushed_ =>
                      /\ p.version \notin evict_file_set_'
                                            \cup DOMAIN evict_file_map_
                      /\ p.buffer_offset < buffer_cur_
                      /\ key_buffer_[p.buffer_offset] = k
                      /\ p.version = current_version_
                      /\ p.offset = Len(file_data[current_version_]) +
                                      p.buffer_offset
    <3>1. current_version_ \notin deleted \cup evict_file_set_'
                                          \cup DOMAIN evict_file_map_
      BY <1>2, <1>0, <1>9 DEF FilesInv, Versions
    <3>2. CASE k = key
      BY <3>1, <3>2, <1>2, <1>3, <1>5 DEF Versions
    <3>3. CASE k # key
      BY <3>1, <3>3, <2>1, <1>0, <1>5, <1>10 DEF PositionInv
    <3> QED BY <3>2, <3>3
  <2> QED BY <2>1, <1>0 DEF PositionInv
<1>12. BufferInv'
  BY <1>0, <1>1, <1>2, <1>3, <1>5 DEF BufferInv
<1>13. SaveInv'
  BY <1>0, <1>1 DEF SaveInv
<1>14. current_version_ \notin DOMAIN evict_file_map_
  BY <1>2 DEF FilesInv, Versions
<1>15. MoveInv'
  <2>1. CASE ~rec.is_compaction
    <3>1. files_left = {} /\ items_left = {}
      BY <2>1, <1>1 DEF MoveInv
    <3>2. \A k \in Keys : hash_map_'[k] # NULL =>
            hash_map_'[k].version \notin DOMAIN evict_file_map_
      BY <2>1, <3>1, <1>0, <1>3, <1>5, <1>14 DEF MoveInv
    <3> QED BY <2>1, <3>1, <3>2, <1>0, <1>1 DEF MoveInv
  <2>2. CASE rec.is_compaction
    <3>1. old # NULL /\ old.version \in DOMAIN evict_file_map_ \ files_left
      BY <2>2, <1>1 DEF MoveInv
    <3>2. \A v \in files_left : \A it \in evict_file_map_[v] :
            hash_map_'[it[1]] = it[2] /\ it[2].version = v
      <4> SUFFICES ASSUME NEW v \in files_left, NEW it \in evict_file_map_[v]
                   PROVE  hash_map_'[it[1]] = it[2] /\ it[2].version = v
        OBVIOUS
      <4>1. hash_map_[it[1]] = it[2] /\ it[2].version = v
        BY DEF MoveInv
      <4>2. it[1] \in Keys
        BY DEF MoveInv, TypeOK, Item
      <4>3. it[1] # key
        BY <4>1, <3>1
      <4> QED BY <4>1, <4>2, <4>3, <1>5
    <3>3. \A it \in items_left :
            /\ hash_map_'[it[1]] = it[2]
            /\ it[2].version \in DOMAIN evict_file_map_ \ files_left
      <4> SUFFICES ASSUME NEW it \in items_left
                   PROVE  /\ hash_map_'[it[1]] = it[2]
                          /\ it[2].version \in DOMAIN evict_file_map_
                                                 \ files_left
        OBVIOUS
      <4>1. it[1] \in Keys
        BY DEF TypeOK, Item
      <4> QED BY <4>1, <1>1, <1>5 DEF MoveInv
    <3>4. \A k \in Keys : LET p == hash_map_'[k] IN
            p # NULL /\ p.version \in DOMAIN evict_file_map_ =>
              \/ p.version \in files_left
                   /\ <<k, p>> \in evict_file_map_[p.version]
              \/ <<k, p>> \in items_left
      <4> SUFFICES ASSUME NEW k \in Keys, hash_map_'[k] # NULL,
                          hash_map_'[k].version \in DOMAIN evict_file_map_
                   PROVE  LET p == hash_map_'[k] IN
                          \/ p.version \in files_left
                               /\ <<k, p>> \in evict_file_map_[p.version]
                          \/ <<k, p>> \in items_left
        OBVIOUS
      <4>1. k # key /\ hash_map_'[k] = hash_map_[k]
        BY <1>3, <1>5, <1>14
      <4> QED BY <4>1, <1>0 DEF MoveInv
    <3> QED BY <2>2, <3>2, <3>3, <3>4, <1>0, <1>1 DEF MoveInv
  <2> QED BY <2>1, <2>2, <1>1
<1>16. \A k \in Keys : Lookup(k)' = IF k = key THEN rec.value ELSE Lookup(k)
  BY <1>0, <1>2, <1>3, <1>4, <1>5 DEF Lookup, Contents
<1>17. rec.is_compaction => StoreUnchanged
  <2> SUFFICES ASSUME rec.is_compaction PROVE Lookup(key) = rec.value
    BY <1>16 DEF StoreUnchanged
  <2>1. /\ old # NULL /\ old.version \in DOMAIN evict_file_map_
        /\ rec.value = Read(file_data[old.version], old.offset)
    BY <1>1 DEF MoveInv
  <2>2. old \in flushed_
    BY <2>1, <1>1 DEF PositionInv
  <2> QED BY <2>1, <2>2 DEF Lookup, Contents
<1>18. ~rec.is_compaction => rec.value \in Values
  BY <1>1 DEF SaveInv
<1> QED BY <1>1, <1>8, <1>9, <1>11, <1>12, <1>13, <1>15, <1>16, <1>17, <1>18

\* A stuttering step preserves the invariant and every lookup.
LEMMA StutterStep ==
  ASSUME IInv, UNCHANGED vars PROVE IInv' /\ StoreUnchanged
<1> USE DEF vars, fileVars, bufferVars, evictVars, loopVars, IInv
<1>1. TypeOK'
  BY DEF TypeOK
<1>2. FilesInv' /\ PositionInv' /\ BufferInv' /\ SaveInv' /\ MoveInv'
  BY DEF FilesInv, PositionInv, BufferInv, SaveInv, MoveInv, Saving, Moving
<1>3. StoreUnchanged
  BY DEF StoreUnchanged, Lookup, Contents
<1> QED BY <1>1, <1>2, <1>3

-----------------------------------------------------------------------------
(* The theorems.                                                           *)

AbstractStore == [k \in Keys |-> Lookup(k)]
StorePreserved == UNCHANGED <<AbstractStore, Pending>>

\* A record and the batch that follows it.
LEMMA ConsProperties ==
  ASSUME NEW S, NEW r \in S, NEW s \in Seq(S)
  PROVE  /\ <<r>> \o s # <<>>
         /\ Head(<<r>> \o s) = r
         /\ Tail(<<r>> \o s) = s
<1>1. /\ <<r>> \in Seq(S) /\ Len(<<r>>) = 1 /\ <<r>>[1] = r
      /\ Len(s) \in Nat
  BY LenProperties
<1> DEFINE t == <<r>> \o s
<1>2. /\ t \in Seq(S) /\ Len(t) = Len(s) + 1 /\ t[1] = r
      /\ \A i \in 1..Len(s) : t[i + 1] = s[i]
  BY <1>1, ConcatProperties
<1>3. t # <<>>
  BY <1>1, <1>2
<1>4. Head(t) = r
  BY <1>2, <1>3
<1>5. /\ Tail(t) \in Seq(S) /\ Len(Tail(t)) = Len(s)
      /\ \A i \in 1..Len(s) : Tail(t)[i] = s[i]
  BY <1>1, <1>2, <1>3, HeadTailProperties
<1>6. Tail(t) = s
  BY <1>5, SeqEqual
<1> QED BY <1>3, <1>4, <1>6

\* Taking the head off a batch, as NextRecord does, and putting it back.
LEMMA HeadTailCons ==
  ASSUME NEW S, NEW s \in Seq(S), s # <<>>
  PROVE  /\ Head(s) \in S /\ Tail(s) \in Seq(S)
         /\ <<Head(s)>> \o Tail(s) = s
<1>1. /\ Head(s) \in S /\ Tail(s) \in Seq(S) /\ Len(Tail(s)) = Len(s) - 1
      /\ \A i \in 1..Len(Tail(s)) : Tail(s)[i] = s[i + 1]
      /\ Len(s) \in Nat /\ Len(s) > 0 /\ Head(s) = s[1]
  BY HeadTailProperties, LenProperties, EmptySeq
<1> DEFINE t == <<Head(s)>> \o Tail(s)
<1>2. /\ <<Head(s)>> \in Seq(S) /\ Len(<<Head(s)>>) = 1
      /\ <<Head(s)>>[1] = Head(s)
  BY <1>1
<1>3. /\ t \in Seq(S) /\ Len(t) = Len(s) /\ t[1] = s[1]
      /\ \A i \in 2..Len(s) : t[i] = s[i]
  BY <1>1, <1>2, ConcatProperties
<1>4. \A i \in 1..Len(s) : t[i] = s[i]
  BY <1>1, <1>3
<1>5. t = s
  BY <1>3, <1>4, SeqEqual
<1> QED BY <1>1, <1>5

\* A step that neither begins a commit nor publishes one of its records leaves
\* the records to be committed as they are.
LEMMA PendingStep ==
  ASSUME IInv,
         \/ InitializeEvictMap \/ (\E v \in Versions : MoveFile(v))
         \/ (\E it \in items_left : MoveItem(it)) \/ EndOfFile
         \/ EndOfCompaction \/ NextRecord \/ EndOfCommit \/ WriteBuffer
         \/ UpdateFlushStatus \/ AppendToWriteBuffer
         \/ (Publish /\ rec.is_compaction)
  PROVE  UNCHANGED Pending
<1> USE DEF Pending, Saving
<1>1. CASE NextRecord
  <2>1. batch \in Seq(Keys \X Values) /\ batch # <<>>
    BY <1>1 DEF NextRecord, IInv, TypeOK
  <2>2. Head(batch) \in Keys \X Values /\ <<Head(batch)>> \o Tail(batch) = batch
    BY <2>1, HeadTailCons
  <2>3. Head(batch) = <<Head(batch)[1], Head(batch)[2]>>
    BY <2>2
  <2>4. Pending = batch
    BY <1>1 DEF NextRecord
  <2>5. Pending' = <<<<Head(batch)[1], Head(batch)[2]>>>> \o Tail(batch)
    BY <1>1 DEF NextRecord
  <2> QED BY <2>2, <2>3, <2>4, <2>5
<1>2. CASE InitializeEvictMap
  BY <1>2 DEF InitializeEvictMap, loopVars
<1>3. CASE \E v \in Versions : MoveFile(v)
  BY <1>3 DEF MoveFile, loopVars
<1>4. CASE \E it \in items_left : MoveItem(it)
  BY <1>4 DEF MoveItem, loopVars
<1>5. CASE EndOfFile
  BY <1>5 DEF EndOfFile, loopVars
<1>6. CASE EndOfCompaction
  BY <1>6 DEF EndOfCompaction, loopVars
<1>7. CASE EndOfCommit
  BY <1>7 DEF EndOfCommit, loopVars
<1>8. CASE WriteBuffer
  BY <1>8 DEF WriteBuffer, loopVars
<1>9. CASE UpdateFlushStatus
  BY <1>9 DEF UpdateFlushStatus, loopVars
<1>10. CASE AppendToWriteBuffer
  BY <1>10 DEF AppendToWriteBuffer, loopVars
<1>11. CASE Publish /\ rec.is_compaction
  BY <1>11 DEF Publish, loopVars
<1> QED BY <1>1, <1>2, <1>3, <1>4, <1>5, <1>6, <1>7, <1>8, <1>9, <1>10, <1>11

\* A step of the store is a step of the abstract store, or leaves it alone.
LEMMA StepRefines ==
  ASSUME IInv, [Next]_vars
  PROVE  IInv' /\ (KV!Next \/ StorePreserved)
<1>1. StoreUnchanged => UNCHANGED AbstractStore
  BY DEF StoreUnchanged, AbstractStore
<1>2. ASSUME NEW b \in Batches, BatchCommit(b) PROVE IInv' /\ KV!Next
  <2>1. IInv' /\ UNCHANGED AbstractStore
    BY <1>1, <1>2, BatchCommitStep
  <2>2. Pending = <<>> /\ Pending' = b
    BY <1>2 DEF BatchCommit, IInv, SaveInv, Pending, Saving
  <2>3. b \in Seq(Keys \X Values)
    BY BatchType
  <2> QED BY <2>1, <2>2, <2>3 DEF KV!Next, KV!BatchCommit, AbstractStore
<1>3. CASE InitializeEvictMap
  BY <1>1, <1>3, InitializeEvictMapStep, PendingStep DEF StorePreserved
<1>4. CASE \E v \in Versions : MoveFile(v)
  BY <1>1, <1>4, MoveFileStep, PendingStep DEF StorePreserved
<1>5. CASE \E it \in items_left : MoveItem(it)
  BY <1>1, <1>5, MoveItemStep, PendingStep DEF StorePreserved
<1>6. CASE EndOfFile
  BY <1>1, <1>6, EndOfFileStep, PendingStep DEF StorePreserved
<1>7. CASE EndOfCompaction
  BY <1>1, <1>7, EndOfCompactionStep, PendingStep DEF StorePreserved
<1>8. CASE NextRecord
  BY <1>1, <1>8, NextRecordStep, PendingStep DEF StorePreserved
<1>9. CASE EndOfCommit
  BY <1>1, <1>9, EndOfCommitStep, PendingStep DEF StorePreserved
<1>10. CASE WriteBuffer
  BY <1>1, <1>10, WriteBufferStep, PendingStep DEF StorePreserved
<1>11. CASE UpdateFlushStatus
  BY <1>1, <1>11, UpdateFlushStatusStep, PendingStep DEF StorePreserved
<1>12. CASE AppendToWriteBuffer
  BY <1>1, <1>12, AppendToWriteBufferStep, PendingStep DEF StorePreserved
<1>13. CASE Publish
  <2>1. CASE rec.is_compaction
    BY <1>1, <1>13, <2>1, PublishStep, PendingStep DEF StorePreserved
  <2>2. CASE ~rec.is_compaction
    <3> DEFINE r == <<rec.key, rec.value>>
    <3>1. /\ IInv' /\ rec.key \in Keys /\ rec.value \in Values
          /\ \A k \in Keys : Lookup(k)' =
               IF k = rec.key THEN rec.value ELSE Lookup(k)
      BY <1>13, <2>2, PublishStep
    <3>2. AbstractStore' = [AbstractStore EXCEPT ![rec.key] = rec.value]
      BY <3>1 DEF AbstractStore
    <3>3. Pending = <<r>> \o batch /\ Pending' = batch
      BY <1>13, <2>2 DEF Publish, Pending, Saving, loopVars
    <3>4. batch \in Seq(Keys \X Values) /\ r \in Keys \X Values
      BY <3>1 DEF IInv, TypeOK
    <3>5. Pending # <<>> /\ Head(Pending) = r /\ Tail(Pending) = Pending'
      BY <3>3, <3>4, ConsProperties
    <3>6. r[1] = rec.key /\ r[2] = rec.value
      OBVIOUS
    <3>7. KV!Commit
      BY <3>2, <3>5, <3>6 DEF KV!Commit, AbstractStore
    <3> QED BY <3>1, <3>7 DEF KV!Next
  <2> QED BY <2>1, <2>2
<1>14. CASE UNCHANGED vars
  <2>1. UNCHANGED Pending
    BY <1>14 DEF vars, loopVars, Pending, Saving
  <2> QED BY <1>1, <1>14, <2>1, StutterStep DEF StorePreserved
<1> QED BY <1>2, <1>3, <1>4, <1>5, <1>6, <1>7, <1>8, <1>9, <1>10, <1>11,
           <1>12, <1>13, <1>14 DEF Next

\* The invariant that ties the positions of the hash map to the write buffer,
\* the files and the progress of MoveToNewFile holds in every state.
THEOREM InductiveInvariant == Spec => []IInv
<1>1. IInv /\ [Next]_vars => IInv'
  BY StepRefines
<1> QED BY InitIInv, <1>1, PTL DEF Spec

\* The state of SSDHashKV always has its types; in particular the write buffer
\* is never indexed outside of its max_app_count_ slots.
THEOREM TypeCorrect == Spec => []TypeOK
<1>1. IInv => TypeOK
  BY DEF IInv
<1> QED BY InductiveInvariant, <1>1, PTL

\* No key ever points into a file DeleteInvalidFiles has removed.
THEOREM NeverDangling == Spec => []NoDanglingPosition
<1>1. IInv => NoDanglingPosition
  BY DEF IInv, PositionInv, NoDanglingPosition
<1> QED BY InductiveInvariant, <1>1, PTL

\* TF_CHECK_OK(UpdateFlushStatus()) never aborts the process.
THEOREM FlushNeverAborts == Spec => []FlushFindsEveryKey
<1>1. IInv => FlushFindsEveryKey
  BY DEF IInv, BufferInv, FlushFindsEveryKey
<1> QED BY InductiveInvariant, <1>1, PTL

\* SSDHashKV with synchronous compaction implements the abstract map.
THEOREM Refinement == Spec => ImplementsKVStore
<1>1. Init => KV!Init
  BY DEF Init, KV!Init, Lookup, Pending, Saving
<1>2. IInv /\ [Next]_vars => [KV!Next]_(KV!kvVars)
  BY StepRefines DEF KV!kvVars, StorePreserved, AbstractStore
<1> QED BY InductiveInvariant, <1>1, <1>2, PTL
        DEF Spec, ImplementsKVStore, KV!Spec
-----------------------------------------------------------------------------
(* Two invariants that rest on IInv.                                       *)

\* A buffer that is written fills its file to the last record: the file being
\* written is empty on disk, its count_ is the number of buffered records that
\* are published, and CheckBuffer therefore begins a new file after every write.
SizeInv ==
  /\ \A v \in Versions : Len(file_data[v]) <= MaxAppCount
  /\ file_data[current_version_] = <<>>
  /\ \A v \in Versions : v > current_version_ => file_count[v] = 0
  /\ file_count[current_version_] =
       CASE pc = "update_flush_status" -> 0
         [] pc = "publish"             -> buffer_cur_ - 1
         [] OTHER                      -> buffer_cur_

\* Every step keeps the files within their mapping.
LEMMA SizeStep == ASSUME IInv, SizeInv, [Next]_vars PROVE SizeInv'
<1> USE MaxAppCountAssumption, MaxFilesAssumption
        DEF vars, fileVars, bufferVars, evictVars, loopVars
<1>a. TypeOK
  BY DEF IInv
<1>0. /\ TypeOK /\ buffer_cur_ \in Nat /\ current_version_ \in Versions
      /\ file_count \in [Versions -> Nat]
      /\ \A v \in Versions : v \in Nat
  <2>1. buffer_cur_ \in 0..MaxAppCount /\ current_version_ \in Versions
    BY <1>a DEF TypeOK
  <2>2. file_count \in [Versions -> Nat]
    BY <1>a DEF TypeOK
  <2> QED BY <1>a, <2>1, <2>2 DEF Versions
<1>1. CASE WriteBuffer
  <2>1. buffer_cur_ = MaxAppCount /\ pc = "check_buffer"
    BY <1>0, <1>1 DEF WriteBuffer, BufferFull, TypeOK
  <2>2. FileFull
    BY <2>1, <1>0 DEF SizeInv, FileFull
  <2>3. /\ current_version_' = current_version_ + 1
        /\ current_version_' \in Versions
        /\ file_count' = file_count /\ pc' = "update_flush_status"
    BY <2>2, <1>1, <1>0 DEF WriteBuffer, Versions
  <2>4. /\ file_data' = [file_data EXCEPT ![current_version_] =
                           Write(file_data[current_version_], write_buffer_,
                                 buffer_cur_)]
        /\ file_data[current_version_] = <<>>
    BY <1>1 DEF WriteBuffer, SizeInv
  <2>5. Len(file_data'[current_version_]) = buffer_cur_
    <3> DEFINE S == Values \cup {Garbage}
    <3>1. /\ file_data[current_version_] \in Seq(S)
          /\ write_buffer_ \in [Slots -> S]
          /\ buffer_cur_ \in 0..MaxAppCount
      BY <1>0 DEF TypeOK
    <3> HIDE DEF S
    <3>2. Len(Write(file_data[current_version_], write_buffer_, buffer_cur_)) =
            Len(file_data[current_version_]) + buffer_cur_
      BY ONLY <3>1, WriteProperties
    <3>3. Len(file_data[current_version_]) = 0
      BY <2>4
    <3>4. file_data'[current_version_] =
            Write(file_data[current_version_], write_buffer_, buffer_cur_)
      BY <2>4, <1>0 DEF TypeOK
    <3> QED BY <3>2, <3>3, <3>4, <1>0
  <2>6. \A v \in Versions : v # current_version_ => file_data'[v] = file_data[v]
    BY <2>4, <1>0 DEF TypeOK
  <2>7. \A v \in Versions : Len(file_data'[v]) <= MaxAppCount
    BY <2>1, <2>5, <2>6 DEF SizeInv
  <2>8. file_data'[current_version_'] = <<>>
    BY <2>3, <2>6, <1>0 DEF IInv, FilesInv
  <2>9. /\ file_count[current_version_'] = 0
        /\ \A v \in Versions : v > current_version_' => file_count[v] = 0
    BY <2>3, <1>0 DEF SizeInv
  <2> QED BY <2>3, <2>7, <2>8, <2>9 DEF SizeInv
<1>2. CASE UpdateFlushStatus
  BY <1>2 DEF UpdateFlushStatus, SizeInv
<1>3. CASE AppendToWriteBuffer
  BY <1>3, <1>0 DEF AppendToWriteBuffer, SizeInv
<1>4. CASE Publish
  <2>1. /\ pc = "publish" /\ pc' \in {"move_item", "next_record"}
        /\ ep.version = current_version_ /\ buffer_cur_ > 0
        /\ file_count' = [file_count EXCEPT ![ep.version] =
                            file_count[ep.version] + 1]
        /\ UNCHANGED <<file_data, current_version_, buffer_cur_>>
    BY <1>4 DEF Publish, IInv, SaveInv
  <2>2. /\ file_count'[current_version_] = buffer_cur_
        /\ \A v \in Versions :
             v # current_version_ => file_count'[v] = file_count[v]
    BY <2>1, <1>0 DEF SizeInv
  <2> QED BY <2>1, <2>2, <1>0 DEF SizeInv
<1>5. CASE \E b \in Batches : BatchCommit(b)
  BY <1>5 DEF BatchCommit, SizeInv
<1>6. CASE \E v \in Versions : MoveFile(v)
  BY <1>6 DEF MoveFile, SizeInv
<1>7. CASE \E it \in items_left : MoveItem(it)
  BY <1>7 DEF MoveItem, SizeInv
<1>8. CASE \/ InitializeEvictMap \/ EndOfFile \/ EndOfCompaction
           \/ NextRecord \/ EndOfCommit
  BY <1>8 DEF InitializeEvictMap, EndOfFile, EndOfCompaction, NextRecord,
              EndOfCommit, SizeInv
<1>9. CASE UNCHANGED vars
  BY <1>9 DEF SizeInv
<1> QED BY <1>1, <1>2, <1>3, <1>4, <1>5, <1>6, <1>7, <1>8, <1>9 DEF Next

\* No file ever outgrows the BUFFER_SIZE bytes EmbFile maps for reading, for
\* every record size and every sequence of commits.
THEOREM FilesFitTheirMapping == Spec => []FileFitsMapping
<1>1. Init => SizeInv
  BY MaxAppCountAssumption, MaxFilesAssumption DEF Init, SizeInv, Versions
<1>2. IInv /\ SizeInv /\ [Next]_vars => SizeInv'
  BY SizeStep
<1>3. SizeInv => FileFitsMapping
  BY DEF SizeInv, FileFitsMapping
<1> QED BY InductiveInvariant, <1>1, <1>2, <1>3, PTL DEF Spec

\* A record is superseded in a file only while some key points into it, and no
\* key points into a file that compaction has taken.
LEMMA EvictStep == ASSUME IInv, CompactedOnce, [Next]_vars PROVE CompactedOnce'
<1> USE DEF vars, fileVars, bufferVars, evictVars, loopVars
<1>0. /\ \A v \in evict_file_set_' : v < current_version_'
      /\ \A v \in Versions : v \in Nat
  BY StepRefines DEF IInv, FilesInv, Versions
<1>1. CASE Publish
  <2> SUFFICES ASSUME NEW v \in evict_file_set_', v \notin evict_file_set_
               PROVE  v \notin deleted /\ v \notin DOMAIN evict_file_map_
    BY <1>0, <1>1 DEF CompactedOnce, Publish
  <2>1. /\ pc = "publish" /\ ~rec.is_compaction
        /\ hash_map_[rec.key] # NULL /\ v = hash_map_[rec.key].version
    BY <1>1 DEF Publish
  <2>2. rec.key \in Keys /\ files_left = {} /\ items_left = {}
    BY <2>1 DEF IInv, SaveInv, MoveInv, Saving, Moving, Record
  <2>3. v \notin deleted
    BY <2>1, <2>2 DEF IInv, PositionInv
  <2>4. v \notin DOMAIN evict_file_map_
    BY <2>1, <2>2 DEF IInv, MoveInv
  <2> QED BY <2>3, <2>4
<1>2. CASE \E b \in Batches : BatchCommit(b)
  BY <1>0, <1>2 DEF BatchCommit, DeleteInvalidFiles, CompactedOnce
<1>3. CASE InitializeEvictMap
  BY <1>0, <1>3 DEF InitializeEvictMap, CompactedOnce
<1>4. CASE \E v \in Versions : MoveFile(v)
  BY <1>0, <1>4 DEF MoveFile, CompactedOnce
<1>5. CASE \E it \in items_left : MoveItem(it)
  BY <1>0, <1>5 DEF MoveItem, CompactedOnce
<1>6. CASE \/ EndOfFile \/ EndOfCompaction \/ NextRecord \/ EndOfCommit
           \/ WriteBuffer \/ UpdateFlushStatus \/ AppendToWriteBuffer
  BY <1>0, <1>6 DEF EndOfFile, EndOfCompaction, NextRecord, EndOfCommit,
       WriteBuffer, UpdateFlushStatus, AppendToWriteBuffer, CompactedOnce
<1>7. CASE UNCHANGED vars
  BY <1>0, <1>7 DEF CompactedOnce
<1> QED BY <1>1, <1>2, <1>3, <1>4, <1>5, <1>6, <1>7 DEF Next

\* SaveKV never queues for compaction a file that is being written, was moved
\* by the last compaction or is deleted.
THEOREM FilesCompactedOnce == Spec => []CompactedOnce
<1>1. Init => CompactedOnce
  BY DEF Init, CompactedOnce
<1>2. IInv /\ CompactedOnce /\ [Next]_vars => CompactedOnce'
  BY EvictStep
<1> QED BY InductiveInvariant, <1>1, <1>2, PTL DEF Spec
-----------------------------------------------------------------------------
(* The counters that trigger compaction.                                   *)

\* The files whose records total_app_count_ still counts: the live ones and,
\* during a compaction, those MoveToNewFile has not turned to yet.
CountedFiles == Live \cup files_left

Counted == UNION {Records(v) : v \in CountedFiles}

\* What total_app_count_ counts ahead of the files' own counters: the records
\* MoveToNewFile still has to save again, the one being saved, and the rest of
\* the batch once BatchCommit has counted it.
CountedAhead ==
  Cardinality(items_left) + (IF Saving THEN 1 ELSE 0)
    + (IF pc = "next_record" \/ (Saving /\ ~rec.is_compaction)
         THEN Len(batch) ELSE 0)

\* The counters at every point of a commit.
CountInv ==
  /\ \A v \in Versions : v > current_version_ => file_invalid[v] = 0
  /\ \A v \in CountedFiles :
       file_count[v] - file_invalid[v] = Cardinality(Holds(v))
  /\ IsFiniteSet(Counted) /\ IsFiniteSet(items_left)
  /\ total_app_count_ = Cardinality(Counted) + CountedAhead

\* The keys of a file are finitely many.
LEMMA HoldsFinite ==
  ASSUME NEW v
  PROVE  IsFiniteSet(Holds(v)) /\ Cardinality(Holds(v)) \in Nat
<1>1. Holds(v) \in SUBSET Keys
  BY DEF Holds
<1>2. IsFiniteSet(Holds(v))
  BY <1>1, KeysAssumption, FS_Subset
<1> QED BY <1>2, FS_CardinalityType

\* A step that moves no record and closes no file leaves the counters as they
\* were, but for what is counted ahead.
LEMMA SameFilesStep ==
  ASSUME CountInv, CountedFiles' = CountedFiles,
         UNCHANGED <<hash_map_, file_count, file_invalid, current_version_>>
  PROVE  /\ \A v \in Versions : v > current_version_' => file_invalid'[v] = 0
         /\ \A v \in CountedFiles' :
              file_count'[v] - file_invalid'[v] = Cardinality(Holds(v))'
         /\ Counted' = Counted /\ IsFiniteSet(Counted')
<1>1. \A v : Holds(v)' = Holds(v)
  BY DEF Holds
<1>2. Counted' = Counted
  BY DEF Counted, Records
<1>3. \A v \in CountedFiles' :
        file_count'[v] - file_invalid'[v] = Cardinality(Holds(v))'
  <2> SUFFICES ASSUME NEW v \in CountedFiles
               PROVE  file_count'[v] - file_invalid'[v] = Cardinality(Holds(v))'
    OBVIOUS
  <2>1. Cardinality(Holds(v))' = Cardinality(Holds(v))
    BY <1>1
  <2>2. file_count[v] - file_invalid[v] = Cardinality(Holds(v))
    BY DEF CountInv
  <2> QED BY <2>1, <2>2
<1> QED BY <1>2, <1>3 DEF CountInv

\* The numbers the counters are made of.
LEMMA CountTypes ==
  ASSUME IInv, CountInv
  PROVE  /\ Cardinality(Counted) \in Nat /\ Cardinality(items_left) \in Nat
         /\ Len(batch) \in Nat /\ batch \in Seq(Keys \X Values)
         /\ total_app_count_ \in Int
<1>1. batch \in Seq(Keys \X Values) /\ total_app_count_ \in Int
  BY DEF IInv, TypeOK
<1>2. Len(batch) \in Nat
  BY <1>1, LenProperties
<1>3. IsFiniteSet(Counted) /\ IsFiniteSet(items_left)
  BY DEF CountInv
<1>4. Cardinality(Counted) \in Nat
  BY ONLY <1>3, FS_CardinalityType
<1>5. Cardinality(items_left) \in Nat
  BY ONLY <1>3, FS_CardinalityType
<1> QED BY <1>1, <1>2, <1>4, <1>5

\* BatchCommit counts its records, or leaves that to the end of Compaction.
LEMMA CountBatchCommit ==
  ASSUME IInv, CountInv, NEW b \in Batches, BatchCommit(b) PROVE CountInv'
<1>0. /\ pc = "idle" /\ batch' = b
      /\ UNCHANGED <<hash_map_, file_count, file_invalid, current_version_,
                     files_left, items_left, rec>>
  BY DEF BatchCommit
<1>1. CountedFiles' = CountedFiles
  BY DEF BatchCommit, DeleteInvalidFiles, CountedFiles, Live
<1>2. \/ pc' = "init_evict_map" /\ total_app_count_' = total_app_count_
      \/ pc' = "next_record" /\ total_app_count_' = total_app_count_ + Len(b)
  BY DEF BatchCommit
<1>3. b \in Seq(Keys \X Values) /\ Len(b) \in Nat
  BY BatchType, LenProperties
<1>4. /\ CountedAhead = Cardinality(items_left)
      /\ CountedAhead' = Cardinality(items_left) +
           (IF pc' = "next_record" THEN Len(b) ELSE 0)
  <2>1. Cardinality(items_left) \in Nat
    BY CountTypes
  <2> QED BY <1>0, <1>2, <1>3, <2>1 DEF CountedAhead, Saving
<1>5. total_app_count_' = Cardinality(Counted) + CountedAhead'
  BY <1>2, <1>3, <1>4, CountTypes DEF CountInv
<1> QED BY <1>0, <1>1, <1>5, SameFilesStep DEF CountInv

\* InitializeEvictMap: the files it takes over are live ones.
LEMMA CountInitializeEvictMap ==
  ASSUME IInv, CompactedOnce, CountInv, InitializeEvictMap PROVE CountInv'
<1>0. /\ pc = "init_evict_map" /\ pc' = "move_file"
      /\ files_left' = evict_file_set_ /\ DOMAIN evict_file_map_' = evict_file_set_
      /\ UNCHANGED <<hash_map_, file_count, file_invalid, deleted,
                     current_version_, items_left, batch, rec,
                     total_app_count_>>
  BY DEF InitializeEvictMap, fileVars
<1>1. /\ files_left = {} /\ DOMAIN evict_file_map_ = {}
      /\ evict_file_set_ \subseteq Live
  <2>1. evict_file_set_ \subseteq 0..current_version_
    <3>1. current_version_ \in Nat /\ evict_file_set_ \subseteq Nat
      BY DEF IInv, TypeOK, Versions
    <3> QED BY <3>1 DEF CompactedOnce
  <2> QED BY <1>0, <2>1 DEF IInv, MoveInv, Moving, Saving, CompactedOnce, Live
<1>2. CountedFiles' = CountedFiles
  BY <1>0, <1>1 DEF CountedFiles, Live
<1>3. CountedAhead' = CountedAhead
  BY <1>0 DEF CountedAhead, Saving
<1> QED BY <1>0, <1>2, <1>3, SameFilesStep DEF CountInv

\* MoveToNewFile takes a file's invalid records off the total; its valid ones,
\* which it is going to save again, are the items of evict_file_map_.
LEMMA CountMoveFile ==
  ASSUME IInv, CountInv, NEW v \in Versions, MoveFile(v) PROVE CountInv'
<1>0. /\ pc = "move_file" /\ pc' = "move_item" /\ v \in files_left
      /\ files_left' = files_left \ {v} /\ items_left' = evict_file_map_[v]
      /\ total_app_count_' = total_app_count_ - file_invalid[v]
      /\ UNCHANGED <<hash_map_, file_count, file_invalid, deleted,
                     current_version_, evict_file_map_, batch, rec>>
  BY DEF MoveFile, fileVars, evictVars
<1>1. /\ items_left = {} /\ v \in DOMAIN evict_file_map_ /\ v \in CountedFiles
      /\ v \notin Live
  BY <1>0 DEF IInv, MoveInv, CountedFiles, Live
<1>2. CountedFiles' = CountedFiles \ {v}
  BY <1>0, <1>1 DEF CountedFiles, Live
<1>3. Counted' = Counted \ Records(v) /\ Records(v) \subseteq Counted
  <2>1. \A x : x \in Counted <=>
          \E w \in CountedFiles : x \in {w} \X (1..file_count[w])
    BY DEF Counted, Records
  <2>2. \A x : x \in Counted' <=>
          \E w \in CountedFiles \ {v} : x \in {w} \X (1..file_count[w])
    BY <1>0, <1>2 DEF Counted, Records
  <2> QED BY <1>1, <2>1, <2>2 DEF Records
<1>4. /\ file_count[v] \in Nat /\ file_invalid[v] \in Nat
      /\ file_count[v] - file_invalid[v] = Cardinality(Holds(v))
  BY <1>1 DEF IInv, TypeOK, CountInv
<1>5. IsFiniteSet(Records(v)) /\ Cardinality(Records(v)) = file_count[v]
  <2>1. IsFiniteSet({v}) /\ Cardinality({v}) = 1
    BY FS_Singleton
  <2>2. PICK n \in Nat : n = file_count[v]
    BY <1>4
  <2>3. 1 \in Int /\ n \in Int
    OBVIOUS
  <2>4. /\ IsFiniteSet(1..n)
        /\ Cardinality(1..n) = IF 1 > n THEN 0 ELSE n - 1 + 1
    BY ONLY <2>3, FS_Interval
  <2>5. PICK R : R = 1..n
    OBVIOUS
  <2>6. IsFiniteSet(R) /\ Cardinality(R) = n
    BY <2>4, <2>5
  <2>7. /\ IsFiniteSet({v} \X R)
        /\ Cardinality({v} \X R) = Cardinality({v}) * Cardinality(R)
    BY ONLY <2>1, <2>6, FS_Product
  <2>8. Records(v) = {v} \X R
    BY <2>2, <2>5 DEF Records
  <2> QED BY <2>1, <2>2, <2>6, <2>7, <2>8
<1>6. /\ IsFiniteSet(Counted')
      /\ Cardinality(Counted') = Cardinality(Counted) - file_count[v]
  <2>1. IsFiniteSet(Counted)
    BY DEF CountInv
  <2>2. Counted \cap Records(v) = Records(v)
    BY <1>3
  <2>3. /\ IsFiniteSet(Counted \ Records(v))
        /\ Cardinality(Counted \ Records(v)) =
             Cardinality(Counted) - Cardinality(Counted \cap Records(v))
    BY ONLY <2>1, FS_Difference
  <2> QED BY <1>3, <1>5, <2>2, <2>3
<1>7. /\ IsFiniteSet(evict_file_map_[v])
      /\ Cardinality(evict_file_map_[v]) = Cardinality(Holds(v))
  <2>1. PICK f : f = [k \in Holds(v) |-> <<k, hash_map_[k]>>]
    OBVIOUS
  <2>2. \A it \in evict_file_map_[v] :
          /\ it = <<it[1], hash_map_[it[1]]>> /\ it[1] \in Holds(v)
    <3> SUFFICES ASSUME NEW it \in evict_file_map_[v]
                 PROVE  it = <<it[1], hash_map_[it[1]]>> /\ it[1] \in Holds(v)
      OBVIOUS
    <3>1. it \in Keys \X Position
      BY <1>1 DEF IInv, TypeOK, Item
    <3>2. hash_map_[it[1]] = it[2] /\ it[2].version = v
      BY <1>0 DEF IInv, MoveInv
    <3> QED BY <3>1, <3>2, NULLAssumption DEF Holds
  <2>3. \A k \in Holds(v) : <<k, hash_map_[k]>> \in evict_file_map_[v]
    BY <1>0, <1>1 DEF IInv, MoveInv, Holds, Saving
  <2>4. f \in Bijection(Holds(v), evict_file_map_[v])
    <3>1. f \in [Holds(v) -> evict_file_map_[v]]
      BY <2>1, <2>3
    <3>2. \A a, b \in Holds(v) : f[a] = f[b] => a = b
      BY <2>1
    <3>3. \A it \in evict_file_map_[v] : \E k \in Holds(v) : f[k] = it
      BY <2>1, <2>2
    <3> QED BY ONLY <3>1, <3>2, <3>3, Fun_IsBij
  <2>5. ExistsBijection(Holds(v), evict_file_map_[v])
    BY <2>4 DEF ExistsBijection
  <2>6. IsFiniteSet(Holds(v))
    BY HoldsFinite
  <2> QED BY ONLY <2>5, <2>6, FS_Bijection
<1>8. CountedAhead = 0 /\ CountedAhead' = Cardinality(Holds(v))
  <2>1. Cardinality(items_left) = 0
    BY <1>1, FS_EmptySet
  <2>2. Cardinality(items_left)' = Cardinality(Holds(v)) /\ ~Saving /\ ~Saving'
    BY <1>0, <1>7 DEF Saving
  <2>3. Cardinality(Holds(v)) \in Nat
    BY HoldsFinite
  <2> QED BY <1>0, <2>1, <2>2, <2>3 DEF CountedAhead
<1>9. total_app_count_' = Cardinality(Counted') + CountedAhead'
  <2>1. total_app_count_ = Cardinality(Counted) + CountedAhead
    BY DEF CountInv
  <2>2. Cardinality(Counted) \in Nat /\ Cardinality(Holds(v)) \in Nat
    BY CountTypes, HoldsFinite
  <2> QED BY <1>0, <1>4, <1>6, <1>8, <2>1, <2>2
<1>10. \A w \in CountedFiles' :
         file_count'[w] - file_invalid'[w] = Cardinality(Holds(w))'
  <2> SUFFICES ASSUME NEW w \in CountedFiles
               PROVE  file_count'[w] - file_invalid'[w] = Cardinality(Holds(w))'
    BY <1>2
  <2>1. Cardinality(Holds(w))' = Cardinality(Holds(w))
    BY <1>0 DEF Holds
  <2> QED BY <1>0, <2>1 DEF CountInv
<1>11. \A w \in Versions : w > current_version_' => file_invalid'[w] = 0
  BY <1>0 DEF CountInv
<1> QED BY <1>0, <1>6, <1>7, <1>9, <1>10, <1>11 DEF CountInv

\* MoveToNewFile saves an item again: it is counted as the one being saved.
LEMMA CountMoveItem ==
  ASSUME IInv, CountInv, NEW it \in items_left, MoveItem(it) PROVE CountInv'
<1>0. /\ pc = "move_item" /\ pc' = "check_buffer" /\ rec'.is_compaction
      /\ items_left' = items_left \ {it}
      /\ UNCHANGED <<hash_map_, file_count, file_invalid, deleted, files_left,
                     current_version_, evict_file_map_, total_app_count_>>
  BY DEF MoveItem, fileVars, evictVars
<1>1. CountedFiles' = CountedFiles
  BY <1>0 DEF CountedFiles, Live
<1>2. /\ IsFiniteSet(items_left')
      /\ Cardinality(items_left') = Cardinality(items_left) - 1
  <2>1. IsFiniteSet(items_left) /\ it \in items_left
    BY DEF CountInv
  <2>2. /\ IsFiniteSet(items_left \ {it})
        /\ Cardinality(items_left \ {it}) = Cardinality(items_left) - 1
    BY ONLY <2>1, FS_RemoveElement
  <2> QED BY <1>0, <2>2
<1>3. CountedAhead' = CountedAhead
  BY <1>0, <1>2, CountTypes DEF CountedAhead, Saving
<1> QED BY <1>0, <1>1, <1>2, <1>3, SameFilesStep DEF CountInv

\* The rest of Compaction and the loop of BatchCommit.
LEMMA CountControlSteps ==
  ASSUME IInv, CountInv,
         EndOfFile \/ EndOfCompaction \/ NextRecord \/ EndOfCommit
  PROVE  CountInv'
<1>0. UNCHANGED <<hash_map_, file_count, file_invalid, deleted, files_left,
                  current_version_, evict_file_map_, items_left>>
  BY DEF EndOfFile, EndOfCompaction, NextRecord, EndOfCommit, fileVars,
         evictVars, loopVars
<1>1. CountedFiles' = CountedFiles
  BY <1>0 DEF CountedFiles, Live
<1>2. Cardinality(items_left) \in Nat /\ Len(batch) \in Nat
  BY CountTypes
<1>3. total_app_count_' - total_app_count_ = CountedAhead' - CountedAhead
      /\ CountedAhead \in Int /\ CountedAhead' \in Int
      /\ total_app_count_ \in Int /\ total_app_count_' \in Int
  <2>a. total_app_count_ \in Int
    BY CountTypes
  <2>1. CASE EndOfFile
    <3>1. CountedAhead' = CountedAhead /\ CountedAhead \in Int
      BY <1>2, <2>1 DEF EndOfFile, CountedAhead, Saving, loopVars
    <3> QED BY <2>a, <2>1, <3>1 DEF EndOfFile
  <2>2. CASE EndOfCompaction
    <3>1. /\ CountedAhead = Cardinality(items_left)
          /\ CountedAhead' = Cardinality(items_left) + Len(batch)
      BY <1>2, <2>2 DEF EndOfCompaction, CountedAhead, Saving, loopVars
    <3> QED BY <1>2, <2>a, <2>2, <3>1 DEF EndOfCompaction
  <2>3. CASE NextRecord
    <3>1. Len(batch') \in Nat /\ Len(batch') = Len(batch) - 1
      <4>1. batch \in Seq(Keys \X Values) /\ batch # <<>> /\ batch' = Tail(batch)
        BY <2>3, CountTypes DEF NextRecord
      <4> QED BY <4>1, HeadTailProperties, LenProperties
    <3>2. pc = "next_record" /\ pc' = "check_buffer" /\ ~rec'.is_compaction
      BY <2>3 DEF NextRecord
    <3>3. /\ CountedAhead = Cardinality(items_left) + Len(batch)
          /\ CountedAhead' = Cardinality(items_left) + 1 + Len(batch')
      BY <1>0, <1>2, <3>2 DEF CountedAhead, Saving
    <3> QED BY <1>2, <2>a, <2>3, <3>1, <3>3 DEF NextRecord
  <2>4. CASE EndOfCommit
    <3>1. Len(batch) = 0
      BY <2>4 DEF EndOfCommit
    <3>2. /\ CountedAhead = Cardinality(items_left)
          /\ CountedAhead' = Cardinality(items_left)
      BY <1>2, <2>4, <3>1 DEF EndOfCommit, CountedAhead, Saving, loopVars
    <3> QED BY <1>2, <2>a, <2>4, <3>2 DEF EndOfCommit
  <2> QED BY <2>1, <2>2, <2>3, <2>4
<1>4. /\ Cardinality(Counted) \in Nat
      /\ total_app_count_ = Cardinality(Counted) + CountedAhead
  BY CountTypes DEF CountInv
<1>5. total_app_count_' = Cardinality(Counted) + CountedAhead'
  BY <1>3, <1>4
<1> QED BY <1>0, <1>1, <1>5, SameFilesStep DEF CountInv

\* CheckBuffer begins a new file: it is live and empty.
LEMMA CountWriteBuffer ==
  ASSUME IInv, SizeInv, CountInv, WriteBuffer PROVE CountInv'
<1>0. /\ pc = "check_buffer" /\ pc' = "update_flush_status"
      /\ UNCHANGED <<hash_map_, file_count, file_invalid, deleted, files_left,
                     evict_file_map_, items_left, total_app_count_, batch, rec>>
  BY DEF WriteBuffer, evictVars, loopVars
<1>1. /\ current_version_ \in Versions /\ current_version_ \in Nat
      /\ \A v \in Versions : v \in Nat
      /\ \/ current_version_' = current_version_
         \/ /\ current_version_' = current_version_ + 1
            /\ current_version_' \in Versions
  <2>1. current_version_ \in Versions
    BY DEF IInv, TypeOK
  <2> QED BY <2>1, MaxFilesAssumption DEF WriteBuffer, Versions
<1>2. CountedAhead' = CountedAhead
  BY <1>0 DEF CountedAhead, Saving
<1>3. CASE current_version_' = current_version_
  <2>1. CountedFiles' = CountedFiles
    BY <1>0, <1>3 DEF CountedFiles, Live
  <2> QED BY <1>0, <1>2, <1>3, <2>1, SameFilesStep DEF CountInv
<1>4. CASE current_version_' = current_version_ + 1
  <2>1. PICK n : n = current_version_ + 1
    OBVIOUS
  <2>2. /\ n \in Versions /\ n > current_version_
        /\ file_count[n] = 0 /\ file_invalid[n] = 0
    <3>1. n \in Versions /\ n > current_version_
      BY <1>1, <1>4, <2>1
    <3> QED BY <3>1 DEF SizeInv, CountInv
  <2>3. CountedFiles' = CountedFiles \cup {n}
    <3>1. n \notin deleted /\ n \notin DOMAIN evict_file_map_
      BY <2>2, <1>1 DEF IInv, FilesInv, TypeOK
    <3>2. 0..current_version_' = (0..current_version_) \cup {n}
      BY <1>1, <1>4, <2>1
    <3> QED BY <1>0, <3>1, <3>2 DEF CountedFiles, Live
  <2>4. Counted' = Counted
    <3>1. 1..file_count[n] = {}
      BY <2>2
    <3>2. \A x : x \in Counted <=>
            \E w \in CountedFiles : x \in {w} \X (1..file_count[w])
      BY DEF Counted, Records
    <3>3. \A x : x \in Counted' <=>
            \E w \in CountedFiles \cup {n} : x \in {w} \X (1..file_count[w])
      BY <1>0, <2>3 DEF Counted, Records
    <3> QED BY <3>1, <3>2, <3>3
  <2>5. Holds(n) = {} /\ Cardinality(Holds(n)) = 0
    <3>1. ASSUME NEW k \in Keys, hash_map_[k] # NULL PROVE hash_map_[k].version # n
      <4>1. hash_map_[k].version <= current_version_
        BY <3>1 DEF IInv, PositionInv
      <4> QED BY <1>1, <2>1, <4>1
    <3> QED BY <3>1, FS_EmptySet DEF Holds
  <2>6. ASSUME NEW v \in CountedFiles'
        PROVE  file_count'[v] - file_invalid'[v] = Cardinality(Holds(v))'
    <3>1. Cardinality(Holds(v))' = Cardinality(Holds(v))
      BY <1>0 DEF Holds
    <3>2. CASE v = n
      BY <1>0, <2>2, <2>5, <3>1, <3>2
    <3>3. CASE v \in CountedFiles
      BY <1>0, <3>1, <3>3 DEF CountInv
    <3> QED BY <2>3, <3>2, <3>3
  <2>7. \A v \in Versions : v > current_version_' => file_invalid'[v] = 0
    BY <1>0, <1>1, <1>4 DEF CountInv
  <2> QED BY <1>0, <1>2, <2>4, <2>6, <2>7 DEF CountInv
<1> QED BY <1>1, <1>3, <1>4

\* SaveKV publishes: the record enters the current file's count, and the record
\* it supersedes becomes one of its file's invalid ones.
LEMMA CountPublish ==
  ASSUME IInv, CountInv, Publish PROVE CountInv'
<1>1. PICK key : key = rec.key
  OBVIOUS
<1>2. PICK old : old = hash_map_[key]
  OBVIOUS
<1>3. PICK cv : cv = current_version_
  OBVIOUS
<1>4. /\ pc = "publish"
      /\ pc' = IF rec.is_compaction THEN "move_item" ELSE "next_record"
      /\ hash_map_' = [hash_map_ EXCEPT ![key] = ep]
      /\ file_count' = [file_count EXCEPT ![ep.version] =
                          file_count[ep.version] + 1]
      /\ file_invalid' = IF old # NULL /\ ~rec.is_compaction
                           THEN [file_invalid EXCEPT ![old.version] =
                                   file_invalid[old.version] + 1]
                           ELSE file_invalid
      /\ UNCHANGED <<deleted, current_version_, evict_file_map_, files_left,
                     items_left, batch, rec, total_app_count_>>
  BY <1>1, <1>2 DEF Publish, loopVars
<1>5. /\ key \in Keys /\ Saving /\ ~Saving' /\ rec.is_compaction \in BOOLEAN
      /\ ep.version = cv
  BY <1>1, <1>3, <1>4 DEF Saving, IInv, SaveInv, Record
<1>6. /\ cv \in Versions /\ cv \in Nat /\ ep # NULL
      /\ file_count \in [Versions -> Nat] /\ file_invalid \in [Versions -> Nat]
      /\ hash_map_ \in [Keys -> Position \cup {NULL}]
  <2>1. TypeOK
    BY DEF IInv
  <2>2. ep # NULL
    <3>1. /\ buffer_cur_ \in Nat /\ buffer_cur_ > 0 /\ current_offset_ \in Nat
          /\ current_offset_ - 1 \in Nat /\ current_version_ \in Versions
      <4>1. /\ buffer_cur_ \in Nat /\ current_version_ \in Versions
            /\ Len(file_data[current_version_]) \in Nat
        BY <2>1, LenProperties DEF TypeOK
      <4>2. /\ buffer_cur_ > 0
            /\ current_offset_ = Len(file_data[current_version_]) + buffer_cur_
        BY <1>4 DEF IInv, SaveInv, FilesInv
      <4> QED BY <4>1, <4>2
    <3>2. ep = [version |-> current_version_, offset |-> current_offset_ - 1,
                buffer_offset |-> buffer_cur_ - 1]
      BY <1>4 DEF IInv, SaveInv
    <3>3. ep \in Position
      BY <3>1, <3>2 DEF Position
    <3> QED BY <3>3, NULLAssumption
  <2>3. cv \in Versions /\ cv \in Nat
    BY <1>3, <2>1 DEF TypeOK, Versions
  <2> QED BY <2>1, <2>2, <2>3 DEF TypeOK
<1>7. old # NULL => old.version \in Versions
  BY <1>2, <1>5, <1>6 DEF Position
<1>8. cv \in CountedFiles /\ CountedFiles \subseteq Versions
  <2>1. cv \notin deleted /\ cv \notin DOMAIN evict_file_map_
    BY <1>3, <1>6 DEF IInv, FilesInv
  <2>2. Live \subseteq Versions /\ files_left \subseteq Versions
    BY <1>3, <1>6, MaxFilesAssumption DEF Live, Versions, IInv, TypeOK
  <2>3. cv \in Live
    BY <1>3, <1>6, <2>1 DEF Live
  <2> QED BY <2>2, <2>3 DEF CountedFiles
<1>9. CountedFiles' = CountedFiles
  BY <1>4 DEF CountedFiles, Live
<1>10. rec.is_compaction => old # NULL /\ old.version \notin CountedFiles
  BY <1>1, <1>2, <1>5 DEF IInv, MoveInv, CountedFiles, Live
<1>11. /\ file_count'[cv] = file_count[cv] + 1
       /\ \A v \in Versions : v # cv => file_count'[v] = file_count[v]
  BY <1>4, <1>5, <1>6
<1>12. \A v \in Versions : file_invalid'[v] =
         IF old # NULL /\ ~rec.is_compaction /\ old.version = v
           THEN file_invalid[v] + 1 ELSE file_invalid[v]
  BY <1>4, <1>6, <1>7
<1>13. /\ Holds(cv)' = Holds(cv) \cup {key}
       /\ \A v : v # cv => Holds(v)' = Holds(v) \ {key}
       /\ \A v : key \in Holds(v) <=> old # NULL /\ old.version = v
  <2>1. /\ hash_map_'[key] = ep
        /\ \A k \in Keys : k # key => hash_map_'[k] = hash_map_[k]
    BY <1>4, <1>5, <1>6
  <2> QED BY <1>2, <1>5, <1>6, <2>1 DEF Holds
<1>14. ASSUME NEW v \in CountedFiles'
       PROVE  file_count'[v] - file_invalid'[v] = Cardinality(Holds(v))'
  <2>1. PICK H : H = Holds(v)
    OBVIOUS
  <2>2. /\ IsFiniteSet(H) /\ Cardinality(H) \in Nat
        /\ file_count[v] - file_invalid[v] = Cardinality(H)
        /\ file_count[v] \in Nat /\ file_invalid[v] \in Nat /\ v \in Versions
    BY <1>6, <1>8, <1>9, <1>14, <2>1, HoldsFinite DEF CountInv
  <2>3. key \in H <=> old # NULL /\ old.version = v
    BY <1>13, <2>1
  <2>4. ~(rec.is_compaction /\ key \in H)
    BY <1>9, <1>10, <1>14, <2>3
  <2>5. file_invalid'[v] = file_invalid[v] + (IF key \in H THEN 1 ELSE 0)
    BY <1>12, <2>2, <2>3, <2>4
  <2>6. CASE v = cv
    <3>1. Cardinality(H \cup {key}) =
            IF key \in H THEN Cardinality(H) ELSE Cardinality(H) + 1
      BY ONLY <2>2, FS_AddElement
    <3>2. Cardinality(Holds(v))' = Cardinality(H \cup {key})
      BY <1>13, <2>1, <2>6
    <3> QED BY <1>11, <2>2, <2>5, <2>6, <3>1, <3>2
  <2>7. CASE v # cv
    <3>1. Cardinality(H \ {key}) =
            IF key \in H THEN Cardinality(H) - 1 ELSE Cardinality(H)
      BY ONLY <2>2, FS_RemoveElement
    <3>2. Cardinality(Holds(v))' = Cardinality(H \ {key})
      BY <1>13, <2>1, <2>7
    <3> QED BY <1>11, <2>2, <2>5, <2>7, <3>1, <3>2
  <2> QED BY <2>6, <2>7
<1>15. /\ IsFiniteSet(Counted')
       /\ Cardinality(Counted') = Cardinality(Counted) + 1
  <2>1. PICK x : x = <<cv, file_count[cv] + 1>>
    OBVIOUS
  <2>2. \A y : y \in Counted <=>
          \E w \in CountedFiles : y \in {w} \X (1..file_count[w])
    BY DEF Counted, Records
  <2>3. \A y : y \in Counted' <=>
          \E w \in CountedFiles : y \in {w} \X (1..file_count'[w])
    BY <1>9 DEF Counted, Records
  <2>4. file_count[cv] \in Nat
    BY <1>6
  <2>5. 1..file_count'[cv] = (1..file_count[cv]) \cup {file_count[cv] + 1}
    BY <1>11, <2>4
  <2>6. file_count[cv] + 1 \notin 1..file_count[cv]
    BY <2>4
  <2>7. Counted' = Counted \cup {x}
    <3>1. ASSUME NEW y \in Counted' PROVE y \in Counted \cup {x}
      <4>1. PICK w \in CountedFiles : y \in {w} \X (1..file_count'[w])
        BY <2>3, <3>1
      <4>2. CASE w = cv
        BY <2>1, <2>2, <2>5, <4>1, <4>2
      <4>3. CASE w # cv
        BY <1>8, <1>11, <2>2, <4>1, <4>3
      <4> QED BY <4>2, <4>3
    <3>2. ASSUME NEW y \in Counted PROVE y \in Counted'
      <4>1. PICK w \in CountedFiles : y \in {w} \X (1..file_count[w])
        BY <2>2, <3>2
      <4>2. CASE w = cv
        BY <2>3, <2>5, <4>1, <4>2
      <4>3. CASE w # cv
        BY <1>8, <1>11, <2>3, <4>1, <4>3
      <4> QED BY <4>2, <4>3
    <3>3. x \in Counted'
      BY <1>8, <2>1, <2>3, <2>5
    <3> QED BY <3>1, <3>2, <3>3
  <2>8. x \notin Counted
    <3> SUFFICES ASSUME x \in Counted PROVE FALSE
      OBVIOUS
    <3>1. PICK w \in CountedFiles : x \in {w} \X (1..file_count[w])
      BY <2>2
    <3>2. w = cv /\ file_count[cv] + 1 \in 1..file_count[w]
      BY <2>1, <3>1
    <3> QED BY <2>6, <3>2
  <2>9. IsFiniteSet(Counted)
    BY DEF CountInv
  <2>10. /\ IsFiniteSet(Counted \cup {x})
         /\ Cardinality(Counted \cup {x}) = Cardinality(Counted) + 1
    BY ONLY <2>8, <2>9, FS_AddElement
  <2> QED BY <2>7, <2>10
<1>16. /\ CountedAhead' = CountedAhead - 1 /\ CountedAhead \in Int
  <2>1. Cardinality(items_left) \in Nat /\ Len(batch) \in Nat
    BY CountTypes
  <2> QED BY <1>4, <1>5, <2>1 DEF CountedAhead
<1>17. total_app_count_' = Cardinality(Counted') + CountedAhead'
  <2>1. /\ Cardinality(Counted) \in Nat
        /\ total_app_count_ = Cardinality(Counted) + CountedAhead
    BY CountTypes DEF CountInv
  <2> QED BY <1>4, <1>15, <1>16, <2>1
<1>18. \A v \in Versions : v > current_version_' => file_invalid'[v] = 0
  <2> SUFFICES ASSUME NEW v \in Versions, v > cv PROVE file_invalid'[v] = 0
    BY <1>3, <1>4
  <2>1. old # NULL => old.version <= cv
    BY <1>2, <1>3, <1>5 DEF IInv, PositionInv
  <2>2. old # NULL => old.version # v
    BY <1>6, <1>7, <2>1 DEF Versions
  <2> QED BY <1>3, <1>12, <2>2 DEF CountInv
<1> QED BY <1>4, <1>14, <1>15, <1>17, <1>18 DEF CountInv

\* Every step keeps the counters exact.
LEMMA CountStep ==
  ASSUME IInv, SizeInv, CompactedOnce, CountInv, [Next]_vars PROVE CountInv'
<1>1. CASE \E b \in Batches : BatchCommit(b)
  BY <1>1, CountBatchCommit
<1>2. CASE InitializeEvictMap
  BY <1>2, CountInitializeEvictMap
<1>3. CASE \E v \in Versions : MoveFile(v)
  BY <1>3, CountMoveFile
<1>4. CASE \E it \in items_left : MoveItem(it)
  BY <1>4, CountMoveItem
<1>5. CASE EndOfFile \/ EndOfCompaction \/ NextRecord \/ EndOfCommit
  BY <1>5, CountControlSteps
<1>6. CASE WriteBuffer
  BY <1>6, CountWriteBuffer
<1>7. CASE UpdateFlushStatus \/ AppendToWriteBuffer \/ UNCHANGED vars
  <2>1. UNCHANGED <<hash_map_, file_count, file_invalid, deleted, files_left,
                    current_version_, evict_file_map_, items_left,
                    total_app_count_, batch, rec>>
    BY <1>7 DEF UpdateFlushStatus, AppendToWriteBuffer, vars, fileVars,
                evictVars, loopVars
  <2>2. (Saving' <=> Saving) /\ (pc' = "next_record" <=> pc = "next_record")
    BY <1>7 DEF UpdateFlushStatus, AppendToWriteBuffer, vars, Saving
  <2>3. CountedFiles' = CountedFiles /\ CountedAhead' = CountedAhead
    BY <2>1, <2>2 DEF CountedFiles, Live, CountedAhead
  <2> QED BY <2>1, <2>3, SameFilesStep DEF CountInv
<1>8. CASE Publish
  BY <1>8, CountPublish
<1> QED BY <1>1, <1>2, <1>3, <1>4, <1>5, <1>6, <1>7, <1>8 DEF Next

\* The invariant of the counters holds in every state.
THEOREM CountersInvariant == Spec => []CountInv
<1>1. Init => SizeInv /\ CompactedOnce /\ CountInv
  <2> SUFFICES ASSUME Init PROVE SizeInv /\ CompactedOnce /\ CountInv
    OBVIOUS
  <2>1. SizeInv /\ CompactedOnce
    BY MaxAppCountAssumption, MaxFilesAssumption
       DEF Init, SizeInv, CompactedOnce, Versions
  <2>2. /\ file_count = [v \in Versions |-> 0]
        /\ file_invalid = [v \in Versions |-> 0]
        /\ CountedFiles = {0} /\ 0 \in Versions
    BY MaxFilesAssumption DEF Init, CountedFiles, Live, Versions
  <2>3. \A v : Holds(v) = {}
    BY DEF Init, Holds
  <2>4. Counted = {}
    BY <2>2 DEF Counted, Records
  <2>5. CountedAhead = 0 /\ items_left = {}
    BY FS_EmptySet DEF Init, CountedAhead, Saving
  <2>6. \A v \in CountedFiles :
          file_count[v] - file_invalid[v] = Cardinality(Holds(v))
    BY <2>2, <2>3, FS_EmptySet
  <2>7. total_app_count_ = Cardinality(Counted) + CountedAhead
    BY <2>4, <2>5, FS_EmptySet DEF Init
  <2> QED BY <2>1, <2>2, <2>4, <2>5, <2>6, <2>7, FS_EmptySet DEF CountInv
<1>2. IInv /\ SizeInv /\ CompactedOnce /\ CountInv /\ [Next]_vars =>
        SizeInv' /\ CompactedOnce' /\ CountInv'
  BY SizeStep, EvictStep, CountStep
<1> QED BY InductiveInvariant, <1>1, <1>2, PTL DEF Spec

\* Between commits the counters that decide when to compact are exact.
THEOREM CountersAreExact == Spec => []CountersExact
<1>1. IInv /\ CountInv => CountersExact
  <2> SUFFICES ASSUME IInv, CountInv, pc = "idle" PROVE CountersExact
    BY DEF CountersExact
  <2>1. files_left = {} /\ items_left = {}
    BY DEF IInv, MoveInv, Moving, Saving
  <2>2. CountedFiles = Live /\ Counted = UNION {Records(v) : v \in Live}
    BY <2>1 DEF CountedFiles, Counted
  <2>3. CountedAhead = 0
    BY <2>1, FS_EmptySet DEF CountedAhead, Saving
  <2>4. total_app_count_ = Cardinality(Counted)
    BY <2>3, CountTypes DEF CountInv
  <2> QED BY <2>2, <2>4 DEF CountInv, CountersExact
<1> QED BY InductiveInvariant, CountersInvariant, <1>1, PTL
-----------------------------------------------------------------------------
(* Readers: the lock-free Lookup against the committer (SSDHashKVLookup).   *)

\* The state of the readers; what r_key and r_result hold is not needed below.
ReaderTypeOK ==
  /\ r_pc \in [Readers -> {"idle", "found", "copy", "done"}]
  /\ r_posi \in [Readers -> Position \cup {NULL}]
  /\ r_flag \in [Readers -> BOOLEAN]
  /\ DOMAIN r_key = Readers /\ DOMAIN r_result = Readers
  /\ DOMAIN h_seen = Readers
  /\ h_rounds \in [Readers -> 0..RoundsCap]
  /\ h_reused \subseteq Readers

\* A lookup no compaction overlaps holds a position in a live file; one that a
\* single compaction overlaps holds a position in a file that is not deleted.
RoundsInv(r) ==
  r \in Looking =>
    /\ h_rounds[r] = 0 =>
         /\ ~InCompaction
         /\ r_posi[r].version \notin deleted \cup DOMAIN evict_file_map_
    /\ h_rounds[r] = 1 => r_posi[r].version \notin deleted

\* What a lookup can copy.  A flushed position points to a record the key had;
\* so does the slot of the write buffer of a position that is not flushed, until
\* the buffer is recycled; a position that misses that flush is never marked.
ValueInv(r) ==
  r \in Looking => LET p == r_posi[r] IN
    /\ p \in Position
    /\ p \in flushed_ =>
         /\ p.offset < Len(file_data[p.version])
         /\ file_data[p.version][p.offset + 1] \in h_seen[r]
    /\ p \notin flushed_ /\ r \in h_reused =>
         /\ p.offset < Len(file_data[p.version])
         /\ \A k \in Keys : hash_map_[k] # p
    /\ p \notin flushed_ /\ r \notin h_reused =>
         /\ p.buffer_offset < buffer_cur_
         /\ write_buffer_[p.buffer_offset] \in h_seen[r]
         /\ IF pc = "update_flush_status"
              THEN /\ p.offset < Len(file_data[p.version])
                   /\ file_data[p.version][p.offset + 1] =
                        write_buffer_[p.buffer_offset]
              ELSE /\ p.version = current_version_
                   /\ p.offset = Len(file_data[current_version_]) +
                                   p.buffer_offset

\* The flag a lookup has read is still true, or was overtaken by a flush.
FlagInv(r) ==
  r_pc[r] = "copy" =>
    IF r_flag[r] THEN r_posi[r] \in flushed_
                 ELSE r \in h_reused \/ r_posi[r] \notin flushed_

ReaderInv ==
  /\ ReaderTypeOK
  /\ \A r \in Readers : RoundsInv(r) /\ ValueInv(r) /\ FlagInv(r)
  /\ LookupInWindowIsCurrent

\* The inductive invariant of the store together with its readers.
LookupInv == IInv /\ ReaderInv

\* Write only appends, and puts the buffer where its positions say.
LEMMA BufferWritten ==
  ASSUME IInv, WriteBuffer
  PROVE  /\ \A v \in Versions : \A o \in Nat : o < Len(file_data[v]) =>
              /\ o < Len(file_data'[v])
              /\ file_data'[v][o + 1] = file_data[v][o + 1]
         /\ \A i \in Nat : i < buffer_cur_ =>
              LET o == Len(file_data[current_version_]) + i IN
              /\ o < Len(file_data'[current_version_])
              /\ file_data'[current_version_][o + 1] = write_buffer_[i]
<1> DEFINE S == Values \cup {Garbage}
<1>1. /\ file_data \in [Versions -> Seq(S)] /\ current_version_ \in Versions
      /\ write_buffer_ \in [Slots -> S] /\ buffer_cur_ \in 0..MaxAppCount
  BY DEF IInv, TypeOK
<1>2. file_data' = [file_data EXCEPT ![current_version_] =
        Write(file_data[current_version_], write_buffer_, buffer_cur_)]
  BY DEF WriteBuffer
<1> HIDE DEF S
<1>3. PICK old : old = file_data[current_version_]
  OBVIOUS
<1>4. PICK new : new = Write(old, write_buffer_, buffer_cur_)
  OBVIOUS
<1>5. old \in Seq(S) /\ Len(old) \in Nat /\ buffer_cur_ \in Nat
  BY <1>1, <1>3, LenProperties, MaxAppCountAssumption
<1>6. /\ Len(new) = Len(old) + buffer_cur_
      /\ \A i \in 1..Len(old) : new[i] = old[i]
      /\ \A i \in 0..(buffer_cur_ - 1) : new[Len(old) + i + 1] = write_buffer_[i]
  <2>1. write_buffer_ \in [Slots -> S] /\ buffer_cur_ \in 0..MaxAppCount
    BY <1>1
  <2>2. old \in Seq(S)
    BY <1>5
  <2>3. /\ Len(Write(old, write_buffer_, buffer_cur_)) = Len(old) + buffer_cur_
        /\ \A i \in 1..Len(old) :
             Write(old, write_buffer_, buffer_cur_)[i] = old[i]
        /\ \A i \in 0..(buffer_cur_ - 1) :
             Write(old, write_buffer_, buffer_cur_)[Len(old) + i + 1] =
               write_buffer_[i]
    BY ONLY <2>1, <2>2, WriteProperties
  <2> QED BY ONLY <2>3, <1>4
<1>7. /\ file_data'[current_version_] = new
      /\ \A v \in Versions :
           v # current_version_ => file_data'[v] = file_data[v]
  BY <1>1, <1>2, <1>3, <1>4
<1>8. ASSUME NEW v \in Versions, NEW o \in Nat, o < Len(file_data[v])
      PROVE  o < Len(file_data'[v]) /\ file_data'[v][o + 1] = file_data[v][o + 1]
  <2>1. CASE v = current_version_
    <3>1. o + 1 \in 1..Len(old) /\ o < Len(new)
      BY <2>1, <1>3, <1>5, <1>6, <1>8
    <3> QED BY <2>1, <3>1, <1>3, <1>6, <1>7
  <2>2. CASE v # current_version_
    BY <2>2, <1>7, <1>8
  <2> QED BY <2>1, <2>2
<1>9. ASSUME NEW i \in Nat, i < buffer_cur_
      PROVE  /\ Len(old) + i < Len(new)
             /\ new[Len(old) + i + 1] = write_buffer_[i]
  <2>1. i \in 0..(buffer_cur_ - 1)
    BY <1>5, <1>9
  <2> QED BY <2>1, <1>5, <1>6
<1> QED BY <1>3, <1>7, <1>8, <1>9

\* The steps that touch neither the hash map, the files nor the buffer.
LEMMA QuietSteps ==
  ASSUME Next, ~WriteBuffer, ~UpdateFlushStatus, ~AppendToWriteBuffer, ~Publish
  PROVE  /\ UNCHANGED <<hash_map_, flushed_, file_data, current_version_,
                        buffer_cur_, write_buffer_>>
         /\ pc # "update_flush_status" /\ pc' # "update_flush_status"
<1> USE DEF fileVars, bufferVars, evictVars, loopVars
<1>1. CASE \E b \in Batches : BatchCommit(b)
  BY <1>1 DEF BatchCommit
<1>2. CASE \E v \in Versions : MoveFile(v)
  BY <1>2 DEF MoveFile
<1>3. CASE \E it \in items_left : MoveItem(it)
  BY <1>3 DEF MoveItem
<1>4. CASE \/ InitializeEvictMap \/ EndOfFile \/ EndOfCompaction
           \/ NextRecord \/ EndOfCommit
  BY <1>4 DEF InitializeEvictMap, EndOfFile, EndOfCompaction, NextRecord,
              EndOfCommit
<1> QED BY <1>1, <1>2, <1>3, <1>4 DEF Next

\* A step of the committer leaves a lookup's position as good as it was.
LEMMA ValueStep ==
  ASSUME IInv, ReaderTypeOK, StoreStep, NEW r \in Readers, ValueInv(r)
  PROVE  ValueInv(r)'
<1> SUFFICES ASSUME r \in Looking PROVE ValueInv(r)'
  BY DEF ValueInv, Looking, StoreStep, readerVars
<1>0. Next /\ UNCHANGED <<r_pc, r_posi, r_flag>>
  BY DEF StoreStep, readerVars
<1>1. PICK p : p = r_posi[r]
  OBVIOUS
<1>2. r \in Looking' /\ r_posi'[r] = p
  BY <1>0, <1>1 DEF Looking
<1>3. h_seen[r] \subseteq h_seen'[r]
  BY DEF StoreStep
<1>4. IF pc = "update_flush_status" THEN r \in h_reused'
                                    ELSE r \in h_reused' <=> r \in h_reused
  BY DEF StoreStep
<1>5. /\ p \in Position /\ p.version \in Versions /\ p.offset \in Nat
      /\ p.buffer_offset \in Nat
  BY <1>1 DEF ValueInv, Position
<1>6. /\ p \in flushed_ =>
           /\ p.offset < Len(file_data[p.version])
           /\ file_data[p.version][p.offset + 1] \in h_seen[r]
      /\ p \notin flushed_ /\ r \in h_reused =>
           /\ p.offset < Len(file_data[p.version])
           /\ \A k \in Keys : hash_map_[k] # p
      /\ p \notin flushed_ /\ r \notin h_reused =>
           /\ p.buffer_offset < buffer_cur_
           /\ write_buffer_[p.buffer_offset] \in h_seen[r]
           /\ IF pc = "update_flush_status"
                THEN /\ p.offset < Len(file_data[p.version])
                     /\ file_data[p.version][p.offset + 1] =
                          write_buffer_[p.buffer_offset]
                ELSE /\ p.version = current_version_
                     /\ p.offset = Len(file_data[current_version_]) +
                                     p.buffer_offset
  BY <1>1 DEF ValueInv
<1> SUFFICES
      /\ p \in flushed_' =>
           /\ p.offset < Len(file_data'[p.version])
           /\ file_data'[p.version][p.offset + 1] \in h_seen'[r]
      /\ p \notin flushed_' /\ r \in h_reused' =>
           /\ p.offset < Len(file_data'[p.version])
           /\ \A k \in Keys : hash_map_'[k] # p
      /\ p \notin flushed_' /\ r \notin h_reused' =>
           /\ p.buffer_offset < buffer_cur_'
           /\ write_buffer_'[p.buffer_offset] \in h_seen'[r]
           /\ IF pc' = "update_flush_status"
                THEN /\ p.offset < Len(file_data'[p.version])
                     /\ file_data'[p.version][p.offset + 1] =
                          write_buffer_'[p.buffer_offset]
                ELSE /\ p.version = current_version_'
                     /\ p.offset = Len(file_data'[current_version_']) +
                                     p.buffer_offset
  BY <1>2, <1>5 DEF ValueInv
<1>7. CASE WriteBuffer
  <2>1. /\ pc = "check_buffer" /\ pc' = "update_flush_status"
        /\ UNCHANGED <<hash_map_, flushed_, buffer_cur_, write_buffer_>>
    BY <1>7 DEF WriteBuffer
  <2>2. p.offset < Len(file_data[p.version]) =>
          /\ p.offset < Len(file_data'[p.version])
          /\ file_data'[p.version][p.offset + 1] =
               file_data[p.version][p.offset + 1]
    BY <1>5, <1>7, BufferWritten
  <2>3. CASE p \in flushed_ \/ r \in h_reused
    BY <2>1, <2>2, <2>3, <1>3, <1>4, <1>6
  <2>4. CASE p \notin flushed_ /\ r \notin h_reused
    <3>1. /\ p.buffer_offset < buffer_cur_ /\ p.version = current_version_
          /\ p.offset = Len(file_data[current_version_]) + p.buffer_offset
          /\ write_buffer_[p.buffer_offset] \in h_seen[r]
      BY <2>1, <2>4, <1>6
    <3>2. /\ p.offset < Len(file_data'[p.version])
          /\ file_data'[p.version][p.offset + 1] = write_buffer_[p.buffer_offset]
      BY <3>1, <1>5, <1>7, BufferWritten
    <3> QED BY <2>1, <2>4, <3>1, <3>2, <1>3, <1>4
  <2> QED BY <2>3, <2>4
<1>8. CASE UpdateFlushStatus
  <2>1. /\ pc = "update_flush_status" /\ r \in h_reused'
        /\ UNCHANGED <<hash_map_, file_data>>
        /\ flushed_' = flushed_ \cup
             {hash_map_[key_buffer_[i]] : i \in 0..(buffer_cur_ - 1)}
    BY <1>4, <1>8 DEF UpdateFlushStatus, fileVars
  <2>2. \A k \in Keys : hash_map_[k] # NULL => hash_map_[k] \in flushed_'
    <3> SUFFICES ASSUME NEW k \in Keys, hash_map_[k] # NULL,
                        hash_map_[k] \notin flushed_
                 PROVE  hash_map_[k] \in flushed_'
      BY <2>1
    <3>1. buffer_cur_ \in Nat
      BY MaxAppCountAssumption DEF IInv, TypeOK
    <3>2. /\ hash_map_[k].buffer_offset \in 0..(buffer_cur_ - 1)
          /\ key_buffer_[hash_map_[k].buffer_offset] = k
      BY <3>1 DEF IInv, PositionInv, TypeOK, Position
    <3> QED BY <2>1, <3>2
  <2>3. p # NULL
    BY <1>5, NULLAssumption
  <2>4. p \notin flushed_' => \A k \in Keys : hash_map_'[k] # p
    BY <2>1, <2>2, <2>3
  <2>5. p \in flushed_' /\ p \notin flushed_ => r \notin h_reused
    <3> SUFFICES ASSUME p \in flushed_', p \notin flushed_, r \in h_reused
                 PROVE  FALSE
      OBVIOUS
    <3>1. PICK i \in 0..(buffer_cur_ - 1) : p = hash_map_[key_buffer_[i]]
      BY <2>1
    <3>2. key_buffer_[i] \in Keys
      BY DEF IInv, BufferInv
    <3> QED BY <3>1, <3>2, <1>6
  <2>6. p \notin flushed_ /\ r \notin h_reused =>
          file_data[p.version][p.offset + 1] \in h_seen[r]
    BY <2>1, <1>6
  <2>7. p.offset < Len(file_data[p.version])
    BY <2>1, <1>6
  <2> QED BY <2>1, <2>4, <2>5, <2>6, <2>7, <1>3, <1>6
<1>9. CASE AppendToWriteBuffer
  <2>1. /\ pc # "update_flush_status" /\ pc' # "update_flush_status"
        /\ UNCHANGED <<hash_map_, flushed_, file_data, current_version_>>
        /\ buffer_cur_' = buffer_cur_ + 1
        /\ write_buffer_' = [write_buffer_ EXCEPT ![buffer_cur_] = rec.value]
    BY <1>9 DEF AppendToWriteBuffer, fileVars
  <2>2. buffer_cur_ \in Nat /\ DOMAIN write_buffer_ = Slots
    BY MaxAppCountAssumption DEF IInv, TypeOK
  <2>3. p.buffer_offset < buffer_cur_ =>
          /\ p.buffer_offset < buffer_cur_'
          /\ write_buffer_'[p.buffer_offset] = write_buffer_[p.buffer_offset]
    <3>1. buffer_cur_ <= MaxAppCount /\ MaxAppCount \in Nat
      BY MaxAppCountAssumption DEF IInv, TypeOK
    <3> QED BY <2>1, <2>2, <3>1, <1>5 DEF Slots
  <2> QED BY <2>1, <2>3, <1>3, <1>4, <1>6
<1>10. CASE Publish
  <2>1. /\ pc = "publish" /\ pc' # "update_flush_status"
        /\ hash_map_' = [hash_map_ EXCEPT ![rec.key] = ep]
        /\ UNCHANGED <<flushed_, file_data, current_version_, buffer_cur_,
                       write_buffer_>>
    BY <1>10 DEF Publish, bufferVars
  <2>2. p \notin flushed_ /\ r \in h_reused => \A k \in Keys : hash_map_'[k] # p
    <3> SUFFICES ASSUME p.offset < Len(file_data[p.version]),
                        \A k \in Keys : hash_map_[k] # p
                 PROVE  \A k \in Keys : hash_map_'[k] # p
      BY <1>6
    <3>1. /\ ep = [version |-> current_version_, offset |-> current_offset_ - 1,
                   buffer_offset |-> buffer_cur_ - 1]
          /\ current_offset_ = Len(file_data[current_version_]) + buffer_cur_
          /\ buffer_cur_ > 0
      BY <2>1 DEF IInv, SaveInv, FilesInv
    <3>2. /\ Len(file_data[current_version_]) \in Nat
          /\ buffer_cur_ \in Nat
      BY MaxAppCountAssumption, LenProperties DEF IInv, TypeOK
    <3>3. ep # p
      BY <3>1, <3>2, <1>5
    <3> QED BY <2>1, <3>3 DEF IInv, TypeOK
  <2> QED BY <2>1, <2>2, <1>3, <1>4, <1>6
<1>11. CASE ~WriteBuffer /\ ~UpdateFlushStatus /\ ~AppendToWriteBuffer /\ ~Publish
  <2>1. /\ UNCHANGED <<hash_map_, flushed_, file_data, current_version_,
                       buffer_cur_, write_buffer_>>
        /\ pc # "update_flush_status" /\ pc' # "update_flush_status"
    BY <1>0, <1>11, QuietSteps
  <2> QED BY <2>1, <1>3, <1>4, <1>6
<1> QED BY <1>7, <1>8, <1>9, <1>10, <1>11
\* Compaction begins with DeleteInvalidFiles and counts as a round of every
\* lookup in progress; it is only later that it chooses the files to move.
LEMMA RoundsStep ==
  ASSUME IInv, ReaderTypeOK, StoreStep, NEW r \in Readers, RoundsInv(r)
  PROVE  RoundsInv(r)'
<1> SUFFICES ASSUME r \in Looking PROVE RoundsInv(r)'
  BY DEF RoundsInv, Looking, StoreStep, readerVars
<1>0. Next /\ UNCHANGED <<r_pc, r_posi>>
  BY DEF StoreStep, readerVars
<1>1. PICK v : v = r_posi[r].version
  OBVIOUS
<1>2. h_rounds[r] \in 0..2
  BY DEF ReaderTypeOK, RoundsCap
<1>3. /\ pc' = "init_evict_map" =>
           h_rounds'[r] >= 1 /\ (h_rounds'[r] = 1 => h_rounds[r] = 0)
      /\ pc' # "init_evict_map" => h_rounds'[r] = h_rounds[r]
  BY <1>2 DEF StoreStep, RoundsCap
<1>4. /\ h_rounds[r] = 0 =>
           ~InCompaction /\ v \notin deleted /\ v \notin DOMAIN evict_file_map_
      /\ h_rounds[r] = 1 => v \notin deleted
  BY <1>1 DEF RoundsInv
<1> SUFFICES
      /\ h_rounds'[r] = 0 =>
           /\ ~InCompaction'
           /\ v \notin deleted' /\ v \notin DOMAIN evict_file_map_'
      /\ h_rounds'[r] = 1 => v \notin deleted'
  BY <1>0, <1>1 DEF RoundsInv
<1> USE DEF fileVars, bufferVars, evictVars, loopVars
<1>5. CASE \E b \in Batches : BatchCommit(b)
  <2>1. CASE CompactionTriggered
    <3>1. /\ pc' = "init_evict_map"
          /\ deleted' = deleted \cup DOMAIN evict_file_map_
      BY <1>5, <2>1 DEF BatchCommit, DeleteInvalidFiles
    <3> QED BY <3>1, <1>2, <1>3, <1>4
  <2>2. CASE ~CompactionTriggered
    <3>1. /\ pc' = "next_record" /\ ~InCompaction'
          /\ UNCHANGED <<deleted, evict_file_map_>>
      BY <1>5, <2>2 DEF BatchCommit, InCompaction
    <3> QED BY <3>1, <1>3, <1>4
  <2> QED BY <2>1, <2>2
<1>6. CASE InitializeEvictMap
  <2>1. /\ InCompaction /\ pc' = "move_file" /\ deleted' = deleted
    BY <1>6 DEF InitializeEvictMap, InCompaction
  <2> QED BY <2>1, <1>2, <1>3, <1>4
<1>7. CASE ~(\E b \in Batches : BatchCommit(b)) /\ ~InitializeEvictMap
  <2>1. /\ UNCHANGED <<deleted, evict_file_map_>>
        /\ pc' # "init_evict_map"
        /\ InCompaction' => InCompaction
    <3>1. CASE \E w \in Versions : MoveFile(w)
      BY <3>1 DEF MoveFile, InCompaction
    <3>2. CASE \E it \in items_left : MoveItem(it)
      BY <3>2 DEF MoveItem, InCompaction
    <3>3. CASE EndOfFile \/ EndOfCompaction \/ NextRecord \/ EndOfCommit
      BY <3>3 DEF EndOfFile, EndOfCompaction, NextRecord, EndOfCommit,
                  InCompaction
    <3>4. CASE WriteBuffer \/ UpdateFlushStatus \/ AppendToWriteBuffer
      BY <3>4 DEF WriteBuffer, UpdateFlushStatus, AppendToWriteBuffer,
                  InCompaction
    <3>5. CASE Publish
      BY <3>5 DEF Publish, InCompaction
    <3> QED BY <1>0, <1>7, <3>1, <3>2, <3>3, <3>4, <3>5 DEF Next
  <2> QED BY <2>1, <1>3, <1>4
<1> QED BY <1>5, <1>6, <1>7

\* Only UpdateFlushStatus marks positions, and no step unmarks one.
LEMMA FlushedStep ==
  ASSUME Next
  PROVE  /\ flushed_ \subseteq flushed_'
         /\ pc # "update_flush_status" => flushed_' = flushed_
<1>1. CASE WriteBuffer \/ AppendToWriteBuffer \/ Publish
  BY <1>1 DEF WriteBuffer, AppendToWriteBuffer, Publish
<1>2. CASE UpdateFlushStatus
  BY <1>2 DEF UpdateFlushStatus
<1> QED BY <1>1, <1>2, QuietSteps

\* A step of the committer preserves the invariant of the readers.
LEMMA StoreStepReaders ==
  ASSUME LookupInv, StoreStep PROVE LookupInv'
<1>0. IInv /\ ReaderTypeOK /\ Next /\ UNCHANGED <<r_pc, r_key, r_posi, r_flag, r_result>>
  BY DEF LookupInv, ReaderInv, StoreStep, readerVars
<1>1. IInv'
  BY <1>0, StepRefines
<1>2. ReaderTypeOK'
  <2>1. h_rounds' \in [Readers -> 0..RoundsCap]
    BY <1>0 DEF StoreStep, ReaderTypeOK, RoundsCap
  <2>2. h_reused' \subseteq Readers
    BY <1>0 DEF StoreStep, ReaderTypeOK, Looking
  <2>3. DOMAIN h_seen' = Readers
    BY DEF StoreStep
  <2> QED BY <1>0, <2>1, <2>2, <2>3 DEF ReaderTypeOK
<1>3. ASSUME NEW r \in Readers PROVE FlagInv(r)'
  <2>1. /\ flushed_ \subseteq flushed_'
        /\ pc # "update_flush_status" => flushed_' = flushed_
    BY <1>0, FlushedStep
  <2>2. /\ h_reused \subseteq h_reused'
        /\ pc = "update_flush_status" /\ r \in Looking => r \in h_reused'
    BY DEF StoreStep
  <2>3. r_pc[r] = "copy" => r \in Looking
    BY DEF Looking
  <2>4. FlagInv(r)
    BY DEF LookupInv, ReaderInv
  <2> QED BY <2>1, <2>2, <2>3, <2>4, <1>0 DEF FlagInv
<1>4. LookupInWindowIsCurrent'
  BY <1>0 DEF LookupInWindowIsCurrent, StoreStep
<1> QED BY <1>0, <1>1, <1>2, <1>3, <1>4, ValueStep, RoundsStep
        DEF LookupInv, ReaderInv

\* The invariant looks at one reader at a time: a step of another reader, which
\* leaves the store alone, does not disturb it.
LEMMA OtherReader ==
  ASSUME UNCHANGED vars, NEW q \in Readers, RoundsInv(q), ValueInv(q), FlagInv(q),
         r_pc'[q] = r_pc[q], r_posi'[q] = r_posi[q], r_flag'[q] = r_flag[q],
         h_seen'[q] = h_seen[q], h_rounds'[q] = h_rounds[q],
         q \in h_reused' <=> q \in h_reused
  PROVE  RoundsInv(q)' /\ ValueInv(q)' /\ FlagInv(q)'
<1> USE DEF vars, fileVars, bufferVars, evictVars, loopVars
<1>1. RoundsInv(q)'
  BY DEF RoundsInv, Looking, InCompaction
<1>2. ValueInv(q)'
  BY DEF ValueInv, Looking
<1>3. FlagInv(q)'
  BY DEF FlagInv
<1> QED BY <1>1, <1>2, <1>3

\* find_wait_free returns a position in a file that is not deleted, and not in
\* one that compaction is done with.
LEMMA FindStep ==
  ASSUME LookupInv, NEW r \in Readers, NEW k \in Keys, Find(r, k)
  PROVE  ReaderInv'
<1>0. IInv /\ ReaderTypeOK
  BY DEF LookupInv, ReaderInv
<1>1. /\ r_pc[r] = "idle" /\ hash_map_[k] # NULL
      /\ r_key' = [r_key EXCEPT ![r] = k]
      /\ r_posi' = [r_posi EXCEPT ![r] = hash_map_[k]]
      /\ r_pc' = [r_pc EXCEPT ![r] = "found"]
      /\ h_seen' = [h_seen EXCEPT ![r] = {Lookup(k)}]
      /\ h_rounds' = [h_rounds EXCEPT ![r] = IF InCompaction THEN 1 ELSE 0]
      /\ h_reused' = h_reused \ {r}
      /\ UNCHANGED <<vars, r_flag, r_result>>
  BY DEF Find
<1>2. hash_map_[k] \in Position
  BY <1>0, <1>1 DEF IInv, TypeOK
<1>3. ReaderTypeOK'
  BY <1>0, <1>1, <1>2 DEF ReaderTypeOK, RoundsCap
<1>4. ASSUME NEW q \in Readers, q # r
      PROVE  RoundsInv(q)' /\ ValueInv(q)' /\ FlagInv(q)'
  <2>1. RoundsInv(q) /\ ValueInv(q) /\ FlagInv(q)
    BY DEF LookupInv, ReaderInv
  <2>2. /\ r_pc'[q] = r_pc[q] /\ r_posi'[q] = r_posi[q] /\ r_flag'[q] = r_flag[q]
        /\ h_seen'[q] = h_seen[q] /\ h_rounds'[q] = h_rounds[q]
        /\ q \in h_reused' <=> q \in h_reused
    BY <1>0, <1>1, <1>4 DEF ReaderTypeOK
  <2> QED BY <1>1, <2>1, <2>2, OtherReader
<1>5. /\ r_pc'[r] = "found" /\ r_posi'[r] = hash_map_[k]
      /\ h_seen'[r] = {Lookup(k)} /\ r \notin h_reused'
      /\ h_rounds'[r] = IF InCompaction THEN 1 ELSE 0
  BY <1>0, <1>1 DEF ReaderTypeOK
<1>6. UNCHANGED <<hash_map_, flushed_, file_data, deleted, current_version_,
                  buffer_cur_, write_buffer_, evict_file_map_, pc, rec>>
  BY <1>1 DEF vars, fileVars, bufferVars, evictVars, loopVars
<1>7. RoundsInv(r)'
  <2>1. hash_map_[k].version \notin deleted
    BY <1>0, <1>1 DEF IInv, PositionInv
  <2>2. ~InCompaction => hash_map_[k].version \notin DOMAIN evict_file_map_
    <3>1. ~InCompaction => ~Moving /\ pc # "init_evict_map"
      BY DEF InCompaction, Moving, Saving
    <3> QED BY <3>1, <1>0, <1>1 DEF IInv, MoveInv, Moving
  <2>3. InCompaction' <=> InCompaction
    BY <1>6 DEF InCompaction
  <2> QED BY <2>1, <2>2, <2>3, <1>5, <1>6 DEF RoundsInv
<1>8. ValueInv(r)'
  <2>1. PICK p : p = hash_map_[k]
    OBVIOUS
  <2>2. /\ p \in flushed_ =>
             /\ p.offset < Len(file_data[p.version])
             /\ Lookup(k) = file_data[p.version][p.offset + 1]
        /\ p \notin flushed_ => Lookup(k) = write_buffer_[p.buffer_offset]
    BY <2>1, <1>0, <1>1 DEF IInv, PositionInv, Lookup, Contents, Read
  <2>3. p \notin flushed_ =>
          /\ p.buffer_offset < buffer_cur_
          /\ IF pc = "update_flush_status"
               THEN /\ p.offset < Len(file_data[p.version])
                    /\ file_data[p.version][p.offset + 1] =
                         write_buffer_[p.buffer_offset]
               ELSE /\ p.version = current_version_
                    /\ p.offset = Len(file_data[current_version_]) +
                                    p.buffer_offset
    BY <2>1, <1>0, <1>1 DEF IInv, PositionInv
  <2> QED BY <2>1, <2>2, <2>3, <1>2, <1>5, <1>6 DEF ValueInv
<1>9. FlagInv(r)'
  BY <1>5 DEF FlagInv
<1>10. LookupInWindowIsCurrent'
  <2> SUFFICES ASSUME NEW q \in Readers, r_pc'[q] = "done",
                      IF r_flag'[q] THEN h_rounds'[q] <= 1 ELSE q \notin h_reused'
               PROVE  r_result'[q] \in h_seen'[q]
    BY DEF LookupInWindowIsCurrent
  <2>1. q # r
    BY <1>5
  <2>2. /\ r_pc[q] = "done" /\ r_flag'[q] = r_flag[q] /\ r_result'[q] = r_result[q]
        /\ h_seen'[q] = h_seen[q] /\ h_rounds'[q] = h_rounds[q]
        /\ q \in h_reused' <=> q \in h_reused
    BY <2>1, <1>0, <1>1 DEF ReaderTypeOK
  <2>3. LookupInWindowIsCurrent
    BY DEF LookupInv, ReaderInv
  <2> QED BY <2>2, <2>3 DEF LookupInWindowIsCurrent
<1> QED BY <1>3, <1>4, <1>7, <1>8, <1>9, <1>10 DEF ReaderInv
\* The second load of Lookup.
LEMMA LoadFlushedStep ==
  ASSUME LookupInv, NEW r \in Readers, LoadFlushed(r) PROVE ReaderInv'
<1>0. ReaderTypeOK /\ LookupInWindowIsCurrent
  BY DEF LookupInv, ReaderInv
<1>1. /\ r_pc[r] = "found"
      /\ r_flag' = [r_flag EXCEPT ![r] = r_posi[r] \in flushed_]
      /\ r_pc' = [r_pc EXCEPT ![r] = "copy"]
      /\ UNCHANGED <<vars, r_key, r_posi, r_result, h_seen, h_rounds, h_reused>>
  BY DEF LoadFlushed, historyVars
<1>2. ReaderTypeOK'
  <2>1. r_flag' \in [Readers -> BOOLEAN]
    <3>1. (r_posi[r] \in flushed_) \in BOOLEAN
      OBVIOUS
    <3> QED BY <3>1, <1>0, <1>1 DEF ReaderTypeOK
  <2>2. r_pc' \in [Readers -> {"idle", "found", "copy", "done"}]
    BY <1>0, <1>1 DEF ReaderTypeOK
  <2> QED BY <2>1, <2>2, <1>0, <1>1 DEF ReaderTypeOK
<1>3. /\ r_pc'[r] = "copy" /\ r_flag'[r] = (r_posi[r] \in flushed_)
      /\ \A q \in Readers : q # r => r_pc'[q] = r_pc[q] /\ r_flag'[q] = r_flag[q]
  BY <1>0, <1>1 DEF ReaderTypeOK
<1>4. Looking' = Looking
  BY <1>1, <1>3 DEF Looking
<1>5. ASSUME NEW q \in Readers
      PROVE  RoundsInv(q)' /\ ValueInv(q)' /\ FlagInv(q)'
  <2> USE DEF vars, fileVars, bufferVars, evictVars, loopVars
  <2>0. RoundsInv(q) /\ ValueInv(q) /\ FlagInv(q)
    BY DEF LookupInv, ReaderInv
  <2>1. RoundsInv(q)'
    BY <2>0, <1>1, <1>4 DEF RoundsInv, InCompaction
  <2>2. ValueInv(q)'
    BY <2>0, <1>1, <1>4 DEF ValueInv
  <2>3. FlagInv(q)'
    <3>1. UNCHANGED <<flushed_, h_reused, r_posi>>
      BY <1>1
    <3>2. CASE q = r
      BY <3>1, <3>2, <1>3 DEF FlagInv
    <3>3. CASE q # r
      BY <3>1, <3>3, <2>0, <1>3 DEF FlagInv
    <3> QED BY <3>2, <3>3
  <2> QED BY <2>1, <2>2, <2>3
<1>6. LookupInWindowIsCurrent'
  <2> SUFFICES ASSUME NEW q \in Readers, r_pc'[q] = "done",
                      IF r_flag'[q] THEN h_rounds'[q] <= 1 ELSE q \notin h_reused'
               PROVE  r_result'[q] \in h_seen'[q]
    BY DEF LookupInWindowIsCurrent
  <2>1. q # r
    BY <1>3
  <2> QED BY <2>1, <1>0, <1>1, <1>3 DEF LookupInWindowIsCurrent
<1> QED BY <1>2, <1>5, <1>6 DEF ReaderInv

\* The copy: within the window it is a record the key had.
LEMMA CopyRecordStep ==
  ASSUME LookupInv, NEW r \in Readers, CopyRecord(r) PROVE ReaderInv'
<1>0. ReaderTypeOK /\ LookupInWindowIsCurrent
  BY DEF LookupInv, ReaderInv
<1>a. PICK p : p = r_posi[r]
  OBVIOUS
<1>b. PICK x : x = (IF ~r_flag[r] THEN write_buffer_[p.buffer_offset]
                    ELSE IF p.version \in deleted THEN Garbage
                    ELSE Read(file_data[p.version], p.offset))
  OBVIOUS
<1>1. /\ r_pc[r] = "copy"
      /\ r_result' = [r_result EXCEPT ![r] = x]
      /\ r_pc' = [r_pc EXCEPT ![r] = "done"]
      /\ UNCHANGED <<vars, r_key, r_posi, r_flag, h_seen, h_rounds, h_reused>>
  BY <1>a, <1>b DEF CopyRecord, historyVars
<1>2. ReaderTypeOK'
  BY <1>0, <1>1 DEF ReaderTypeOK
<1>3. /\ r_pc'[r] = "done" /\ r_result'[r] = x
      /\ \A q \in Readers :
           q # r => r_pc'[q] = r_pc[q] /\ r_result'[q] = r_result[q]
  BY <1>0, <1>1 DEF ReaderTypeOK
<1>4. ASSUME NEW q \in Readers
      PROVE  RoundsInv(q)' /\ ValueInv(q)' /\ FlagInv(q)'
  <2>1. CASE q = r
    BY <2>1, <1>3 DEF RoundsInv, ValueInv, FlagInv, Looking
  <2>2. CASE q # r
    <3>1. RoundsInv(q) /\ ValueInv(q) /\ FlagInv(q)
      BY DEF LookupInv, ReaderInv
    <3>2. /\ r_pc'[q] = r_pc[q] /\ r_posi'[q] = r_posi[q]
          /\ r_flag'[q] = r_flag[q] /\ h_seen'[q] = h_seen[q]
          /\ h_rounds'[q] = h_rounds[q] /\ (q \in h_reused' <=> q \in h_reused)
      BY <2>2, <1>1, <1>3
    <3> QED BY <3>1, <3>2, <1>1, OtherReader
  <2> QED BY <2>1, <2>2
<1>5. IF r_flag[r] THEN h_rounds[r] <= 1 => x \in h_seen[r]
                   ELSE r \notin h_reused => x \in h_seen[r]
  <2>1. r \in Looking /\ RoundsInv(r) /\ ValueInv(r) /\ FlagInv(r)
    BY <1>1 DEF Looking, LookupInv, ReaderInv
  <2>2. ASSUME r_flag[r], h_rounds[r] <= 1 PROVE x \in h_seen[r]
    <3>1. p \in flushed_
      BY <2>1, <2>2, <1>1, <1>a DEF FlagInv
    <3>2. h_rounds[r] = 0 \/ h_rounds[r] = 1
      BY <2>2, <1>0 DEF ReaderTypeOK, RoundsCap
    <3>3. p.version \notin deleted
      BY <2>1, <3>2, <1>a DEF RoundsInv
    <3>4. /\ p.offset < Len(file_data[p.version])
          /\ file_data[p.version][p.offset + 1] \in h_seen[r]
      BY <2>1, <3>1, <1>a DEF ValueInv
    <3> QED BY <2>2, <3>3, <3>4, <1>b DEF Read
  <2>3. ASSUME ~r_flag[r], r \notin h_reused PROVE x \in h_seen[r]
    <3>1. p \notin flushed_
      BY <2>1, <2>3, <1>1, <1>a DEF FlagInv
    <3> QED BY <2>1, <2>3, <3>1, <1>a, <1>b DEF ValueInv
  <2> QED BY <2>2, <2>3
<1>6. LookupInWindowIsCurrent'
  <2> SUFFICES ASSUME NEW q \in Readers, r_pc'[q] = "done",
                      IF r_flag[q] THEN h_rounds[q] <= 1 ELSE q \notin h_reused
               PROVE  r_result'[q] \in h_seen[q]
    BY <1>1 DEF LookupInWindowIsCurrent
  <2>1. CASE q = r
    BY <2>1, <1>3, <1>5
  <2>2. CASE q # r
    BY <2>2, <1>0, <1>3 DEF LookupInWindowIsCurrent
  <2> QED BY <2>1, <2>2
<1> QED BY <1>2, <1>4, <1>6 DEF ReaderInv

\* The lookup returns to its caller.
LEMMA ReturnStep ==
  ASSUME LookupInv, NEW r \in Readers, Return(r) PROVE ReaderInv'
<1>0. ReaderTypeOK /\ LookupInWindowIsCurrent
  BY DEF LookupInv, ReaderInv
<1>1. /\ r_pc' = [r_pc EXCEPT ![r] = "idle"]
      /\ r_key' = [r_key EXCEPT ![r] = NULL]
      /\ r_posi' = [r_posi EXCEPT ![r] = NULL]
      /\ r_flag' = [r_flag EXCEPT ![r] = FALSE]
      /\ r_result' = [r_result EXCEPT ![r] = NULL]
      /\ h_seen' = [h_seen EXCEPT ![r] = {}]
      /\ h_rounds' = [h_rounds EXCEPT ![r] = 0]
      /\ h_reused' = h_reused \ {r}
      /\ UNCHANGED vars
  BY DEF Return
<1>2. ReaderTypeOK'
  BY <1>0, <1>1 DEF ReaderTypeOK, RoundsCap
<1>3. /\ r_pc'[r] = "idle"
      /\ \A q \in Readers : q # r =>
           /\ r_pc'[q] = r_pc[q] /\ r_posi'[q] = r_posi[q]
           /\ r_flag'[q] = r_flag[q] /\ r_result'[q] = r_result[q]
           /\ h_seen'[q] = h_seen[q] /\ h_rounds'[q] = h_rounds[q]
           /\ (q \in h_reused' <=> q \in h_reused)
  BY <1>0, <1>1 DEF ReaderTypeOK
<1>4. ASSUME NEW q \in Readers
      PROVE  RoundsInv(q)' /\ ValueInv(q)' /\ FlagInv(q)'
  <2>1. CASE q = r
    BY <2>1, <1>3 DEF RoundsInv, ValueInv, FlagInv, Looking
  <2>2. CASE q # r
    <3>1. RoundsInv(q) /\ ValueInv(q) /\ FlagInv(q)
      BY DEF LookupInv, ReaderInv
    <3> QED BY <2>2, <3>1, <1>1, <1>3, OtherReader
  <2> QED BY <2>1, <2>2
<1>5. LookupInWindowIsCurrent'
  <2> SUFFICES ASSUME NEW q \in Readers, r_pc'[q] = "done",
                      IF r_flag'[q] THEN h_rounds'[q] <= 1 ELSE q \notin h_reused'
               PROVE  r_result'[q] \in h_seen'[q]
    BY DEF LookupInWindowIsCurrent
  <2>1. q # r
    BY <1>3
  <2> QED BY <2>1, <1>0, <1>3 DEF LookupInWindowIsCurrent
<1> QED BY <1>2, <1>4, <1>5 DEF ReaderInv

\* The store and any number of readers keep the invariant.
LEMMA LookupStep ==
  ASSUME LookupInv, [NextLookup]_lookupVars PROVE LookupInv'
<1>1. UNCHANGED vars => IInv'
  BY StutterStep DEF LookupInv
<1>2. CASE StoreStep
  BY <1>2, StoreStepReaders
<1>3. ASSUME NEW r \in Readers, NEW k \in Keys, Find(r, k) PROVE LookupInv'
  BY <1>1, <1>3, FindStep DEF Find, LookupInv
<1>4. ASSUME NEW r \in Readers, LoadFlushed(r) PROVE LookupInv'
  BY <1>1, <1>4, LoadFlushedStep DEF LoadFlushed, LookupInv
<1>5. ASSUME NEW r \in Readers, CopyRecord(r) PROVE LookupInv'
  BY <1>1, <1>5, CopyRecordStep DEF CopyRecord, LookupInv
<1>6. ASSUME NEW r \in Readers, Return(r) PROVE LookupInv'
  BY <1>1, <1>6, ReturnStep DEF Return, LookupInv
<1>7. CASE UNCHANGED lookupVars
  <2>1. UNCHANGED <<vars, r_pc, r_key, r_posi, r_flag, r_result, h_seen,
                    h_rounds, h_reused>>
    BY <1>7 DEF lookupVars, readerVars, historyVars
  <2>2. ReaderTypeOK' /\ LookupInWindowIsCurrent'
    BY <2>1 DEF LookupInv, ReaderInv, ReaderTypeOK, LookupInWindowIsCurrent
  <2>3. ASSUME NEW q \in Readers
        PROVE  RoundsInv(q)' /\ ValueInv(q)' /\ FlagInv(q)'
    <3>1. RoundsInv(q) /\ ValueInv(q) /\ FlagInv(q)
      BY DEF LookupInv, ReaderInv
    <3> QED BY <2>1, <3>1, OtherReader
  <2> QED BY <1>1, <2>1, <2>2, <2>3 DEF LookupInv, ReaderInv
<1> QED BY <1>2, <1>3, <1>4, <1>5, <1>6, <1>7 DEF NextLookup

\* The invariant of the store and its readers holds for every number of
\* concurrent lookups.
THEOREM LookupInductiveInvariant == SpecLookup => []LookupInv
<1>1. InitLookup => LookupInv
  <2> SUFFICES ASSUME InitLookup PROVE ReaderInv
    BY InitIInv DEF InitLookup, LookupInv
  <2>1. ReaderTypeOK
    BY DEF InitLookup, ReaderTypeOK, RoundsCap
  <2>2. \A r \in Readers : RoundsInv(r) /\ ValueInv(r) /\ FlagInv(r)
    BY DEF InitLookup, RoundsInv, ValueInv, FlagInv, Looking
  <2>3. LookupInWindowIsCurrent
    BY DEF InitLookup, LookupInWindowIsCurrent
  <2> QED BY <2>1, <2>2, <2>3 DEF ReaderInv
<1>2. LookupInv /\ [NextLookup]_lookupVars => LookupInv'
  BY LookupStep
<1> QED BY <1>1, <1>2, PTL DEF SpecLookup

\* A lookup that overlaps at most one Compaction never copies from a file that
\* DeleteInvalidFiles has unmapped.
THEOREM ReadersProtected == SpecLookup => []DelayedDeleteProtectsReaders
<1>1. LookupInv => DelayedDeleteProtectsReaders
  <2> SUFFICES ASSUME LookupInv, NEW r \in Readers, r_pc[r] = "copy",
                      h_rounds[r] <= 1
               PROVE  r_posi[r].version \notin deleted
    BY DEF DelayedDeleteProtectsReaders
  <2>1. r \in Looking /\ RoundsInv(r)
    BY DEF Looking, LookupInv, ReaderInv
  <2>2. h_rounds[r] = 0 \/ h_rounds[r] = 1
    BY DEF LookupInv, ReaderInv, ReaderTypeOK, RoundsCap
  <2> QED BY <2>1, <2>2 DEF RoundsInv
<1> QED BY LookupInductiveInvariant, <1>1, PTL

\* Within that window a lock-free Lookup returns a value its key had while the
\* lookup was running.
THEOREM LookupsAreCurrent == SpecLookup => []LookupInWindowIsCurrent
<1>1. LookupInv => LookupInWindowIsCurrent
  BY DEF LookupInv, ReaderInv
<1> QED BY LookupInductiveInvariant, <1>1, PTL
-----------------------------------------------------------------------------
(* Checkpoint and restore (SSDHashKVCheckpoint).                           *)

\* The state of a checkpoint being written and of a restore.
CkptTypeOK ==
  /\ up \in {"running", "down", "loading", "importing"}
  /\ desc \in DescriptorType \cup {NULL}
  /\ to_copy \subseteq Versions
  /\ copied \in FilesType
  /\ ckpt \in CheckpointType \cup {NULL}
  /\ to_load \subseteq Versions
  /\ DOMAIN file_id_map \subseteq Versions

\* The records of a described file: in the checkpoint directory once copied.
DescribedFile(v) == IF v \in DOMAIN copied THEN copied[v] ELSE file_data[v]

\* Every listed position is inside a listed file, in which its record already
\* is: SetSsdRecordDescriptor has written the buffer.
DescInv ==
  desc # NULL =>
    /\ up = "running"
    /\ desc.files = DOMAIN copied \cup to_copy
    /\ DOMAIN copied \cap to_copy = {}
    /\ \A k \in Keys : desc.posi[k] # NULL =>
         /\ desc.posi[k].version \in desc.files
         /\ desc.posi[k].offset < Len(DescribedFile(desc.posi[k].version))

\* A complete checkpoint holds every file it lists, and every position is
\* inside of one of them.
CompleteInv ==
  ckpt # NULL =>
    /\ DOMAIN ckpt.data = ckpt.desc.files
    /\ \A k \in Keys : ckpt.desc.posi[k] # NULL =>
         /\ ckpt.desc.posi[k].version \in ckpt.desc.files
         /\ ckpt.desc.posi[k].offset < Len(ckpt.data[ckpt.desc.posi[k].version])

\* A store that nothing was committed to since its process began.
StoreEmpty ==
  /\ hash_map_ = [k \in Keys |-> NULL]
  /\ flushed_ = {} /\ deleted = {}
  /\ evict_file_set_ = {} /\ DOMAIN evict_file_map_ = {}
  /\ pc = "idle" /\ buffer_cur_ = 0 /\ current_offset_ = 0

\* Until Import the store is empty but for its files; a loaded file is below
\* current_version_ and is the file of the checkpoint that file_id_map says.
LoadInv ==
  /\ up # "running" => StoreEmpty
  /\ up \in {"loading", "importing"} =>
       /\ ckpt # NULL
       /\ ckpt.desc.files = DOMAIN file_id_map \cup to_load
       /\ \A v \in DOMAIN file_id_map :
            /\ file_id_map[v] \in Versions
            /\ file_id_map[v] < current_version_
            /\ file_data[file_id_map[v]] = ckpt.data[v]
  /\ up = "importing" => to_load = {}

\* The inductive invariant of the store with its checkpoints.
CkptInv == IInv /\ CkptTypeOK /\ DescInv /\ CompleteInv /\ LoadInv

\* Every step of the store only appends to its files.
LEMMA FilesGrow ==
  ASSUME IInv, Next
  PROVE  \A v \in Versions : \A o \in Nat : o < Len(file_data[v]) =>
           /\ o < Len(file_data'[v])
           /\ file_data'[v][o + 1] = file_data[v][o + 1]
<1>1. CASE WriteBuffer
  BY <1>1, BufferWritten
<1>2. CASE UpdateFlushStatus \/ AppendToWriteBuffer \/ Publish
  <2>1. UNCHANGED file_data
    BY <1>2 DEF UpdateFlushStatus, AppendToWriteBuffer, Publish, fileVars
  <2> QED BY <2>1
<1>3. CASE /\ ~WriteBuffer /\ ~UpdateFlushStatus /\ ~AppendToWriteBuffer
           /\ ~Publish
  <2>1. UNCHANGED file_data
    BY <1>3, QuietSteps
  <2> QED BY <2>1
<1> QED BY <1>1, <1>2, <1>3

\* The store's own variables do not change, so neither does what it says.
LEMMA StorePreservedByOthers ==
  ASSUME IInv, UNCHANGED vars
  PROVE  IInv' /\ UNCHANGED <<AbstractStore, Pending>>
<1>1. IInv' /\ StoreUnchanged
  BY StutterStep
<1>2. UNCHANGED Pending
  BY DEF vars, loopVars, Pending, Saving
<1> QED BY <1>1, <1>2 DEF StoreUnchanged, AbstractStore

\* SetSsdRecordDescriptor writes the buffer: every position is flushed then,
\* and no lookup changes.
LEMMA FlushForSaveStep ==
  ASSUME IInv, SetSsdRecordDescriptor
  PROVE  /\ IInv' /\ StoreUnchanged
         /\ \A k \in Keys : hash_map_[k] # NULL => hash_map_[k] \in flushed_'
<1> USE MaxAppCountAssumption, MaxFilesAssumption DEF IInv
<1>0. /\ pc = "idle" /\ pc' = "idle" /\ FlushForSave
      /\ UNCHANGED <<hash_map_, file_count, file_invalid, deleted, write_buffer_,
                 key_buffer_, total_app_count_, evict_file_set_,
                 evict_file_map_, batch, files_left, items_left, rec, ep>>
  BY DEF SetSsdRecordDescriptor, evictVars, loopVars
<1>a. buffer_cur_ \in Nat /\ buffer_cur_ \in 0..MaxAppCount
  BY DEF TypeOK
<1>b. \A k \in Keys : hash_map_[k] # NULL =>
        /\ hash_map_[k] \in Position /\ hash_map_[k].version \in Versions
        /\ hash_map_[k].offset \in Nat /\ hash_map_[k].buffer_offset \in Nat
  BY DEF TypeOK, Position
<1>c. ~Saving /\ ~Saving' /\ ~Moving /\ ~Moving'
  BY <1>0 DEF Saving, Moving
<1>1. CASE buffer_cur_ = 0
  <2>1. UNCHANGED vars
    BY <1>0, <1>1 DEF FlushForSave, vars, fileVars, bufferVars, evictVars, loopVars
  <2>2. \A k \in Keys : hash_map_[k] # NULL => hash_map_[k] \in flushed_
    BY <1>1, <1>b DEF PositionInv
  <2>3. UNCHANGED flushed_
    BY <2>1 DEF vars
  <2> QED BY <2>1, <2>2, <2>3, StutterStep
<1>2. CASE buffer_cur_ > 0
  <2> DEFINE S == Values \cup {Garbage}
  <2>1. /\ current_version_ < MaxFiles
        /\ current_version_' = current_version_ + 1
        /\ current_offset_' = 0 /\ buffer_cur_' = 0
        /\ flushed_' = flushed_ \cup
              {hash_map_[key_buffer_[i]] : i \in 0..(buffer_cur_ - 1)}
        /\ file_data' = [file_data EXCEPT ![current_version_] =
             Write(file_data[current_version_], write_buffer_, buffer_cur_)]
    BY <1>0, <1>2 DEF FlushForSave
  <2>2. /\ file_data \in [Versions -> Seq(S)] /\ current_version_ \in Versions
        /\ write_buffer_ \in [Slots -> S] /\ current_version_ \in Nat
    <3>1. /\ file_data \in [Versions -> Seq(S)] /\ current_version_ \in Versions
          /\ write_buffer_ \in [Slots -> S]
      BY DEF TypeOK
    <3> QED BY <3>1 DEF Versions
  <2> HIDE DEF S
  <2>3. PICK old : old = file_data[current_version_]
    OBVIOUS
  <2>4. PICK new : new = Write(old, write_buffer_, buffer_cur_)
    OBVIOUS
  <2>5. old \in Seq(S) /\ Len(old) \in Nat
    BY <2>2, <2>3, LenProperties
  <2>6. /\ new \in Seq(S)
        /\ Len(new) = Len(old) + buffer_cur_
        /\ \A i \in 1..Len(old) : new[i] = old[i]
        /\ \A i \in 0..(buffer_cur_ - 1) :
             new[Len(old) + i + 1] = write_buffer_[i]
    <3>1. /\ Write(old, write_buffer_, buffer_cur_) \in Seq(S)
          /\ Len(Write(old, write_buffer_, buffer_cur_)) = Len(old) + buffer_cur_
          /\ \A i \in 1..Len(old) :
               Write(old, write_buffer_, buffer_cur_)[i] = old[i]
          /\ \A i \in 0..(buffer_cur_ - 1) :
               Write(old, write_buffer_, buffer_cur_)[Len(old) + i + 1] =
                 write_buffer_[i]
      <4>1. write_buffer_ \in [Slots -> S] /\ buffer_cur_ \in 0..MaxAppCount
        BY <1>a, <2>2
      <4>2. old \in Seq(S)
        BY <2>5
      <4>3. Write(old, write_buffer_, buffer_cur_) \in Seq(S)
        BY ONLY <4>1, <4>2, WriteProperties
      <4>4. /\ Len(Write(old, write_buffer_, buffer_cur_)) =
                 Len(old) + buffer_cur_
            /\ \A i \in 1..Len(old) :
                 Write(old, write_buffer_, buffer_cur_)[i] = old[i]
            /\ \A i \in 0..(buffer_cur_ - 1) :
                 Write(old, write_buffer_, buffer_cur_)[Len(old) + i + 1] =
                   write_buffer_[i]
        BY ONLY <4>1, <4>2, WriteProperties
      <4> QED BY <4>3, <4>4
    <3> QED BY ONLY <3>1, <2>4
  <2>7. /\ file_data'[current_version_] = new
        /\ \A v \in Versions :
             v # current_version_ => file_data'[v] = file_data[v]
        /\ file_data' \in [Versions -> Seq(S)]
    BY <2>1, <2>2, <2>3, <2>4, <2>6
  <2>8. current_version_' \in Versions /\ file_data'[current_version_'] = <<>>
    <3>1. current_version_' \in Versions /\ current_version_' > current_version_
      BY <2>1, <2>2 DEF Versions
    <3>2. file_data[current_version_'] = <<>> /\ current_version_' # current_version_
      BY <3>1, <2>2 DEF FilesInv
    <3> QED BY <3>1, <3>2, <2>7
  <2>9. ASSUME NEW v \in Versions, NEW o \in Nat, o < Len(file_data[v])
        PROVE  /\ o < Len(file_data'[v])
               /\ file_data'[v][o + 1] = file_data[v][o + 1]
    <3>1. CASE v = current_version_
      <4>1. o + 1 \in 1..Len(old) /\ o < Len(new)
        BY <3>1, <2>3, <2>5, <2>6, <2>9, <1>a
      <4> QED BY <3>1, <4>1, <2>3, <2>6, <2>7
    <3>2. CASE v # current_version_
      BY <3>2, <2>7, <2>9
    <3> QED BY <3>1, <3>2
  <2>10. ASSUME NEW k \in Keys, hash_map_[k] # NULL, hash_map_[k] \notin flushed_
         PROVE  LET p == hash_map_[k] IN
                /\ p \in flushed_'
                /\ p.offset < Len(file_data'[p.version])
                /\ file_data'[p.version][p.offset + 1] =
                     write_buffer_[p.buffer_offset]
    <3>1. PICK p : p = hash_map_[k]
      OBVIOUS
    <3>2. /\ p.version = current_version_
          /\ p.offset = Len(old) + p.buffer_offset
          /\ p.buffer_offset < buffer_cur_ /\ p.buffer_offset \in Nat
          /\ key_buffer_[p.buffer_offset] = k
      BY <2>10, <3>1, <1>0, <1>b, <2>3 DEF PositionInv
    <3>3. p.buffer_offset \in 0..(buffer_cur_ - 1)
      BY <3>2, <1>a
    <3>4. p \in flushed_'
      BY <3>1, <3>2, <3>3, <2>1
    <3>5. p.offset < Len(new) /\ new[p.offset + 1] = write_buffer_[p.buffer_offset]
      BY <3>2, <3>3, <2>5, <2>6, <1>a
    <3> QED BY <3>1, <3>2, <3>4, <3>5, <2>7
  <2>11. \A i \in 0..(buffer_cur_ - 1) :
           key_buffer_[i] \in Keys /\ hash_map_[key_buffer_[i]] # NULL
    BY <1>0 DEF BufferInv
  <2>12. \A k \in Keys : hash_map_[k] # NULL =>
           hash_map_[k].offset < Len(file_data'[hash_map_[k].version])
    <3> SUFFICES ASSUME NEW k \in Keys, hash_map_[k] # NULL
                 PROVE hash_map_[k].offset < Len(file_data'[hash_map_[k].version])
      OBVIOUS
    <3>1. CASE hash_map_[k] \in flushed_
      BY <3>1, <1>b, <2>9 DEF PositionInv
    <3>2. CASE hash_map_[k] \notin flushed_
      BY <3>2, <2>10
    <3> QED BY <3>1, <3>2
  <2>13. \A p \in flushed_' : p \in Position /\ p.offset < Len(file_data'[p.version])
    <3>1. \A p \in flushed_ : p \in Position /\ p.offset < Len(file_data'[p.version])
      BY <2>9 DEF PositionInv, TypeOK, Position
    <3> QED BY <3>1, <2>1, <2>11, <2>12, <1>b
  <2>14. \A k \in Keys : hash_map_[k] # NULL => hash_map_[k] \in flushed_'
    BY <2>1, <2>10
  <2>15. TypeOK'
    <3>1. file_data' \in [Versions -> Seq(Values \cup {Garbage})]
      BY <2>7 DEF S
    <3>2. flushed_' \subseteq Position
      BY <2>13
    <3>3. buffer_cur_' \in 0..MaxAppCount /\ current_offset_' \in Nat
      BY <2>1
    <3> QED BY <1>0, <2>8, <3>1, <3>2, <3>3 DEF TypeOK
  <2>16. FilesInv'
    <3>1. Len(file_data'[current_version_']) = 0
      BY <2>8
    <3>2. \A v \in Versions : v > current_version_' => file_data'[v] = <<>>
      BY <2>1, <2>2, <2>7 DEF FilesInv, Versions
    <3>3. \A v \in deleted \cup evict_file_set_ \cup DOMAIN evict_file_map_ :
            v < current_version_'
      <4>1. \A v \in deleted \cup evict_file_set_ \cup DOMAIN evict_file_map_ :
              v \in Int /\ v < current_version_
        BY DEF FilesInv, Versions, TypeOK
      <4> QED BY <4>1, <2>1, <2>2
    <3> QED BY <1>0, <2>1, <3>1, <3>2, <3>3 DEF FilesInv
  <2>17. PositionInv'
    <3>1. \A k \in Keys : hash_map_[k] # NULL =>
            /\ hash_map_[k].version <= current_version_'
            /\ hash_map_[k].version \notin deleted
      BY <1>b, <2>1, <2>2 DEF PositionInv, Versions
    <3> QED BY <1>0, <2>13, <2>14, <3>1 DEF PositionInv
  <2>18. BufferInv'
    BY <2>1 DEF BufferInv
  <2>19. SaveInv' /\ MoveInv'
    BY <1>0, <1>c DEF SaveInv, MoveInv
  <2>20. StoreUnchanged
    <3> SUFFICES ASSUME NEW k \in Keys, hash_map_[k] # NULL
                 PROVE  Contents(hash_map_[k])' = Contents(hash_map_[k])
      BY <1>0 DEF StoreUnchanged, Lookup
    <3>1. Contents(hash_map_[k])' =
            Read(file_data'[hash_map_[k].version], hash_map_[k].offset)
      BY <1>0, <2>14 DEF Contents
    <3>2. CASE hash_map_[k] \in flushed_
      <4>1. /\ hash_map_[k].offset < Len(file_data[hash_map_[k].version])
            /\ hash_map_[k].version \in Versions /\ hash_map_[k].offset \in Nat
        BY <3>2, <1>b DEF PositionInv
      <4> QED BY <3>1, <3>2, <4>1, <2>9 DEF Contents, Read
    <3>3. CASE hash_map_[k] \notin flushed_
      BY <3>1, <3>3, <2>10 DEF Contents, Read
    <3> QED BY <3>2, <3>3
  <2> QED BY <2>14, <2>15, <2>16, <2>17, <2>18, <2>19, <2>20
<1> QED BY <1>1, <1>2, <1>a

\* What the refinement mapping shows of the checkpoint being written and of the
\* last complete one.
Snapshot == IF desc = NULL THEN NULL ELSE [k \in Keys |-> DescribedValue(desc, k)]
Saved == IF ckpt = NULL THEN NULL ELSE [k \in Keys |-> CheckpointedValue(ckpt, k)]

\* The parts of a descriptor and of a checkpoint.
LEMMA CheckpointParts ==
  ASSUME CkptTypeOK
  PROVE  /\ desc # NULL => /\ desc \in DescriptorType
                           /\ desc.posi \in [Keys -> Position \cup {NULL}]
                           /\ desc.files \subseteq Versions
         /\ ckpt # NULL => /\ ckpt \in CheckpointType
                           /\ ckpt.desc \in DescriptorType
                           /\ ckpt.desc.posi \in [Keys -> Position \cup {NULL}]
                           /\ ckpt.desc.files \subseteq Versions
                           /\ ckpt.desc.record_count \in [Versions -> Nat]
                           /\ ckpt.desc.invalid_record_count \in [Versions -> Nat]
                           /\ ckpt.data \in FilesType
  BY DEF CkptTypeOK, DescriptorType, CheckpointType

\* A file of a checkpoint is a sequence of records.
LEMMA FilesTypeElement ==
  ASSUME NEW f \in FilesType
  PROVE  /\ DOMAIN f \subseteq Versions
         /\ \A v \in DOMAIN f : f[v] \in Seq(Values \cup {Garbage})
  BY DEF FilesType

LEMMA FilesTypeIntro ==
  ASSUME NEW S \in SUBSET Versions, NEW f,
         f \in [S -> Seq(Values \cup {Garbage})]
  PROVE  f \in FilesType
  BY DEF FilesType

LEMMA NoFilesType == NoFiles \in FilesType /\ DOMAIN NoFiles = {}
<1>1. NoFiles \in [{} -> Seq(Values \cup {Garbage})]
  BY DEF NoFiles
<1> QED BY <1>1, FilesTypeIntro DEF NoFiles

\* A process begins with an empty store and no checkpoint.
LEMMA InitCkptInv == InitCheckpoint => CkptInv
<1> SUFFICES ASSUME InitCheckpoint PROVE CkptInv
  OBVIOUS
<1>1. IInv
  BY InitIInv DEF InitCheckpoint
<1>2. CkptTypeOK
  BY NoFilesType DEF InitCheckpoint, CkptTypeOK
<1>3. DescInv /\ CompleteInv /\ LoadInv
  BY DEF InitCheckpoint, DescInv, CompleteInv, LoadInv
<1> QED BY <1>1, <1>2, <1>3 DEF CkptInv

\* A commit, a flush or a compaction that runs while the files are copied does
\* not change what the descriptor says.
LEMMA CommitStepCkpt ==
  ASSUME CkptInv, CommitStep
  PROVE  /\ CkptInv' /\ UNCHANGED <<Snapshot, Saved>>
         /\ KV!Next \/ StorePreserved
<1>0. /\ Next /\ up = "running" /\ IInv
      /\ UNCHANGED <<up, desc, to_copy, copied, ckpt, to_load, file_id_map>>
  BY DEF CommitStep, CkptInv, ckptVars, saveVars, loadVars
<1>1. IInv' /\ (KV!Next \/ StorePreserved)
  BY <1>0, StepRefines
<1>2. CkptTypeOK' /\ CompleteInv' /\ LoadInv'
  BY <1>0 DEF CkptInv, CkptTypeOK, CompleteInv, LoadInv
<1>3. UNCHANGED Saved
  BY <1>0 DEF Saved, CheckpointedValue
<1>4. ASSUME desc # NULL, NEW k \in Keys, desc.posi[k] # NULL
      PROVE  LET p == desc.posi[k] IN
             /\ p.offset < Len(DescribedFile(p.version))'
             /\ Read(DescribedFile(p.version)', p.offset) =
                  Read(DescribedFile(p.version), p.offset)
  <2>1. PICK p : p = desc.posi[k]
    OBVIOUS
  <2>2. p.version \in Versions /\ p.offset \in Nat
    BY <1>4, <2>1, CheckpointParts DEF CkptInv, Position
  <2>3. p.offset < Len(DescribedFile(p.version))
    BY <1>4, <2>1 DEF CkptInv, DescInv
  <2>4. CASE p.version \in DOMAIN copied
    BY <1>0, <2>1, <2>3, <2>4 DEF DescribedFile
  <2>5. CASE p.version \notin DOMAIN copied
    <3>1. p.offset < Len(file_data[p.version])
      BY <2>3, <2>5 DEF DescribedFile
    <3>2. /\ p.offset < Len(file_data'[p.version])
          /\ file_data'[p.version][p.offset + 1] =
               file_data[p.version][p.offset + 1]
      BY <1>0, <2>2, <3>1, FilesGrow
    <3> QED BY <1>0, <2>1, <2>5, <3>1, <3>2 DEF DescribedFile, Read
  <2> QED BY <2>4, <2>5
<1>5. DescInv'
  <2> SUFFICES ASSUME desc # NULL PROVE DescInv'
    BY <1>0 DEF DescInv
  <2>1. \A k \in Keys : desc.posi[k] # NULL =>
          desc.posi[k].offset < Len(DescribedFile(desc.posi[k].version))'
    BY <1>4
  <2> QED BY <1>0, <2>1 DEF CkptInv, DescInv
<1>6. UNCHANGED Snapshot
  <2> SUFFICES ASSUME desc # NULL, NEW k \in Keys, desc.posi[k] # NULL
               PROVE  DescribedValue(desc, k)' = DescribedValue(desc, k)
    BY <1>0 DEF Snapshot, DescribedValue
  <2>1. /\ DescribedValue(desc, k) =
             Read(DescribedFile(desc.posi[k].version), desc.posi[k].offset)
        /\ DescribedValue(desc, k)' =
             Read(DescribedFile(desc.posi[k].version)', desc.posi[k].offset)
    BY <1>0 DEF DescribedValue, DescribedFile
  <2> QED BY <2>1, <1>4
<1> QED BY <1>1, <1>2, <1>3, <1>5, <1>6 DEF CkptInv

\* SetSsdRecordDescriptor: the descriptor says what lookups return now.
LEMMA DescriptorStep ==
  ASSUME CkptInv, SetSsdRecordDescriptor
  PROVE  /\ CkptInv' /\ StorePreserved /\ UNCHANGED Saved
         /\ Pending = <<>> /\ Snapshot = NULL /\ Snapshot' = AbstractStore
<1>0. /\ up = "running" /\ pc = "idle" /\ desc = NULL /\ IInv
      /\ desc' = Descriptor /\ to_copy' = Descriptor.files /\ copied' = NoFiles
      /\ UNCHANGED <<hash_map_, file_count, file_invalid, deleted, batch, pc, rec,
                     up, ckpt, to_load, file_id_map>>
  BY DEF SetSsdRecordDescriptor, CkptInv, loadVars, loopVars
<1>1. /\ IInv' /\ StoreUnchanged
      /\ \A k \in Keys : hash_map_[k] # NULL => hash_map_[k] \in flushed_'
  BY <1>0, FlushForSaveStep
<1>2. Pending = <<>> /\ Pending' = <<>>
  BY <1>0 DEF Pending, Saving, IInv, SaveInv
<1>3. StorePreserved
  BY <1>1, <1>2 DEF StorePreserved, StoreUnchanged, AbstractStore
<1>4. /\ Descriptor \in DescriptorType /\ Descriptor # NULL
      /\ Descriptor.posi = hash_map_
      /\ Descriptor.files = {v \in 0..current_version_ : v \notin deleted}
      /\ Descriptor.files \subseteq Versions
  <2>1. {v \in 0..current_version_ : v \notin deleted} \subseteq Versions
    BY <1>0, MaxFilesAssumption DEF IInv, TypeOK, Versions
  <2>2. Descriptor \in DescriptorType
    BY <1>0, <2>1 DEF IInv, TypeOK, Descriptor, DescriptorType
  <2> QED BY <2>1, <2>2, NoDescriptorAssumption DEF Descriptor
<1>5. CkptTypeOK'
  BY <1>0, <1>4, NoFilesType DEF CkptInv, CkptTypeOK
<1>6. CompleteInv' /\ LoadInv'
  BY <1>0 DEF CkptInv, CompleteInv, LoadInv
<1>7. ASSUME NEW k \in Keys, hash_map_[k] # NULL
      PROVE  LET p == hash_map_[k] IN
             /\ p.version \in Descriptor.files
             /\ DescribedFile(p.version)' = file_data'[p.version]
             /\ p.offset < Len(file_data'[p.version])
  <2>1. hash_map_[k].offset < Len(file_data'[hash_map_[k].version])
    BY <1>1, <1>7 DEF IInv, PositionInv
  <2>2. hash_map_[k].version \in Descriptor.files
    BY <1>0, <1>4, <1>7 DEF IInv, PositionInv, TypeOK, Position, Versions
  <2> QED BY <1>0, <2>1, <2>2, NoFilesType DEF DescribedFile
<1>8. DescInv'
  <2>1. desc'.posi = hash_map_ /\ desc'.files = DOMAIN copied' \cup to_copy'
        /\ DOMAIN copied' = {}
    BY <1>0, <1>4, NoFilesType
  <2> QED BY <1>0, <1>7, <2>1 DEF DescInv
<1>9. Snapshot' = AbstractStore
  <2>1. \A k \in Keys : DescribedValue(desc, k)' = Lookup(k)
    <3> SUFFICES ASSUME NEW k \in Keys PROVE DescribedValue(desc, k)' = Lookup(k)
      OBVIOUS
    <3>1. desc'.posi[k] = hash_map_[k] /\ DOMAIN copied' = {}
      BY <1>0, <1>4, NoFilesType
    <3>2. CASE hash_map_[k] = NULL
      BY <3>1, <3>2 DEF DescribedValue, Lookup
    <3>3. CASE hash_map_[k] # NULL
      <4>1. DescribedValue(desc, k)' =
              Read(file_data'[hash_map_[k].version], hash_map_[k].offset)
        BY <3>1, <3>3 DEF DescribedValue
      <4>2. Lookup(k)' =
              Read(file_data'[hash_map_[k].version], hash_map_[k].offset)
        BY <1>0, <1>1, <3>3 DEF Lookup, Contents
      <4> QED BY <1>1, <4>1, <4>2 DEF StoreUnchanged
    <3> QED BY <3>2, <3>3
  <2>2. desc' # NULL
    BY <1>0, <1>4
  <2> QED BY <2>1, <2>2 DEF Snapshot, AbstractStore
<1>10. UNCHANGED Saved /\ Snapshot = NULL
  BY <1>0 DEF Saved, CheckpointedValue, Snapshot
<1> QED BY <1>1, <1>2, <1>3, <1>5, <1>6, <1>8, <1>9, <1>10 DEF CkptInv

\* CopyEmbeddingfilesToCkptDir copies what the store's directory holds.
LEMMA CopyFileStep ==
  ASSUME CkptInv, NEW v \in Versions, CopyFile(v)
  PROVE  CkptInv' /\ StorePreserved /\ UNCHANGED <<Snapshot, Saved>>
<1>0. /\ up = "running" /\ v \in to_copy /\ IInv
      /\ to_copy' = to_copy \ {v}
      /\ copied' = [w \in DOMAIN copied \cup {v} |->
                      IF w = v THEN file_data[v] ELSE copied[w]]
      /\ UNCHANGED <<vars, up, desc, ckpt, to_load, file_id_map>>
  BY DEF CopyFile, Least, CkptInv, loadVars
<1>1. IInv' /\ StorePreserved
  BY <1>0, StorePreservedByOthers DEF StorePreserved
<1>2. UNCHANGED file_data /\ file_data[v] \in Seq(Values \cup {Garbage})
  BY <1>0 DEF vars, fileVars, IInv, TypeOK
<1>3. copied' \in FilesType /\ DOMAIN copied' = DOMAIN copied \cup {v}
  <2>1. /\ DOMAIN copied \subseteq Versions
        /\ \A w \in DOMAIN copied : copied[w] \in Seq(Values \cup {Garbage})
    BY FilesTypeElement DEF CkptInv, CkptTypeOK
  <2>2. copied' \in [DOMAIN copied \cup {v} -> Seq(Values \cup {Garbage})]
    BY <1>0, <1>2, <2>1
  <2> QED BY <2>1, <2>2, FilesTypeIntro
<1>4. CkptTypeOK'
  BY <1>0, <1>3 DEF CkptInv, CkptTypeOK
<1>5. CompleteInv'
  BY <1>0 DEF CkptInv, CompleteInv
<1>6. LoadInv'
  BY <1>0 DEF CkptInv, LoadInv
<1>7. desc # NULL => v \notin DOMAIN copied
  BY <1>0 DEF CkptInv, DescInv
<1>8. desc # NULL => \A w : DescribedFile(w)' = DescribedFile(w)
  BY <1>0, <1>2, <1>3, <1>7 DEF DescribedFile
<1>9. DescInv'
  BY <1>0, <1>3, <1>7, <1>8 DEF CkptInv, DescInv
<1>10. UNCHANGED Snapshot
  <2> SUFFICES ASSUME desc # NULL, NEW k \in Keys, desc.posi[k] # NULL
               PROVE  DescribedValue(desc, k)' = DescribedValue(desc, k)
    BY <1>0 DEF Snapshot, DescribedValue
  <2>1. PICK w : w = desc.posi[k].version
    OBVIOUS
  <2>2. /\ DescribedValue(desc, k) = Read(DescribedFile(w), desc.posi[k].offset)
        /\ DescribedValue(desc, k)' = Read(DescribedFile(w)', desc.posi[k].offset)
    BY <1>0, <2>1 DEF DescribedValue, DescribedFile
  <2> QED BY <2>2, <1>8
<1>11. UNCHANGED Saved
  BY <1>0 DEF Saved, CheckpointedValue
<1> QED BY <1>1, <1>4, <1>5, <1>6, <1>9, <1>10, <1>11 DEF CkptInv

\* The last file is copied: the checkpoint counts, and says what the descriptor
\* said.
LEMMA CompleteStep ==
  ASSUME CkptInv, CheckpointComplete
  PROVE  /\ CkptInv' /\ StorePreserved
         /\ Snapshot # NULL /\ Snapshot' = NULL /\ Saved' = Snapshot
<1>0. /\ up = "running" /\ desc # NULL /\ to_copy = {} /\ IInv
      /\ ckpt' = [desc |-> desc, data |-> copied]
      /\ desc' = NULL /\ copied' = NoFiles
      /\ UNCHANGED <<vars, up, to_copy, to_load, file_id_map>>
  BY DEF CheckpointComplete, CkptInv, loadVars
<1>1. IInv' /\ StorePreserved
  BY <1>0, StorePreservedByOthers DEF StorePreserved
<1>2. desc \in DescriptorType /\ desc.posi \in [Keys -> Position \cup {NULL}]
  BY <1>0, CheckpointParts DEF CkptInv
<1>3. /\ ckpt' \in CheckpointType /\ ckpt' # NULL
      /\ ckpt'.desc = desc /\ ckpt'.data = copied
  BY <1>0, <1>2, NoCheckpointAssumption DEF CheckpointType, CkptInv, CkptTypeOK
<1>4. CkptTypeOK'
  BY <1>0, <1>3, NoFilesType DEF CkptInv, CkptTypeOK
<1>5. /\ DOMAIN copied = desc.files
      /\ \A k \in Keys : desc.posi[k] # NULL =>
           /\ desc.posi[k].version \in DOMAIN copied
           /\ desc.posi[k].offset < Len(copied[desc.posi[k].version])
  BY <1>0 DEF CkptInv, DescInv, DescribedFile
<1>6. DescInv' /\ CompleteInv'
  BY <1>0, <1>3, <1>5 DEF DescInv, CompleteInv
<1>7. LoadInv'
  BY <1>0 DEF LoadInv
<1>8. \A k \in Keys : /\ CheckpointedValue(ckpt, k)' = DescribedValue(desc, k)
                      /\ DescribedValue(desc, k) \in Values \cup {Garbage, NULL}
  <2> SUFFICES ASSUME NEW k \in Keys
               PROVE  /\ CheckpointedValue(ckpt, k)' = DescribedValue(desc, k)
                      /\ DescribedValue(desc, k) \in Values \cup {Garbage, NULL}
    OBVIOUS
  <2>1. CASE desc.posi[k] = NULL
    BY <1>3, <2>1 DEF CheckpointedValue, DescribedValue
  <2>2. CASE desc.posi[k] # NULL
    <3>1. desc.posi[k].version \in DOMAIN copied /\ desc.posi[k].offset \in Nat
      BY <1>2, <1>5, <2>2 DEF Position
    <3>2. copied[desc.posi[k].version] \in Seq(Values \cup {Garbage})
      BY <3>1, FilesTypeElement DEF CkptInv, CkptTypeOK
    <3>3. Read(copied[desc.posi[k].version], desc.posi[k].offset)
            \in Values \cup {Garbage}
      BY <3>1, <3>2, ReadType
    <3> QED BY <1>3, <2>2, <3>1, <3>3 DEF CheckpointedValue, DescribedValue
  <2> QED BY <2>1, <2>2
<1>9. Snapshot \in [Keys -> Values \cup {Garbage, NULL}]
  BY <1>0, <1>8 DEF Snapshot
<1>10. Saved' = Snapshot
  BY <1>0, <1>3, <1>8 DEF Saved, Snapshot
<1>11. Snapshot # NULL /\ Snapshot' = NULL
  BY <1>0, <1>9, NoMapAssumption DEF Snapshot
<1> QED BY <1>1, <1>4, <1>6, <1>7, <1>10, <1>11 DEF CkptInv

\* The process dies: everything but the last complete checkpoint is gone.
LEMMA DieStep ==
  ASSUME CkptInv, Die, to_load' \subseteq Versions,
         DOMAIN file_id_map' \subseteq Versions
  PROVE  /\ CkptInv' /\ UNCHANGED Saved
         /\ Pending' = <<>> /\ Snapshot' = NULL
         /\ AbstractStore' = [k \in Keys |-> NULL]
<1> USE MaxAppCountAssumption, MaxFilesAssumption
<1>0. up' = "down" /\ desc' = NULL /\ to_copy' = {} /\ copied' = NoFiles
      /\ UNCHANGED ckpt
  BY DEF Die
<1>a. /\ hash_map_' = [k \in Keys |-> NULL] /\ flushed_' = {} /\ deleted' = {}
      /\ file_data' = [v \in Versions |-> <<>>]
      /\ file_count' = [v \in Versions |-> 0]
      /\ file_invalid' = [v \in Versions |-> 0]
      /\ current_version_' = 0 /\ current_offset_' = 0 /\ buffer_cur_' = 0
      /\ write_buffer_' = [i \in Slots |-> Garbage]
      /\ key_buffer_' = [i \in Slots |-> Garbage]
      /\ total_app_count_' = 0 /\ evict_file_set_' = {}
      /\ evict_file_map_' = [v \in {} |-> {}]
      /\ pc' = "idle" /\ batch' = <<>> /\ files_left' = {} /\ items_left' = {}
      /\ rec' = NULL /\ ep' = NULL
  BY DEF Die
<1>1. TypeOK'
  BY <1>a DEF TypeOK, Versions, Slots, PCs
<1>2. FilesInv' /\ PositionInv' /\ BufferInv' /\ SaveInv' /\ MoveInv'
  BY <1>a DEF FilesInv, PositionInv, BufferInv, SaveInv, MoveInv, Saving,
         Moving, Versions
<1>3. CkptTypeOK'
  BY <1>0, NoFilesType DEF CkptInv, CkptTypeOK
<1>4. DescInv' /\ CompleteInv'
  BY <1>0 DEF CkptInv, DescInv, CompleteInv
<1>5. LoadInv'
  BY <1>0, <1>a DEF LoadInv, StoreEmpty
<1>6. UNCHANGED Saved /\ Snapshot' = NULL
  BY <1>0 DEF Saved, Snapshot, CheckpointedValue
<1>7. Pending' = <<>> /\ AbstractStore' = [k \in Keys |-> NULL]
  BY <1>a DEF Pending, Saving, AbstractStore, Lookup
<1> QED BY <1>1, <1>2, <1>3, <1>4, <1>5, <1>6, <1>7 DEF CkptInv, IInv

\* A step of the restore that only moves its own control.
LEMMA RestoreControlStep ==
  ASSUME CkptInv, StartFresh \/ StartRestore \/ EndOfLoad
  PROVE  CkptInv' /\ StorePreserved /\ UNCHANGED <<Snapshot, Saved>>
<1>0. /\ IInv /\ up # "running" /\ desc = NULL
      /\ UNCHANGED <<vars, desc, to_copy, copied, ckpt>>
  BY DEF StartFresh, StartRestore, EndOfLoad, saveVars, CkptInv, DescInv
<1>1. IInv' /\ StorePreserved
  BY <1>0, StorePreservedByOthers DEF StorePreserved
<1>2. CkptTypeOK'
  <2>1. to_load' \subseteq Versions /\ DOMAIN file_id_map' \subseteq Versions
    BY CheckpointParts DEF StartFresh, StartRestore, EndOfLoad, loadVars,
         CkptInv, CkptTypeOK
  <2>2. up' \in {"running", "down", "loading", "importing"}
    BY DEF StartFresh, StartRestore, EndOfLoad
  <2> QED BY <1>0, <2>1, <2>2 DEF CkptInv, CkptTypeOK
<1>3. DescInv' /\ CompleteInv'
  BY <1>0 DEF CkptInv, DescInv, CompleteInv
<1>4. StoreEmpty /\ StoreEmpty'
  BY <1>0 DEF CkptInv, LoadInv, StoreEmpty, vars, fileVars, bufferVars, evictVars
<1>5. LoadInv'
  <2>1. CASE StartFresh
    BY <2>1 DEF StartFresh, LoadInv
  <2>2. CASE StartRestore
    BY <1>0, <1>4, <2>2 DEF StartRestore, LoadInv
  <2>3. CASE EndOfLoad
    <3>1. UNCHANGED <<current_version_, file_data, to_load, file_id_map, ckpt>>
          /\ up = "loading" /\ up' = "importing" /\ to_load = {}
      BY <2>3 DEF EndOfLoad, vars, fileVars, loadVars, saveVars
    <3> QED BY <1>4, <3>1 DEF CkptInv, LoadInv
  <2> QED BY <2>1, <2>2, <2>3
<1>6. UNCHANGED <<Snapshot, Saved>>
  BY <1>0 DEF Snapshot, Saved, CheckpointedValue
<1> QED BY <1>1, <1>2, <1>3, <1>5, <1>6 DEF CkptInv

\* LoadExistFile adopts one file of the checkpoint as current_version_ and goes
\* on to the next version; no key points anywhere yet.
LEMMA LoadExistFileStep ==
  ASSUME CkptInv, NEW v \in Versions, LoadExistFile(v)
  PROVE  CkptInv' /\ StorePreserved /\ UNCHANGED <<Snapshot, Saved>>
<1> USE MaxAppCountAssumption, MaxFilesAssumption
<1>0. /\ up = "loading" /\ v \in to_load /\ current_version_ < MaxFiles
      /\ file_data' = [file_data EXCEPT ![current_version_] = ckpt.data[v]]
      /\ file_count' = [file_count EXCEPT ![current_version_] =
                          ckpt.desc.record_count[v]]
      /\ file_invalid' = [file_invalid EXCEPT ![current_version_] =
                            ckpt.desc.invalid_record_count[v]]
      /\ total_app_count_' = total_app_count_ + ckpt.desc.record_count[v]
      /\ file_id_map' = [w \in DOMAIN file_id_map \cup {v} |->
                           IF w = v THEN current_version_ ELSE file_id_map[w]]
      /\ current_version_' = current_version_ + 1
      /\ to_load' = to_load \ {v}
  BY DEF LoadExistFile, Least
<1>a. UNCHANGED <<hash_map_, flushed_, deleted, current_offset_, buffer_cur_,
                  write_buffer_, key_buffer_, evict_file_set_, evict_file_map_,
                  pc, batch, files_left, items_left, rec, ep, up, desc, to_copy,
                  copied, ckpt>>
  BY DEF LoadExistFile, bufferVars, evictVars, loopVars, saveVars
<1>b. /\ TypeOK /\ FilesInv /\ BufferInv /\ SaveInv /\ MoveInv /\ StoreEmpty
      /\ desc = NULL /\ ckpt # NULL
      /\ ckpt.desc.files = DOMAIN file_id_map \cup to_load
      /\ DOMAIN ckpt.data = ckpt.desc.files
  BY <1>0 DEF CkptInv, IInv, LoadInv, DescInv, CompleteInv
<1>1. /\ ckpt.data[v] \in Seq(Values \cup {Garbage})
      /\ ckpt.desc.record_count[v] \in Nat
      /\ ckpt.desc.invalid_record_count[v] \in Nat
  <2>1. /\ ckpt.data \in FilesType
        /\ ckpt.desc.record_count \in [Versions -> Nat]
        /\ ckpt.desc.invalid_record_count \in [Versions -> Nat]
    BY <1>b, CheckpointParts DEF CkptInv
  <2>2. v \in DOMAIN ckpt.data
    BY <1>0, <1>b
  <2>3. ckpt.data[v] \in Seq(Values \cup {Garbage})
    BY <2>1, <2>2, FilesTypeElement
  <2> QED BY <2>1, <2>3
<1>2. /\ current_version_ \in Versions /\ current_version_ \in Nat
      /\ current_version_' \in Versions
  BY <1>0, <1>b DEF TypeOK, Versions
<1>3. TypeOK'
  <2>1. file_data' \in [Versions -> Seq(Values \cup {Garbage})]
    BY <1>0, <1>1, <1>2, <1>b DEF TypeOK
  <2>2. file_count' \in [Versions -> Nat]
    BY <1>0, <1>1, <1>2, <1>b DEF TypeOK
  <2>3. file_invalid' \in [Versions -> Nat]
    BY <1>0, <1>1, <1>2, <1>b DEF TypeOK
  <2>4. total_app_count_' \in Int
    <3>1. total_app_count_ \in Int
      BY <1>b DEF TypeOK
    <3> QED BY <1>0, <1>1, <3>1
  <2> QED BY <1>a, <1>b, <1>2, <2>1, <2>2, <2>3, <2>4 DEF TypeOK
<1>4. /\ file_data'[current_version_] = ckpt.data[v]
      /\ \A w \in Versions : w # current_version_ => file_data'[w] = file_data[w]
  BY <1>0, <1>2, <1>b DEF TypeOK
<1>5. FilesInv'
  <2>1. /\ file_data[current_version_'] = <<>>
        /\ file_data'[current_version_'] = file_data[current_version_']
    BY <1>0, <1>2, <1>4, <1>b DEF FilesInv
  <2>2. \A w \in Versions : w > current_version_' => file_data'[w] = <<>>
    BY <1>0, <1>2, <1>4, <1>b DEF FilesInv, Versions
  <2> QED BY <1>a, <1>b, <2>1, <2>2 DEF FilesInv, StoreEmpty
<1>6. PositionInv' /\ BufferInv' /\ SaveInv' /\ MoveInv'
  <2>1. ~Saving /\ ~Saving' /\ ~Moving /\ ~Moving'
    BY <1>a, <1>b DEF StoreEmpty, Saving, Moving
  <2>2. PositionInv'
    BY <1>a, <1>b DEF StoreEmpty, PositionInv
  <2>3. BufferInv' /\ SaveInv'
    BY <1>a, <1>b, <2>1 DEF BufferInv, SaveInv, StoreEmpty
  <2>4. MoveInv'
    BY <1>a, <1>b, <2>1 DEF MoveInv
  <2> QED BY <2>2, <2>3, <2>4
<1>7. CkptTypeOK'
  <2>1. DOMAIN file_id_map' \subseteq Versions /\ to_load' \subseteq Versions
    BY <1>0 DEF CkptInv, CkptTypeOK
  <2> QED BY <1>a, <2>1 DEF CkptInv, CkptTypeOK
<1>8. DescInv' /\ CompleteInv'
  BY <1>a, <1>b DEF CkptInv, DescInv, CompleteInv
<1>9. LoadInv'
  <2>1. StoreEmpty'
    BY <1>a, <1>b DEF StoreEmpty
  <2>2. ckpt.desc.files = DOMAIN file_id_map' \cup to_load'
    BY <1>0, <1>b
  <2>3. ASSUME NEW w \in DOMAIN file_id_map'
        PROVE  /\ file_id_map'[w] \in Versions
               /\ file_id_map'[w] < current_version_'
               /\ file_data'[file_id_map'[w]] = ckpt.data[w]
    <3>1. CASE w = v
      <4>1. file_id_map'[w] = current_version_
        BY <1>0, <3>1
      <4> QED BY <1>0, <1>2, <1>4, <3>1, <4>1
    <3>2. CASE w # v
      <4>1. w \in DOMAIN file_id_map /\ file_id_map'[w] = file_id_map[w]
        BY <1>0, <3>2
      <4>2. /\ file_id_map[w] \in Versions /\ file_id_map[w] < current_version_
            /\ file_data[file_id_map[w]] = ckpt.data[w]
        BY <1>0, <4>1 DEF CkptInv, LoadInv
      <4>3. file_id_map[w] \in Nat /\ file_id_map[w] # current_version_
        BY <1>2, <4>2 DEF Versions
      <4> QED BY <1>0, <1>2, <1>4, <4>1, <4>2, <4>3
    <3> QED BY <3>1, <3>2
  <2> QED BY <1>0, <1>a, <1>b, <2>1, <2>2, <2>3 DEF LoadInv
<1>10. StorePreserved
  <2>1. /\ AbstractStore = [k \in Keys |-> NULL]
        /\ AbstractStore' = [k \in Keys |-> NULL]
    BY <1>a, <1>b DEF AbstractStore, Lookup, StoreEmpty
  <2>2. UNCHANGED Pending
    BY <1>a DEF Pending, Saving
  <2> QED BY <2>1, <2>2 DEF StorePreserved
<1>11. UNCHANGED <<Snapshot, Saved>>
  BY <1>a, <1>b DEF Snapshot, Saved, CheckpointedValue
<1> QED BY <1>3, <1>5, <1>6, <1>7, <1>8, <1>9, <1>10, <1>11 DEF CkptInv, IInv

\* Import: every key gets the record the checkpoint has for it, in the file
\* that LoadExistFile renumbered.
LEMMA ImportStep ==
  ASSUME CkptInv, Import
  PROVE  /\ CkptInv' /\ UNCHANGED <<Snapshot, Saved, Pending>>
         /\ Pending = <<>> /\ Saved # NULL
         /\ AbstractStore = [k \in Keys |-> NULL]
         /\ AbstractStore' = Saved
<1> USE MaxAppCountAssumption, MaxFilesAssumption
<1>0. /\ up = "importing" /\ up' = "running"
      /\ hash_map_' = [k \in Keys |->
           IF ckpt.desc.posi[k] = NULL THEN NULL
           ELSE ImportedPosition(ckpt.desc.posi[k])]
      /\ flushed_' = {hash_map_'[k] : k \in Keys} \ {NULL}
  BY DEF Import
<1>a. UNCHANGED <<file_data, file_count, file_invalid, deleted,
                  current_version_, current_offset_, buffer_cur_, write_buffer_,
                  key_buffer_, total_app_count_, evict_file_set_,
                  evict_file_map_, pc, batch, files_left, items_left, rec, ep,
                  desc, to_copy, copied, ckpt, to_load, file_id_map>>
  BY DEF Import, fileVars, bufferVars, evictVars, loopVars, saveVars, loadVars
<1>b. /\ TypeOK /\ FilesInv /\ BufferInv /\ SaveInv /\ MoveInv /\ StoreEmpty
      /\ desc = NULL /\ ckpt # NULL
      /\ ckpt.desc.files = DOMAIN file_id_map
      /\ DOMAIN ckpt.data = ckpt.desc.files
      /\ ckpt.desc.posi \in [Keys -> Position \cup {NULL}]
  BY <1>0, CheckpointParts DEF CkptInv, IInv, LoadInv, DescInv, CompleteInv
<1>1. ASSUME NEW k \in Keys, ckpt.desc.posi[k] # NULL
      PROVE  /\ hash_map_'[k] \in Position /\ hash_map_'[k] # NULL
             /\ hash_map_'[k].version < current_version_
             /\ hash_map_'[k].offset < Len(file_data[hash_map_'[k].version])
             /\ CheckpointedValue(ckpt, k) =
                  Read(file_data[hash_map_'[k].version], hash_map_'[k].offset)
             /\ CheckpointedValue(ckpt, k) \in Values \cup {Garbage}
  <2>1. PICK p : p = ckpt.desc.posi[k]
    OBVIOUS
  <2>2. /\ p \in Position /\ p.version \in Versions /\ p.offset \in Nat
        /\ p.version \in DOMAIN file_id_map
        /\ p.offset < Len(ckpt.data[p.version])
    BY <1>1, <1>b, <2>1 DEF CkptInv, CompleteInv, Position
  <2>3. PICK q : q = hash_map_'[k]
    OBVIOUS
  <2>4. q = [version |-> file_id_map[p.version], offset |-> p.offset,
             buffer_offset |-> 0]
    BY <1>0, <1>1, <2>1, <2>3 DEF ImportedPosition
  <2>5. /\ file_id_map[p.version] \in Versions
        /\ file_id_map[p.version] < current_version_
        /\ file_data[file_id_map[p.version]] = ckpt.data[p.version]
    BY <1>0, <2>2 DEF CkptInv, LoadInv
  <2>6. q \in Position /\ q # NULL
    BY <2>2, <2>4, <2>5, NULLAssumption DEF Position
  <2>7. q.version < current_version_ /\ q.offset < Len(file_data[q.version])
    BY <2>2, <2>4, <2>5
  <2>8. CheckpointedValue(ckpt, k) = Read(file_data[q.version], q.offset)
    BY <1>1, <2>1, <2>4, <2>5 DEF CheckpointedValue
  <2>9. Read(file_data[q.version], q.offset) \in Values \cup {Garbage}
    <3>1. file_data[q.version] \in Seq(Values \cup {Garbage}) /\ q.offset \in Nat
      BY <1>b, <2>2, <2>4, <2>5 DEF TypeOK
    <3> QED BY <3>1, ReadType
  <2> QED BY <2>3, <2>6, <2>7, <2>8, <2>9
<1>2. \A k \in Keys : ckpt.desc.posi[k] = NULL =>
        hash_map_'[k] = NULL /\ CheckpointedValue(ckpt, k) = NULL
  BY <1>0 DEF CheckpointedValue
<1>3. TypeOK'
  <2>1. hash_map_' \in [Keys -> Position \cup {NULL}]
    <3>1. \A k \in Keys : hash_map_'[k] \in Position \cup {NULL}
      BY <1>1, <1>2
    <3>2. DOMAIN hash_map_' = Keys /\ hash_map_' = [k \in Keys |-> hash_map_'[k]]
      BY <1>0
    <3> QED BY <3>1, <3>2
  <2>2. flushed_' \subseteq Position
    BY <1>0, <2>1
  <2> QED BY <1>a, <1>b, <2>1, <2>2 DEF TypeOK
<1>4. FilesInv'
  BY <1>a, <1>b DEF FilesInv
<1>5. \A k \in Keys : hash_map_'[k] # NULL => hash_map_'[k] \in flushed_'
  BY <1>0
<1>6. PositionInv'
  <2>1. \A p \in flushed_' : p.offset < Len(file_data[p.version])
    BY <1>0, <1>1, <1>2
  <2>2. \A k \in Keys : hash_map_'[k] # NULL =>
          hash_map_'[k].version <= current_version_
    <3> SUFFICES ASSUME NEW k \in Keys, hash_map_'[k] # NULL
                 PROVE  hash_map_'[k].version <= current_version_
      OBVIOUS
    <3>1. hash_map_'[k] \in Position /\ hash_map_'[k].version < current_version_
      BY <1>1, <1>2
    <3>2. hash_map_'[k].version \in Nat /\ current_version_ \in Nat
      <4>1. current_version_ \in Versions
        BY <1>b DEF TypeOK
      <4> QED BY <3>1, <4>1 DEF Position, Versions
    <3> QED BY <3>1, <3>2
  <2> QED BY <1>a, <1>b, <1>5, <2>1, <2>2 DEF PositionInv, StoreEmpty
<1>7. BufferInv' /\ SaveInv' /\ MoveInv'
  <2>1. ~Saving /\ ~Saving' /\ ~Moving /\ ~Moving'
    BY <1>a, <1>b DEF StoreEmpty, Saving, Moving
  <2>2. BufferInv' /\ SaveInv'
    BY <1>a, <1>b, <2>1 DEF BufferInv, SaveInv, StoreEmpty
  <2>3. MoveInv'
    BY <1>a, <1>b, <2>1 DEF MoveInv, StoreEmpty
  <2> QED BY <2>2, <2>3
<1>8. CkptTypeOK'
  BY <1>0, <1>a DEF CkptInv, CkptTypeOK
<1>9. DescInv' /\ CompleteInv' /\ LoadInv'
  BY <1>0, <1>a, <1>b DEF CkptInv, DescInv, CompleteInv, LoadInv
<1>10. Pending = <<>> /\ Pending' = <<>>
  BY <1>a, <1>b DEF Pending, Saving, StoreEmpty, SaveInv
<1>11. UNCHANGED <<Snapshot, Saved>>
  BY <1>a, <1>b DEF Snapshot, Saved, CheckpointedValue
<1>12. AbstractStore = [k \in Keys |-> NULL]
  BY <1>b DEF AbstractStore, Lookup, StoreEmpty
<1>13. Saved = [k \in Keys |-> CheckpointedValue(ckpt, k)]
  BY <1>b DEF Saved
<1>14. AbstractStore' = Saved
  <2>1. \A k \in Keys : Lookup(k)' = CheckpointedValue(ckpt, k)
    <3> SUFFICES ASSUME NEW k \in Keys PROVE Lookup(k)' = CheckpointedValue(ckpt, k)
      OBVIOUS
    <3>1. CASE ckpt.desc.posi[k] = NULL
      BY <1>2, <3>1 DEF Lookup
    <3>2. CASE ckpt.desc.posi[k] # NULL
      BY <1>1, <1>5, <1>a, <3>2 DEF Lookup, Contents
    <3> QED BY <3>1, <3>2
  <2> QED BY <1>13, <2>1 DEF AbstractStore
<1>15. Saved # NULL
  <2>1. Saved \in [Keys -> Values \cup {Garbage, NULL}]
    BY <1>1, <1>2, <1>13
  <2> QED BY <2>1, NoMapAssumption
<1> QED BY <1>3, <1>4, <1>6, <1>7, <1>8, <1>9, <1>10, <1>11, <1>12, <1>14,
           <1>15 DEF CkptInv, IInv

\* A step with checkpoints is a step of the abstract one, or leaves it alone.
LEMMA CkptStepRefines ==
  ASSUME CkptInv, [NextCheckpoint]_allVars
  PROVE  /\ CkptInv'
         /\ CS!Next \/ UNCHANGED <<AbstractStore, Pending, Snapshot, Saved>>
<1>1. CASE CommitStep
  <2>1. /\ CkptInv' /\ UNCHANGED <<Snapshot, Saved>>
        /\ KV!Next \/ StorePreserved
    BY <1>1, CommitStepCkpt
  <2>2. CASE KV!Next
    BY <2>1, <2>2 DEF KV!Next, KV!BatchCommit, KV!Commit, CS!Next,
         CS!BatchCommit, CS!Commit, AbstractStore, Snapshot, Saved
  <2>3. CASE StorePreserved
    BY <2>1, <2>3 DEF StorePreserved
  <2> QED BY <2>1, <2>2, <2>3
<1>2. CASE SetSsdRecordDescriptor
  BY <1>2, DescriptorStep DEF StorePreserved, AbstractStore, Snapshot, Saved,
       CS!Next, CS!BeginSave
<1>3. CASE \E v \in Versions : CopyFile(v)
  BY <1>3, CopyFileStep DEF StorePreserved
<1>4. CASE CheckpointComplete
  BY <1>4, CompleteStep DEF StorePreserved, AbstractStore, Snapshot, Saved,
       CS!Next, CS!EndSave
<1>5. CASE Crash \/ \E v \in Versions : CopyFileFails(v)
  <2>1. Die /\ to_load' \subseteq Versions /\ DOMAIN file_id_map' \subseteq Versions
    BY <1>5 DEF Crash, CopyFileFails, loadVars, CkptInv, CkptTypeOK
  <2>2. /\ CkptInv' /\ UNCHANGED Saved
        /\ Pending' = <<>> /\ Snapshot' = NULL
        /\ AbstractStore' = [k \in Keys |-> NULL]
    BY <2>1, DieStep
  <2> QED BY <2>2 DEF AbstractStore, Snapshot, Saved, CS!Next, CS!Crash, CS!Empty
<1>6. CASE StartFresh \/ StartRestore \/ EndOfLoad
  BY <1>6, RestoreControlStep DEF StorePreserved
<1>7. CASE \E v \in Versions : LoadExistFile(v)
  BY <1>7, LoadExistFileStep DEF StorePreserved
<1>8. CASE Import
  BY <1>8, ImportStep DEF AbstractStore, Snapshot, Saved, CS!Next, CS!Restore,
       CS!Empty
<1>9. CASE UNCHANGED allVars
  <2>1. UNCHANGED <<vars, up, desc, to_copy, copied, ckpt, to_load, file_id_map>>
    BY <1>9 DEF allVars, ckptVars, saveVars, loadVars
  <2>2. IInv' /\ UNCHANGED <<AbstractStore, Pending>>
    BY <2>1, StorePreservedByOthers DEF CkptInv
  <2>3. UNCHANGED <<hash_map_, flushed_, file_data, deleted, current_version_,
                    current_offset_, buffer_cur_, evict_file_set_,
                    evict_file_map_, pc>>
    BY <2>1 DEF vars, fileVars, bufferVars, evictVars
  <2>4. CkptTypeOK' /\ CompleteInv' /\ UNCHANGED Saved
    BY <2>1 DEF CkptInv, CkptTypeOK, CompleteInv, Saved, CheckpointedValue
  <2>5. DescInv' /\ UNCHANGED Snapshot
    BY <2>1, <2>3 DEF CkptInv, DescInv, DescribedFile, Snapshot, DescribedValue
  <2>6. LoadInv'
    BY <2>1, <2>3 DEF CkptInv, LoadInv, StoreEmpty
  <2> QED BY <2>2, <2>4, <2>5, <2>6 DEF CkptInv
<1> QED BY <1>1, <1>2, <1>3, <1>4, <1>5, <1>6, <1>7, <1>8, <1>9
        DEF NextCheckpoint

\* What ties the descriptor, the copied files and the restored files to the
\* positions holds in every state, whenever the process dies.
THEOREM CheckpointInductiveInvariant == SpecCheckpoint => []CkptInv
<1>1. CkptInv /\ [NextCheckpoint]_allVars => CkptInv'
  BY CkptStepRefines
<1> QED BY InitCkptInv, <1>1, PTL DEF SpecCheckpoint

\* No key points into a deleted or missing file, after a restore neither.
THEOREM NeverDanglingAfterRestore == SpecCheckpoint => []NoDanglingPosition
<1>1. CkptInv => NoDanglingPosition
  BY DEF CkptInv, IInv, PositionInv, NoDanglingPosition
<1> QED BY CheckpointInductiveInvariant, <1>1, PTL

\* Save and restore implement the abstract checkpoint.
THEOREM CheckpointRefinement == SpecCheckpoint => ImplementsCheckpointStore
<1>1. InitCheckpoint => CS!Init
  BY DEF InitCheckpoint, Init, CS!Init, CS!Empty, Lookup, Pending, Saving
<1>2. CkptInv /\ [NextCheckpoint]_allVars =>
        [CS!Next]_<<AbstractStore, Pending, Snapshot, Saved>>
  BY CkptStepRefines
<1> QED BY CheckpointInductiveInvariant, <1>1, <1>2, PTL
        DEF SpecCheckpoint, ImplementsCheckpointStore, CS!Spec, AbstractStore,
            Snapshot, Saved

\* The copies of a file, in the checkpoint directory and in a complete
\* checkpoint, are no longer than the file may be.
CopiesFit ==
  /\ \A v \in DOMAIN copied : Len(copied[v]) <= MaxAppCount
  /\ ckpt # NULL => \A v \in DOMAIN ckpt.data : Len(ckpt.data[v]) <= MaxAppCount

\* What makes the store's own files fit and be compacted once, across saves and
\* restarts.
RestoreInv == SizeInv /\ CompactedOnce /\ CopiesFit

\* A flush for a checkpoint leaves a partly filled file behind and goes on with
\* a new one.
LEMMA DescriptorRestoreInv ==
  ASSUME CkptInv, RestoreInv, SetSsdRecordDescriptor PROVE RestoreInv'
<1> USE MaxAppCountAssumption, MaxFilesAssumption
<1>0. /\ pc = "idle" /\ pc' = "idle" /\ FlushForSave /\ copied' = NoFiles
      /\ UNCHANGED <<file_count, deleted, evict_file_set_, evict_file_map_, ckpt>>
  BY DEF SetSsdRecordDescriptor, evictVars
<1>1. CopiesFit'
  BY <1>0, NoFilesType DEF RestoreInv, CopiesFit
<1>2. /\ TypeOK /\ FilesInv /\ SizeInv /\ CompactedOnce
      /\ buffer_cur_ \in 0..MaxAppCount /\ current_version_ \in Versions
      /\ \A v \in Versions : v \in Nat
  <2>1. TypeOK /\ FilesInv /\ SizeInv /\ CompactedOnce
    BY DEF CkptInv, IInv, RestoreInv
  <2>2. buffer_cur_ \in 0..MaxAppCount /\ current_version_ \in Versions
    BY <2>1 DEF TypeOK
  <2> QED BY <2>1, <2>2 DEF Versions
<1>3. CASE buffer_cur_ = 0
  <2>1. UNCHANGED <<file_data, current_version_, buffer_cur_>>
    BY <1>0, <1>3 DEF FlushForSave
  <2> QED BY <1>0, <1>1, <1>2, <2>1 DEF RestoreInv, SizeInv, CompactedOnce
<1>4. CASE buffer_cur_ > 0
  <2> DEFINE S == Values \cup {Garbage}
  <2>1. /\ current_version_ < MaxFiles
        /\ current_version_' = current_version_ + 1 /\ buffer_cur_' = 0
        /\ file_data' = [file_data EXCEPT ![current_version_] =
             Write(file_data[current_version_], write_buffer_, buffer_cur_)]
    BY <1>0, <1>4 DEF FlushForSave
  <2>2. /\ file_data[current_version_] \in Seq(S)
        /\ write_buffer_ \in [Slots -> S]
        /\ buffer_cur_ \in 0..MaxAppCount
        /\ file_data \in [Versions -> Seq(S)]
    BY <1>2 DEF TypeOK
  <2> HIDE DEF S
  <2>3. PICK new :
          new = Write(file_data[current_version_], write_buffer_, buffer_cur_)
    OBVIOUS
  <2>4. Len(new) = buffer_cur_
    <3>1. Len(Write(file_data[current_version_], write_buffer_, buffer_cur_)) =
            Len(file_data[current_version_]) + buffer_cur_
      <4>1. /\ file_data[current_version_] \in Seq(S)
            /\ write_buffer_ \in [Slots -> S] /\ buffer_cur_ \in 0..MaxAppCount
        BY <2>2
      <4> QED BY ONLY <4>1, WriteProperties
    <3>2. Len(file_data[current_version_]) = 0
      BY <1>2 DEF SizeInv
    <3> QED BY <1>2, <2>3, <3>1, <3>2
  <2>5. /\ file_data'[current_version_] = new
        /\ \A v \in Versions :
             v # current_version_ => file_data'[v] = file_data[v]
    BY <1>2, <2>1, <2>2, <2>3
  <2>6. current_version_' \in Versions /\ current_version_' > current_version_
    BY <1>2, <2>1 DEF Versions
  <2>7. \A v \in Versions : Len(file_data'[v]) <= MaxAppCount
    BY <1>2, <2>4, <2>5 DEF SizeInv
  <2>8. file_data'[current_version_'] = <<>>
    BY <1>2, <2>5, <2>6 DEF FilesInv
  <2>9. /\ file_count[current_version_'] = 0
        /\ \A v \in Versions : v > current_version_' => file_count[v] = 0
    BY <1>2, <2>6 DEF SizeInv
  <2>10. SizeInv'
    BY <1>0, <2>1, <2>7, <2>8, <2>9 DEF SizeInv
  <2>11. CompactedOnce'
    <3>1. \A v \in evict_file_set_ : v \in Nat /\ v < current_version_
      BY <1>2 DEF CompactedOnce, TypeOK
    <3>2. \A v \in evict_file_set_ : v < current_version_'
      BY <1>2, <2>1, <3>1
    <3> QED BY <1>0, <1>2, <3>2 DEF CompactedOnce
  <2> QED BY <1>1, <2>10, <2>11 DEF RestoreInv
<1> QED BY <1>2, <1>3, <1>4

\* LoadExistFile: the file fits, and the next version is still unused.
LEMMA LoadRestoreInv ==
  ASSUME CkptInv, RestoreInv, NEW v \in Versions, LoadExistFile(v)
  PROVE  RestoreInv'
<1> USE MaxAppCountAssumption, MaxFilesAssumption
<1>0. /\ up = "loading" /\ v \in to_load /\ current_version_ < MaxFiles
      /\ file_data' = [file_data EXCEPT ![current_version_] = ckpt.data[v]]
      /\ file_count' = [file_count EXCEPT ![current_version_] =
                          ckpt.desc.record_count[v]]
      /\ current_version_' = current_version_ + 1
      /\ UNCHANGED <<deleted, evict_file_set_, evict_file_map_, buffer_cur_, pc,
                     copied, ckpt>>
  BY DEF LoadExistFile, Least, bufferVars, evictVars, saveVars
<1>1. /\ TypeOK /\ FilesInv /\ SizeInv /\ StoreEmpty /\ CopiesFit
      /\ v \in DOMAIN ckpt.data /\ ckpt # NULL
  BY <1>0 DEF CkptInv, IInv, RestoreInv, LoadInv, CompleteInv
<1>2. /\ current_version_ \in Versions /\ current_version_' \in Versions
      /\ current_version_' > current_version_
      /\ \A w \in Versions : w \in Nat
  BY <1>0, <1>1 DEF TypeOK, Versions
<1>3. /\ file_data'[current_version_] = ckpt.data[v]
      /\ \A w \in Versions : w # current_version_ =>
           file_data'[w] = file_data[w] /\ file_count'[w] = file_count[w]
  BY <1>0, <1>1, <1>2 DEF TypeOK
<1>4. Len(ckpt.data[v]) <= MaxAppCount
  BY <1>1 DEF CopiesFit
<1>5. \A w \in Versions : Len(file_data'[w]) <= MaxAppCount
  BY <1>1, <1>3, <1>4 DEF SizeInv
<1>6. file_data'[current_version_'] = <<>> /\ file_count'[current_version_'] = 0
  BY <1>1, <1>2, <1>3 DEF FilesInv, SizeInv
<1>7. \A w \in Versions : w > current_version_' => file_count'[w] = 0
  BY <1>1, <1>2, <1>3 DEF SizeInv
<1>8. SizeInv'
  BY <1>0, <1>1, <1>5, <1>6, <1>7 DEF SizeInv, StoreEmpty
<1>9. CompactedOnce' /\ CopiesFit'
  BY <1>0, <1>1 DEF CompactedOnce, CopiesFit, StoreEmpty
<1> QED BY <1>8, <1>9 DEF RestoreInv

\* Every step keeps it.
LEMMA RestoreInvStep ==
  ASSUME CkptInv, RestoreInv, [NextCheckpoint]_allVars PROVE RestoreInv'
<1> USE MaxAppCountAssumption, MaxFilesAssumption
<1>0. IInv
  BY DEF CkptInv
<1>1. CASE CommitStep
  <2>1. SizeInv' /\ CompactedOnce'
    BY <1>0, <1>1, SizeStep, EvictStep DEF CommitStep, RestoreInv
  <2>2. UNCHANGED <<copied, ckpt>>
    BY <1>1 DEF CommitStep, ckptVars, saveVars
  <2> QED BY <2>1, <2>2 DEF RestoreInv, CopiesFit
<1>2. CASE SetSsdRecordDescriptor
  BY <1>2, DescriptorRestoreInv
<1>3. ASSUME UNCHANGED vars PROVE SizeInv' /\ CompactedOnce'
  BY <1>3 DEF RestoreInv, SizeInv, CompactedOnce, vars, fileVars, bufferVars,
       evictVars
<1>4. ASSUME NEW v \in Versions, CopyFile(v) PROVE RestoreInv'
  <2>1. /\ copied' = [w \in DOMAIN copied \cup {v} |->
                       IF w = v THEN file_data[v] ELSE copied[w]]
        /\ UNCHANGED <<vars, ckpt>>
    BY <1>4 DEF CopyFile
  <2>2. CopiesFit'
    BY <2>1 DEF RestoreInv, CopiesFit, SizeInv
  <2> QED BY <1>3, <2>1, <2>2 DEF RestoreInv
<1>5. CASE CheckpointComplete
  <2>1. /\ ckpt' = [desc |-> desc, data |-> copied] /\ copied' = NoFiles
        /\ UNCHANGED vars
    BY <1>5 DEF CheckpointComplete
  <2>2. CopiesFit'
    BY <2>1, NoFilesType DEF RestoreInv, CopiesFit
  <2> QED BY <1>3, <2>1, <2>2 DEF RestoreInv
<1>6. CASE Crash \/ \E v \in Versions : CopyFileFails(v)
  <2>1. /\ file_data' = [v \in Versions |-> <<>>]
        /\ file_count' = [v \in Versions |-> 0]
        /\ current_version_' = 0 /\ buffer_cur_' = 0 /\ pc' = "idle"
        /\ evict_file_set_' = {} /\ copied' = NoFiles /\ UNCHANGED ckpt
    BY <1>6 DEF Crash, CopyFileFails, Die
  <2>2. SizeInv'
    BY <2>1 DEF SizeInv, Versions
  <2>3. CompactedOnce'
    BY <2>1 DEF CompactedOnce
  <2>4. CopiesFit'
    BY <2>1, NoFilesType DEF RestoreInv, CopiesFit
  <2> QED BY <2>2, <2>3, <2>4 DEF RestoreInv
<1>7. CASE StartFresh \/ StartRestore \/ EndOfLoad \/ UNCHANGED allVars
  <2>1. UNCHANGED <<vars, copied, ckpt>>
    BY <1>7 DEF StartFresh, StartRestore, EndOfLoad, allVars, ckptVars, saveVars
  <2> QED BY <1>3, <2>1 DEF RestoreInv, CopiesFit
<1>8. CASE \E v \in Versions : LoadExistFile(v)
  BY <1>8, LoadRestoreInv
<1>9. CASE Import
  <2>1. UNCHANGED <<file_data, file_count, deleted, current_version_,
                    buffer_cur_, evict_file_set_, evict_file_map_, pc, copied,
                    ckpt>>
    BY <1>9 DEF Import, fileVars, bufferVars, evictVars, saveVars
  <2> QED BY <2>1 DEF RestoreInv, SizeInv, CompactedOnce, CopiesFit
<1> QED BY <1>1, <1>2, <1>4, <1>5, <1>6, <1>7, <1>8, <1>9 DEF NextCheckpoint

\* Checkpoints leave partly filled files behind and a restart renumbers them;
\* still no file outgrows its mapping, none is compacted twice, and no flush
\* misses a key.
THEOREM StoreSoundAfterRestore ==
  SpecCheckpoint => [](FileFitsMapping /\ CompactedOnce /\ FlushFindsEveryKey)
<1>1. InitCheckpoint => RestoreInv
  <2> SUFFICES ASSUME InitCheckpoint PROVE RestoreInv
    OBVIOUS
  <2>1. SizeInv /\ CompactedOnce
    BY MaxAppCountAssumption, MaxFilesAssumption
       DEF InitCheckpoint, Init, SizeInv, CompactedOnce, Versions
  <2>2. CopiesFit
    BY NoFilesType DEF InitCheckpoint, CopiesFit
  <2> QED BY <2>1, <2>2 DEF RestoreInv
<1>2. CkptInv /\ RestoreInv /\ [NextCheckpoint]_allVars => RestoreInv'
  BY RestoreInvStep
<1>3. CkptInv /\ RestoreInv =>
        FileFitsMapping /\ CompactedOnce /\ FlushFindsEveryKey
  BY DEF CkptInv, IInv, BufferInv, RestoreInv, SizeInv, FileFitsMapping,
         FlushFindsEveryKey
<1> QED BY CheckpointInductiveInvariant, <1>1, <1>2, <1>3, PTL DEF SpecCheckpoint
=============================================================================
