------------------------- MODULE SSDHashKVAsyncProofs -------------------------
(***************************************************************************)
(* Proofs about SSDHashKV with asynchronous compaction: the committer and  *)
(* the compaction thread, in every interleaving.                           *)
(***************************************************************************)
EXTENDS SSDHashKVAsync, SequenceTheorems, FiniteSetTheorems, TLAPS

Record == [key : Keys, value : Values]
Item == Keys \X Position
Entry == Keys \X Position \X (Values \cup {Garbage})

\* The steps of SaveKVAsync between AppendToWriteBuffer and the publication.
Saving == pc \in {"insert", "load_old", "cas"}

\* CheckBufferAsync has written the buffer and not yet begun the next file.
Written == pc \in {"update_flush_status", "new_evict_file"}

\* FlushAndUpdate: the new file exists; its records are written.
Updating == c_pc \in {"update", "update_last"}
Flushing == Updating \/ c_pc \in {"write", "write_last"}

\* The types TypeOK leaves out: the locals of the two threads.
LocalTypeOK ==
  /\ write_buffer_ \in [Slots -> Values \cup {Garbage}]
  /\ key_buffer_ \in [Slots -> Keys \cup {Garbage}]
  /\ DOMAIN evict_file_map_ \subseteq Versions
  /\ evict_file_map_ \in [DOMAIN evict_file_map_ -> SUBSET Item]
  /\ pc \in {"idle", "check_buffer", "update_flush_status", "new_evict_file",
             "append", "insert", "load_old", "cas", "add_invalid", "queue_file"}
  /\ c_pc \in {"idle", "init_evict_map", "scan", "next_file", "item", "flush",
               "write", "write_last", "update", "update_last"}
  /\ pc # "idle" => rec \in Record
  /\ scan_left \subseteq Keys
  /\ items_left \subseteq Item
  /\ id_buffer \in Seq(Entry)

\* The committer's file: empty until the buffer is written to it, then a copy of
\* the buffer.  It is never a file that compaction takes.
EvictFileInv ==
  /\ current_offset_ = buffer_cur_
  /\ pc = "append" => buffer_cur_ = 0
  /\ evict_version_ <= current_version_
  /\ IF Written
       THEN /\ Len(file_data[evict_version_]) = buffer_cur_
            /\ \A i \in 0..(buffer_cur_ - 1) :
                 file_data[evict_version_][i + 1] = write_buffer_[i]
       ELSE file_data[evict_version_] = <<>>
  /\ \A v \in Versions : v > current_version_ => file_data[v] = <<>>
  /\ \A v \in deleted \cup evict_file_set_ \cup DOMAIN evict_file_map_ :
       v <= current_version_ /\ v # evict_version_

\* The compaction thread's file: its own, and a copy of id_buffer once written.
CompactionFileInv ==
  Flushing =>
    /\ compaction_version_ <= current_version_
    /\ compaction_version_ # evict_version_
    /\ compaction_version_ \notin deleted \cup DOMAIN evict_file_map_
    /\ IF Updating
         THEN /\ Len(file_data[compaction_version_]) = Len(id_buffer)
              /\ \A i \in 1..Len(id_buffer) :
                   file_data[compaction_version_][i] = id_buffer[i][3]
         ELSE file_data[compaction_version_] = <<>>

\* A position that is flushed, or was born so, points into the written part of
\* its file; any other is in its key's slot of the write buffer.
PositionInv ==
  /\ \A p \in flushed_ : p.offset < Len(file_data[p.version])
  /\ \A k \in Keys : LET p == hash_map_[k] IN p # NULL =>
       /\ p.version <= current_version_
       /\ p.version \notin deleted
       /\ IF p.born \/ p \in flushed_
            THEN p.offset < Len(file_data[p.version])
            ELSE /\ pc # "new_evict_file"
                 /\ p.version = evict_version_
                 /\ p.offset = p.buffer_offset
                 /\ p.buffer_offset < buffer_cur_
                 /\ key_buffer_[p.buffer_offset] = k

\* Every buffered key is in the hash map, the one being inserted excepted.
BufferInv ==
  \A i \in 0..(buffer_cur_ - 1) :
    /\ key_buffer_[i] \in Keys
    /\ hash_map_[key_buffer_[i]] # NULL
         \/ (pc = "insert" /\ i = buffer_cur_ - 1)

\* The commit in progress.
SaveInv ==
  /\ Saving =>
       /\ buffer_cur_ > 0
       /\ ep = [version |-> evict_version_, offset |-> buffer_cur_ - 1,
                buffer_offset |-> buffer_cur_ - 1, born |-> FALSE]
       /\ key_buffer_[buffer_cur_ - 1] = rec.key
       /\ write_buffer_[buffer_cur_ - 1] = rec.value
  /\ pc \in {"cas", "add_invalid", "queue_file"} =>
       old_posi \in Position /\ old_posi.version <= current_version_

\* Where MoveToNewFileAsync is, and what it still holds.
ProgressInv ==
  /\ c_pc \in {"idle", "init_evict_map", "scan"} =>
       items_left = {} /\ id_buffer = <<>>
  /\ c_pc \in {"idle", "init_evict_map"} => files_left = {}
  /\ c_pc = "init_evict_map" => DOMAIN evict_file_map_ = {}
  /\ files_left \subseteq DOMAIN evict_file_map_
  /\ c_pc = "scan" => files_left = DOMAIN evict_file_map_
  /\ ~Updating => n_cas = 0
  /\ c_pc \in {"item", "next_file"} => Len(id_buffer) < MaxAppCount
  /\ c_pc \in {"flush", "write", "update"} => Len(id_buffer) = MaxAppCount
  /\ c_pc = "next_file" => items_left = {}
  /\ c_pc \in {"write_last", "update_last"} => files_left = {} /\ items_left = {}

\* What compaction holds was read, or will be, from the written part of a file
\* it has taken.
HeldInv ==
  /\ \A v \in DOMAIN evict_file_map_ : \A it \in evict_file_map_[v] :
       it[2].version = v /\ it[2].offset < Len(file_data[v])
  /\ \A it \in items_left :
       /\ it[2].version \in DOMAIN evict_file_map_
       /\ it[2].offset < Len(file_data[it[2].version])
  /\ \A i \in 1..Len(id_buffer) : LET e == id_buffer[i] IN
       /\ e[2].version \in DOMAIN evict_file_map_
       /\ e[2].offset < Len(file_data[e[2].version])
       /\ e[3] = file_data[e[2].version][e[2].offset + 1]

\* The position p of key k is still in compaction's hands.
Held(k, p) ==
  \/ c_pc = "scan" /\ k \in scan_left
  \/ p.version \in files_left /\ <<k, p>> \in evict_file_map_[p.version]
  \/ <<k, p>> \in items_left
  \/ \E i \in (n_cas + 1)..Len(id_buffer) :
       id_buffer[i][1] = k /\ id_buffer[i][2] = p

\* No key is left behind in a file that compaction has taken: whatever the
\* committer does meanwhile, a key that points into one is still to be moved.
CoverInv ==
  \A k \in Keys : LET p == hash_map_[k] IN
    p # NULL /\ p.version \in DOMAIN evict_file_map_ => Held(k, p)

Holds(v) == {k \in Keys : hash_map_[k] # NULL /\ hash_map_[k].version = v}

\* The records of file v that the counters do not account for yet: the one being
\* committed, the one it replaces, and those FlushAndUpdate has not swapped in.
Committing(v) == IF pc \in {"load_old", "cas"} /\ ep.version = v THEN 1 ELSE 0
Replacing(v) == IF pc = "add_invalid" /\ old_posi.version = v THEN 1 ELSE 0
ToSwap(v) ==
  IF Updating /\ compaction_version_ = v THEN Len(id_buffer) - n_cas ELSE 0

Unsettled(v) == Committing(v) + Replacing(v) + ToSwap(v)

\* InvalidCountExact between any two steps of the two threads.
CountInv ==
  \A v \in Versions : v \notin deleted /\ v \notin DOMAIN evict_file_map_ =>
    file_count[v] - file_invalid[v] = Cardinality(Holds(v)) + Unsettled(v)

\* The inductive invariant of the store without its counters.
IInv ==
  /\ TypeOK /\ LocalTypeOK
  /\ EvictFileInv /\ CompactionFileInv
  /\ PositionInv /\ BufferInv /\ SaveInv
  /\ ProgressInv /\ HeldInv /\ CoverInv
-----------------------------------------------------------------------------
(* Facts the steps share.                                                  *)

\* What Lookup returns for every key.
StoreUnchanged == \A k \in Keys : Lookup(k)' = Lookup(k)

\* The numbers the invariant counts with.
LEMMA Numbers ==
  ASSUME IInv
  PROVE  /\ MaxAppCount \in Nat /\ MaxAppCount > 0 /\ MaxFiles \in Nat
         /\ buffer_cur_ \in Nat /\ buffer_cur_ <= MaxAppCount
         /\ current_version_ \in Versions /\ evict_version_ \in Versions
         /\ compaction_version_ \in Versions
         /\ Versions \subseteq Nat
         /\ Len(id_buffer) \in Nat /\ n_cas \in Nat /\ n_cas <= Len(id_buffer)
<1>1. MaxAppCount \in Nat /\ MaxAppCount > 0 /\ MaxFiles \in Nat
  BY MaxAppCountAssumption, MaxFilesAssumption
<1>2. /\ buffer_cur_ \in 0..MaxAppCount /\ n_cas \in 0..Len(id_buffer)
      /\ {current_version_, evict_version_, compaction_version_} \subseteq Versions
  BY DEF IInv, TypeOK
<1>3. Len(id_buffer) \in Nat
  BY LenProperties DEF IInv, LocalTypeOK
<1> QED BY <1>1, <1>2, <1>3 DEF Versions

\* What appending the buffer to a file does (EmbFile::Write).
LEMMA WriteProperties ==
  ASSUME NEW S, NEW data \in Seq(S), NEW buffer \in [Slots -> S],
         NEW n \in 0..MaxAppCount
  PROVE  /\ Write(data, buffer, n) \in Seq(S)
         /\ Len(Write(data, buffer, n)) = Len(data) + n
         /\ \A i \in 1..Len(data) : Write(data, buffer, n)[i] = data[i]
         /\ \A i \in 0..(n - 1) :
              Write(data, buffer, n)[Len(data) + i + 1] = buffer[i]
<1> DEFINE t == [i \in 1..n |-> buffer[i - 1]]
<1>1. n \in Nat /\ MaxAppCount \in Nat
  BY MaxAppCountAssumption
<1>2. \A i \in 1..n : buffer[i - 1] \in S
  BY <1>1 DEF Slots
<1>3. t \in Seq(S) /\ Len(t) = n /\ \A i \in 1..n : t[i] = buffer[i - 1]
  <2>1. t \in [1..n -> S]
    BY <1>2
  <2>2. t \in Seq(S)
    BY <2>1, <1>1, SeqDef
  <2> QED BY <2>1, <2>2, <1>1, LenProperties
<1>4. Write(data, buffer, n) = data \o t
  BY DEF Write
<1> HIDE DEF t
<1> QED BY <1>1, <1>3, <1>4, ConcatProperties, LenProperties

\* Appending to an empty file: it holds what was appended and nothing else.
LEMMA AppendToEmpty ==
  ASSUME NEW S, NEW t \in Seq(S) PROVE <<>> \o t = t
  BY ConcatEmptySeq

\* An unflushed position cannot be in a file that compaction may take.
LEMMA TakenIsFlushed ==
  ASSUME IInv, NEW k \in Keys, hash_map_[k] # NULL,
         hash_map_[k].version # evict_version_
  PROVE  /\ hash_map_[k].born \/ hash_map_[k] \in flushed_
         /\ hash_map_[k].offset < Len(file_data[hash_map_[k].version])
  BY DEF IInv, PositionInv

\* The compaction thread's part of the invariant does not see the committer's
\* steps that leave the hash map and the files alone.
LEMMA CompactionFrame ==
  ASSUME IInv, UNCHANGED <<hash_map_, file_data, evict_version_, current_version_,
                compaction_version_, deleted, evict_file_map_, compactVars>>
  PROVE  CompactionFileInv' /\ ProgressInv' /\ HeldInv' /\ CoverInv'
<1> USE DEF IInv, compactVars
<1>1. CompactionFileInv'
  BY DEF CompactionFileInv, Flushing, Updating
<1>2. ProgressInv'
  BY DEF ProgressInv, Updating
<1>3. HeldInv'
  BY DEF HeldInv
<1>4. CoverInv'
  BY DEF CoverInv, Held
<1> QED BY <1>1, <1>2, <1>3, <1>4

-----------------------------------------------------------------------------
(* The committer: one lemma per action.                                    *)

\* Commit is called.
LEMMA CommitStep ==
  ASSUME IInv, NEW k \in Keys, NEW v \in Values, Commit(k, v)
  PROVE  IInv' /\ StoreUnchanged
<1> USE DEF Commit, fileVars, bufferVars
<1>1. TypeOK'
  BY DEF IInv, TypeOK, compactVars
<1>2. LocalTypeOK'
  BY DEF IInv, LocalTypeOK, compactVars, Record
<1>3. EvictFileInv'
  BY DEF IInv, EvictFileInv, Written
<1>4. CompactionFileInv' /\ ProgressInv' /\ HeldInv' /\ CoverInv'
  BY CompactionFrame
<1>5. PositionInv'
  BY DEF IInv, PositionInv
<1>6. BufferInv' /\ SaveInv'
  BY DEF IInv, BufferInv, SaveInv, Saving
<1>7. StoreUnchanged
  BY DEF StoreUnchanged, Lookup, Contents
<1> QED BY <1>1, <1>2, <1>3, <1>4, <1>5, <1>6, <1>7 DEF IInv

\* CheckBufferAsync writes the buffer to the committer's file.
LEMMA WriteBufferStep ==
  ASSUME IInv, WriteBuffer PROVE IInv' /\ StoreUnchanged
<1> DEFINE S == Values \cup {Garbage}
<1>0. /\ pc = "check_buffer" /\ pc' = "update_flush_status"
      /\ file_data' = [file_data EXCEPT ![evict_version_] =
           Write(file_data[evict_version_], write_buffer_, buffer_cur_)]
      /\ UNCHANGED <<hash_map_, flushed_, file_count, file_invalid, deleted,
                 current_version_, evict_version_, compaction_version_,
                 current_offset_, buffer_cur_, write_buffer_, key_buffer_,
                 evict_file_set_, evict_file_map_, rec, ep, old_posi, c_pc,
                 scan_left, files_left, items_left, id_buffer, n_cas,
                 invalid_files>>
  BY DEF WriteBuffer, bufferVars, compactVars
<1>1. /\ file_data \in [Versions -> Seq(S)] /\ file_data[evict_version_] = <<>>
      /\ write_buffer_ \in [Slots -> S] /\ buffer_cur_ \in 0..MaxAppCount
  BY <1>0 DEF IInv, TypeOK, LocalTypeOK, EvictFileInv, Written
<1> HIDE DEF S
<1>a. PICK old : old = file_data[evict_version_]
  OBVIOUS
<1>2. PICK new : new = Write(old, write_buffer_, buffer_cur_)
  OBVIOUS
<1>3. /\ new \in Seq(S) /\ Len(new) = buffer_cur_
      /\ \A i \in 0..(buffer_cur_ - 1) : new[i + 1] = write_buffer_[i]
  <2>1. Len(old) = 0
    BY <1>1, <1>a
  <2>2. /\ new \in Seq(S) /\ Len(new) = Len(old) + buffer_cur_
        /\ \A i \in 0..(buffer_cur_ - 1) : new[Len(old) + i + 1] = write_buffer_[i]
    <3>1. write_buffer_ \in [Slots -> S] /\ buffer_cur_ \in 0..MaxAppCount
      BY <1>1
    <3>2. old \in Seq(S)
      BY <1>1, <1>a, Numbers
    <3> QED BY ONLY <3>1, <3>2, <1>2, WriteProperties, SMTT(60)
  <2> QED BY <2>1, <2>2, Numbers
<1>4. /\ file_data'[evict_version_] = new
      /\ \A v \in Versions : v # evict_version_ => file_data'[v] = file_data[v]
      /\ file_data' \in [Versions -> Seq(S)]
  BY <1>0, <1>1, <1>a, <1>2, <1>3, Numbers
<1>5. \A v \in Versions : \A o \in Nat : o < Len(file_data[v]) =>
        v # evict_version_ /\ file_data'[v] = file_data[v]
  BY <1>1, <1>4
<1>6. TypeOK' /\ LocalTypeOK'
  <2>1. TypeOK'
    BY <1>0, <1>4 DEF IInv, TypeOK, S
  <2>2. LocalTypeOK'
    BY <1>0 DEF IInv, LocalTypeOK
  <2> QED BY <2>1, <2>2
<1>7. EvictFileInv'
  BY <1>0, <1>3, <1>4, Numbers DEF IInv, EvictFileInv, Written
<1>8. CompactionFileInv'
  <2> SUFFICES ASSUME Flushing PROVE file_data'[compaction_version_] =
                                       file_data[compaction_version_]
    BY <1>0 DEF IInv, CompactionFileInv, Flushing, Updating
  <2> QED BY <1>4, Numbers DEF IInv, CompactionFileInv
<1>9. PositionInv'
  <2>1. \A p \in Position : p.version \in Versions /\ p.offset \in Nat
    BY DEF Position
  <2>2. \A p \in Position : p.offset < Len(file_data[p.version]) =>
          p.offset < Len(file_data'[p.version])
    BY <2>1, <1>5
  <2>3. /\ flushed_ \subseteq Position
        /\ \A k \in Keys : hash_map_[k] # NULL => hash_map_[k] \in Position
    BY DEF IInv, TypeOK
  <2> QED BY <2>2, <2>3, <1>0 DEF IInv, PositionInv
<1>10. BufferInv' /\ SaveInv'
  BY <1>0 DEF IInv, BufferInv, SaveInv, Saving
<1>11. ProgressInv' /\ CoverInv'
  BY <1>0 DEF IInv, ProgressInv, Updating, CoverInv, Held
<1>12. HeldInv'
  <2>1. \A v \in DOMAIN evict_file_map_ : file_data'[v] = file_data[v]
    BY <1>4 DEF IInv, EvictFileInv, LocalTypeOK
  <2> QED BY <1>0, <2>1 DEF IInv, HeldInv
<1>13. StoreUnchanged
  <2> SUFFICES ASSUME NEW k \in Keys, hash_map_[k] # NULL,
                      hash_map_[k].born \/ hash_map_[k] \in flushed_
               PROVE  file_data'[hash_map_[k].version] =
                        file_data[hash_map_[k].version]
    BY <1>0 DEF StoreUnchanged, Lookup, Contents
  <2> QED BY <1>5, SMTT(60) DEF IInv, PositionInv, TypeOK, Position
<1> QED BY <1>6, <1>7, <1>8, <1>9, <1>10, <1>11, <1>12, <1>13 DEF IInv
\* UpdateFlushStatus: every position of the committer's file that is in the hash
\* map is now marked; one the compaction thread put there is marked in vain.
LEMMA UpdateFlushStatusStep ==
  ASSUME IInv, UpdateFlushStatus PROVE IInv' /\ StoreUnchanged
<1>0. /\ pc = "update_flush_status" /\ pc' = "new_evict_file"
      /\ flushed_' = flushed_ \cup
           {hash_map_[key_buffer_[i]] : i \in 0..(buffer_cur_ - 1)}
      /\ UNCHANGED <<hash_map_, file_data, file_count, file_invalid, deleted,
                 current_version_, evict_version_, compaction_version_,
                 current_offset_, buffer_cur_, write_buffer_, key_buffer_,
                 evict_file_set_, evict_file_map_, rec, ep, old_posi,
                 compactVars>>
  BY DEF UpdateFlushStatus, fileVars, bufferVars
<1>1. ASSUME NEW k \in Keys, hash_map_[k] # NULL
      PROVE  LET p == hash_map_[k] IN
             /\ p \in Position /\ p.offset < Len(file_data[p.version])
             /\ ~(p.born \/ p \in flushed_) =>
                  /\ p \in flushed_'
                  /\ Read(file_data[p.version], p.offset) =
                       write_buffer_[p.buffer_offset]
  <2>1. PICK p : p = hash_map_[k]
    OBVIOUS
  <2>2. p \in Position /\ p.offset \in Nat /\ p.buffer_offset \in Nat
    BY <1>1, <2>1 DEF IInv, TypeOK, Position
  <2>3. CASE p.born \/ p \in flushed_
    BY <1>1, <2>1, <2>2, <2>3 DEF IInv, PositionInv
  <2>4. CASE ~(p.born \/ p \in flushed_)
    <3>1. /\ p.version = evict_version_ /\ p.offset = p.buffer_offset
          /\ p.buffer_offset < buffer_cur_ /\ key_buffer_[p.buffer_offset] = k
      BY <1>1, <2>1, <2>4 DEF IInv, PositionInv
    <3>2. p.buffer_offset \in 0..(buffer_cur_ - 1)
      BY <2>2, <3>1, Numbers
    <3>3. /\ Len(file_data[evict_version_]) = buffer_cur_
          /\ file_data[evict_version_][p.buffer_offset + 1] =
               write_buffer_[p.buffer_offset]
      BY <3>2, <1>0 DEF IInv, EvictFileInv, Written
    <3>4. p \in flushed_'
      BY <2>1, <3>1, <3>2, <1>0
    <3> QED BY <2>1, <2>2, <2>4, <3>1, <3>3, <3>4 DEF Read
  <2> QED BY <2>1, <2>3, <2>4
<1>2. \A i \in 0..(buffer_cur_ - 1) :
        key_buffer_[i] \in Keys /\ hash_map_[key_buffer_[i]] # NULL
  BY <1>0 DEF IInv, BufferInv
<1>3. TypeOK'
  <2>1. flushed_' \subseteq Position
    BY <1>0, <1>1, <1>2 DEF IInv, TypeOK
  <2> QED BY <2>1, <1>0 DEF IInv, TypeOK, compactVars
<1>4. LocalTypeOK'
  BY <1>0 DEF IInv, LocalTypeOK, compactVars
<1>5. EvictFileInv'
  BY <1>0 DEF IInv, EvictFileInv, Written
<1>6. CompactionFileInv' /\ ProgressInv' /\ HeldInv' /\ CoverInv'
  BY <1>0, CompactionFrame
<1>7. PositionInv'
  BY <1>0, <1>1, <1>2 DEF IInv, PositionInv
<1>8. BufferInv' /\ SaveInv'
  BY <1>0 DEF IInv, BufferInv, SaveInv, Saving
<1>9. StoreUnchanged
  <2> SUFFICES ASSUME NEW k \in Keys, hash_map_[k] # NULL
               PROVE  Contents(hash_map_[k])' = Contents(hash_map_[k])
    BY <1>0 DEF StoreUnchanged, Lookup
  <2>1. CASE hash_map_[k].born \/ hash_map_[k] \in flushed_
    BY <2>1, <1>0 DEF Contents
  <2>2. CASE ~(hash_map_[k].born \/ hash_map_[k] \in flushed_)
    BY <2>2, <1>0, <1>1 DEF Contents
  <2> QED BY <2>1, <2>2
<1> QED BY <1>3, <1>4, <1>5, <1>6, <1>7, <1>8, <1>9 DEF IInv

\* The committer begins a file: nothing refers to the buffer any more.
LEMMA NewEvictFileStep ==
  ASSUME IInv, NewEvictFile PROVE IInv' /\ StoreUnchanged
<1>0. /\ pc = "new_evict_file" /\ pc' = "append"
      /\ current_version_' = current_version_ + 1
      /\ evict_version_' = current_version_ + 1
      /\ current_version_ < MaxFiles
      /\ current_offset_' = 0 /\ buffer_cur_' = 0
      /\ UNCHANGED <<hash_map_, flushed_, file_data, file_count, file_invalid,
                 deleted, compaction_version_, write_buffer_, key_buffer_,
                 evict_file_set_, evict_file_map_, rec, ep, old_posi, c_pc,
                 scan_left, files_left, items_left, id_buffer, n_cas,
                 invalid_files>>
  BY DEF NewEvictFile, fileVars, compactVars
<1>1. /\ current_version_ + 1 \in Versions /\ current_version_ \in Nat
      /\ \A v \in Versions : v \in Nat
  BY <1>0, Numbers DEF Versions
<1>2. TypeOK'
  <2>1. 0 \in 0..MaxAppCount
    BY Numbers
  <2> QED BY <1>0, <1>1, <2>1 DEF IInv, TypeOK
<1>3. LocalTypeOK'
  BY <1>0 DEF IInv, LocalTypeOK
<1>4. EvictFileInv'
  <2>1. file_data[current_version_ + 1] = <<>>
    BY <1>1 DEF IInv, EvictFileInv
  <2>2. \A v \in Versions : v > current_version_ + 1 => file_data[v] = <<>>
    BY <1>1 DEF IInv, EvictFileInv
  <2>3. \A v \in deleted \cup evict_file_set_ \cup DOMAIN evict_file_map_ :
          v <= current_version_ + 1 /\ v # current_version_ + 1
    <3>1. deleted \cup evict_file_set_ \cup DOMAIN evict_file_map_ \subseteq Versions
      BY DEF IInv, TypeOK, LocalTypeOK
    <3> QED BY <3>1, <1>1 DEF IInv, EvictFileInv
  <2> QED BY <2>1, <2>2, <2>3, <1>0, <1>1 DEF EvictFileInv, Written
<1>5. CompactionFileInv'
  <2>1. Flushing => compaction_version_ <= current_version_
    BY DEF IInv, CompactionFileInv
  <2>2. Flushing => /\ compaction_version_ <= current_version_ + 1
                    /\ compaction_version_ # current_version_ + 1
    BY <2>1, <1>1, Numbers
  <2> QED BY <2>2, <1>0 DEF IInv, CompactionFileInv, Flushing, Updating
<1>6. PositionInv'
  <2>1. \A k \in Keys : hash_map_[k] # NULL =>
          hash_map_[k].version \in Versions /\
          hash_map_[k].version <= current_version_ + 1
    <3>1. \A k \in Keys : hash_map_[k] # NULL =>
            /\ hash_map_[k].version \in Versions
            /\ hash_map_[k].version <= current_version_
      BY DEF IInv, PositionInv, TypeOK, Position
    <3> QED BY <3>1, <1>1
  <2>2. \A k \in Keys : hash_map_[k] # NULL =>
          hash_map_[k].born \/ hash_map_[k] \in flushed_
    BY <1>0 DEF IInv, PositionInv
  <2> QED BY <2>1, <2>2, <1>0 DEF IInv, PositionInv
<1>7. BufferInv' /\ SaveInv'
  BY <1>0 DEF BufferInv, SaveInv, Saving
<1>8. ProgressInv' /\ HeldInv' /\ CoverInv'
  BY <1>0 DEF IInv, ProgressInv, Updating, HeldInv, CoverInv, Held
<1>9. StoreUnchanged
  BY <1>0 DEF StoreUnchanged, Lookup, Contents
<1> QED BY <1>2, <1>3, <1>4, <1>5, <1>6, <1>7, <1>8, <1>9 DEF IInv

\* AppendToWriteBuffer overwrites a slot no position refers to.
LEMMA AppendToWriteBufferStep ==
  ASSUME IInv, AppendToWriteBuffer PROVE IInv' /\ StoreUnchanged
<1>0. /\ pc \in {"append", "check_buffer"} /\ pc' = "insert"
      /\ pc = "check_buffer" => ~BufferFull
      /\ ep' = [version |-> evict_version_, offset |-> current_offset_,
                buffer_offset |-> buffer_cur_, born |-> FALSE]
      /\ current_offset_' = current_offset_ + 1
      /\ write_buffer_' = [write_buffer_ EXCEPT ![buffer_cur_] = rec.value]
      /\ key_buffer_' = [key_buffer_ EXCEPT ![buffer_cur_] = rec.key]
      /\ buffer_cur_' = buffer_cur_ + 1
      /\ UNCHANGED <<hash_map_, flushed_, file_data, file_count, file_invalid,
                 deleted, current_version_, evict_version_,
                 compaction_version_, evict_file_set_, evict_file_map_, rec,
                 old_posi, compactVars>>
  BY DEF AppendToWriteBuffer, fileVars
<1>1. /\ buffer_cur_ \in Nat /\ buffer_cur_ < MaxAppCount
      /\ buffer_cur_ \in Slots
  BY <1>0, Numbers DEF IInv, EvictFileInv, BufferFull, Slots
<1>2. rec \in Record /\ rec.key \in Keys /\ rec.value \in Values
  BY <1>0 DEF IInv, LocalTypeOK, Record
<1>3. \A i \in 0..(buffer_cur_ - 1) :
        /\ write_buffer_'[i] = write_buffer_[i]
        /\ key_buffer_'[i] = key_buffer_[i]
  BY <1>0, <1>1, Numbers DEF IInv, LocalTypeOK, Slots
<1>4. /\ write_buffer_'[buffer_cur_] = rec.value
      /\ key_buffer_'[buffer_cur_] = rec.key
  BY <1>0, <1>1 DEF IInv, LocalTypeOK
<1>5. TypeOK'
  <2>1. buffer_cur_' \in 0..MaxAppCount
    BY <1>0, <1>1, Numbers
  <2> QED BY <2>1, <1>0 DEF IInv, TypeOK, compactVars
<1>6. LocalTypeOK'
  <2>1. /\ write_buffer_' \in [Slots -> Values \cup {Garbage}]
        /\ key_buffer_' \in [Slots -> Keys \cup {Garbage}]
    BY <1>0, <1>1, <1>2 DEF IInv, LocalTypeOK
  <2> QED BY <2>1, <1>0, <1>2 DEF IInv, LocalTypeOK, compactVars
<1>7. EvictFileInv'
  BY <1>0, <1>1 DEF IInv, EvictFileInv, Written
<1>8. CompactionFileInv' /\ ProgressInv' /\ HeldInv' /\ CoverInv'
  BY <1>0, CompactionFrame
<1>9. \A k \in Keys :
        /\ hash_map_[k] # NULL
        /\ ~(hash_map_[k].born \/ hash_map_[k] \in flushed_)
        => /\ hash_map_[k].buffer_offset \in 0..(buffer_cur_ - 1)
           /\ hash_map_[k].buffer_offset < buffer_cur_'
  BY <1>0, <1>1 DEF IInv, PositionInv, TypeOK, Position
<1>10. PositionInv'
  BY <1>0, <1>3, <1>9 DEF IInv, PositionInv
<1>11. BufferInv'
  <2> SUFFICES ASSUME NEW i \in 0..(buffer_cur_' - 1)
               PROVE  /\ key_buffer_'[i] \in Keys
                      /\ hash_map_[key_buffer_'[i]] # NULL
                           \/ i = buffer_cur_' - 1
    BY <1>0 DEF BufferInv
  <2>1. CASE i = buffer_cur_
    BY <2>1, <1>0, <1>1, <1>2, <1>4
  <2>2. CASE i # buffer_cur_
    <3>1. i \in 0..(buffer_cur_ - 1)
      BY <2>2, <1>0, <1>1
    <3> QED BY <3>1, <1>0, <1>3 DEF IInv, BufferInv
  <2> QED BY <2>1, <2>2
<1>12. SaveInv'
  <2>1. current_offset_ = buffer_cur_ /\ buffer_cur_' - 1 = buffer_cur_
        /\ buffer_cur_' > 0
    BY <1>0, <1>1 DEF IInv, EvictFileInv
  <2> QED BY <2>1, <1>0, <1>4 DEF SaveInv, Saving
<1>13. StoreUnchanged
  BY <1>0, <1>3, <1>9 DEF StoreUnchanged, Lookup, Contents
<1> QED BY <1>5, <1>6, <1>7, <1>8, <1>10, <1>11, <1>12, <1>13 DEF IInv
\* The committer publishes its position, by insert_lockless or by the
\* compare-and-swap: the key leaves whatever file it was in, also one that
\* compaction is moving.
LEMMA PublishFacts ==
  ASSUME IInv, Saving, hash_map_' = [hash_map_ EXCEPT ![rec.key] = ep],
         UNCHANGED <<flushed_, file_data, deleted, current_version_,
                     evict_version_, compaction_version_, bufferVars,
                     evict_file_map_, compactVars>>,
         pc' # "new_evict_file"
  PROVE  /\ rec.key \in Keys /\ rec.value \in Values
         /\ hash_map_' \in [Keys -> Position \cup {NULL}]
         /\ PositionInv' /\ BufferInv'
         /\ CompactionFileInv' /\ ProgressInv' /\ HeldInv' /\ CoverInv'
         /\ \A k \in Keys : Lookup(k)' =
              IF k = rec.key THEN rec.value ELSE Lookup(k)
<1> USE DEF bufferVars, compactVars
<1>1. rec.key \in Keys /\ rec.value \in Values
  BY DEF IInv, LocalTypeOK, Saving, Record
<1>2. /\ buffer_cur_ \in Nat /\ buffer_cur_ > 0
      /\ ep = [version |-> evict_version_, offset |-> buffer_cur_ - 1,
               buffer_offset |-> buffer_cur_ - 1, born |-> FALSE]
      /\ key_buffer_[buffer_cur_ - 1] = rec.key
      /\ write_buffer_[buffer_cur_ - 1] = rec.value
      /\ evict_version_ \in Versions /\ evict_version_ <= current_version_
      /\ file_data[evict_version_] = <<>>
      /\ evict_version_ \notin deleted \cup DOMAIN evict_file_map_
  BY Numbers DEF IInv, SaveInv, EvictFileInv, Saving, Written
<1>3. ep \in Position /\ ep # NULL /\ ~ep.born
  <2>1. buffer_cur_ - 1 \in Nat
    BY <1>2
  <2>2. ep \in Position
    BY <2>1, <1>2 DEF Position
  <2>3. ep.born = FALSE
    BY <1>2
  <2> QED BY <2>2, <2>3, NULLAssumption
<1>4. ep \notin flushed_
  <2> SUFFICES ASSUME ep \in flushed_ PROVE FALSE
    OBVIOUS
  <2>1. ep.offset < Len(file_data[evict_version_])
    BY <1>2 DEF IInv, PositionInv
  <2> QED BY <2>1, <1>2
<1>5. hash_map_ \in [Keys -> Position \cup {NULL}]
  BY DEF IInv, TypeOK
<1>6. /\ hash_map_' \in [Keys -> Position \cup {NULL}]
      /\ hash_map_'[rec.key] = ep
      /\ \A k \in Keys : k # rec.key => hash_map_'[k] = hash_map_[k]
  BY <1>1, <1>3, <1>5
<1>7. PositionInv'
  <2>1. ASSUME NEW k \in Keys, hash_map_'[k] # NULL
        PROVE  LET p == hash_map_'[k] IN
               /\ p.version <= current_version_
               /\ p.version \notin deleted
               /\ IF p.born \/ p \in flushed_
                    THEN p.offset < Len(file_data[p.version])
                    ELSE /\ p.version = evict_version_
                         /\ p.offset = p.buffer_offset
                         /\ p.buffer_offset < buffer_cur_
                         /\ key_buffer_[p.buffer_offset] = k
    <3>1. CASE k = rec.key
      BY <3>1, <1>2, <1>3, <1>4, <1>6
    <3>2. CASE k # rec.key
      BY <3>2, <2>1, <1>6 DEF IInv, PositionInv
    <3> QED BY <3>1, <3>2
  <2> QED BY <2>1 DEF IInv, PositionInv
<1>8. BufferInv'
  BY <1>2, <1>3, <1>6 DEF IInv, BufferInv
<1>9. CompactionFileInv' /\ ProgressInv' /\ HeldInv'
  BY DEF IInv, CompactionFileInv, Flushing, Updating, ProgressInv, HeldInv
<1>10. CoverInv'
  <2> SUFFICES ASSUME NEW k \in Keys, hash_map_'[k] # NULL,
                      hash_map_'[k].version \in DOMAIN evict_file_map_
               PROVE  Held(k, hash_map_'[k])
    BY DEF CoverInv, Held
  <2>1. k # rec.key
    BY <1>2, <1>3, <1>6
  <2> QED BY <2>1, <1>6 DEF IInv, CoverInv
<1>11. \A k \in Keys : Lookup(k)' = IF k = rec.key THEN rec.value ELSE Lookup(k)
  BY <1>2, <1>3, <1>4, <1>6 DEF Lookup, Contents
<1> QED BY <1>1, <1>6, <1>7, <1>8, <1>9, <1>10, <1>11

\* insert_lockless: a new key is published here, any other is left alone.
LEMMA InsertStep ==
  ASSUME IInv, Insert
  PROVE  /\ IInv'
         /\ IF hash_map_[rec.key] = NULL
              THEN /\ pc' = "idle"
                   /\ rec.key \in Keys /\ rec.value \in Values
                   /\ \A k \in Keys : Lookup(k)' =
                        IF k = rec.key THEN rec.value ELSE Lookup(k)
              ELSE pc' = "load_old" /\ StoreUnchanged
<1>0. /\ pc = "insert" /\ Saving
      /\ file_count' = [file_count EXCEPT ![ep.version] =
                          file_count[ep.version] + 1]
      /\ UNCHANGED <<flushed_, file_data, file_invalid, deleted,
                 current_version_, evict_version_, compaction_version_,
                 current_offset_, buffer_cur_, write_buffer_, key_buffer_,
                 evict_file_set_, evict_file_map_, compactVars>>
  BY DEF Insert, bufferVars, Saving
<1>1. file_count' \in [Versions -> Nat]
  <2>1. file_count \in [Versions -> Nat] /\ ep.version \in Versions
    BY <1>0, Numbers DEF IInv, TypeOK, SaveInv
  <2> QED BY ONLY <2>1, <1>0
<1>2. CASE hash_map_[rec.key] = NULL
  <2>1. /\ hash_map_' = [hash_map_ EXCEPT ![rec.key] = ep]
        /\ pc' = "idle"
    BY <1>2 DEF Insert, ReturnFromCommit
  <2>2. /\ rec.key \in Keys /\ rec.value \in Values
        /\ hash_map_' \in [Keys -> Position \cup {NULL}]
        /\ PositionInv' /\ BufferInv'
        /\ CompactionFileInv' /\ ProgressInv' /\ HeldInv' /\ CoverInv'
        /\ \A k \in Keys : Lookup(k)' =
             IF k = rec.key THEN rec.value ELSE Lookup(k)
    BY <1>0, <2>1, PublishFacts DEF bufferVars
  <2>3. TypeOK'
    BY <1>0, <1>1, <2>2 DEF IInv, TypeOK, compactVars
  <2>4. LocalTypeOK'
    BY <1>0, <2>1 DEF IInv, LocalTypeOK, compactVars
  <2>5. EvictFileInv' /\ SaveInv'
    BY <1>0, <2>1 DEF IInv, EvictFileInv, Written, SaveInv, Saving
  <2> QED BY <1>2, <2>1, <2>2, <2>3, <2>4, <2>5 DEF IInv
<1>3. CASE hash_map_[rec.key] # NULL
  <2>1. /\ pc' = "load_old"
        /\ UNCHANGED <<hash_map_, rec, ep, old_posi>>
    BY <1>3 DEF Insert
  <2>2. TypeOK'
    BY <1>0, <1>1, <2>1 DEF IInv, TypeOK, compactVars
  <2>3. LocalTypeOK'
    BY <1>0, <2>1 DEF IInv, LocalTypeOK, compactVars
  <2>4. EvictFileInv' /\ SaveInv'
    BY <1>0, <2>1 DEF IInv, EvictFileInv, Written, SaveInv, Saving
  <2>5. CompactionFileInv' /\ ProgressInv' /\ HeldInv' /\ CoverInv'
    BY <1>0, <2>1, CompactionFrame
  <2>6. PositionInv'
    BY <1>0, <2>1 DEF IInv, PositionInv
  <2>7. BufferInv'
    BY <1>0, <1>3, <2>1 DEF IInv, BufferInv, SaveInv
  <2>8. StoreUnchanged
    BY <1>0, <2>1 DEF StoreUnchanged, Lookup, Contents
  <2> QED BY <1>3, <2>1, <2>2, <2>3, <2>4, <2>5, <2>6, <2>7, <2>8 DEF IInv
<1> QED BY <1>2, <1>3

\* The key being saved is in the hash map, so old_posi is a position.
LEMMA LoadOldPositionStep ==
  ASSUME IInv, LoadOldPosition PROVE IInv' /\ StoreUnchanged
<1>0. /\ pc = "load_old" /\ pc' = "cas" /\ old_posi' = hash_map_[rec.key]
      /\ UNCHANGED <<hash_map_, flushed_, file_data, file_count, file_invalid,
                 deleted, current_version_, evict_version_,
                 compaction_version_, current_offset_, buffer_cur_,
                 write_buffer_, key_buffer_, evict_file_set_, evict_file_map_,
                 rec, ep, compactVars>>
  BY DEF LoadOldPosition, fileVars, bufferVars
<1>1. TypeOK'
  BY <1>0 DEF IInv, TypeOK, compactVars
<1>2. LocalTypeOK'
  BY <1>0 DEF IInv, LocalTypeOK, compactVars
<1>3. EvictFileInv'
  BY <1>0 DEF IInv, EvictFileInv, Written
<1>4. CompactionFileInv' /\ ProgressInv' /\ HeldInv' /\ CoverInv'
  BY <1>0, CompactionFrame
<1>5. PositionInv' /\ BufferInv'
  BY <1>0 DEF IInv, PositionInv, BufferInv
<1>6. /\ rec.key \in Keys /\ hash_map_[rec.key] # NULL
      /\ hash_map_[rec.key] \in Position
      /\ hash_map_[rec.key].version <= current_version_
  <2>1. buffer_cur_ \in Nat /\ buffer_cur_ > 0
        /\ key_buffer_[buffer_cur_ - 1] = rec.key
    BY <1>0, Numbers DEF IInv, SaveInv, Saving
  <2>2. buffer_cur_ - 1 \in 0..(buffer_cur_ - 1)
    BY <2>1
  <2>3. rec.key \in Keys /\ hash_map_[rec.key] # NULL
    BY <2>1, <2>2, <1>0 DEF IInv, BufferInv
  <2> QED BY <2>3 DEF IInv, TypeOK, PositionInv
<1>7. SaveInv'
  BY <1>0, <1>6 DEF IInv, SaveInv, Saving
<1>8. StoreUnchanged
  BY <1>0 DEF StoreUnchanged, Lookup, Contents
<1> QED BY <1>1, <1>2, <1>3, <1>4, <1>5, <1>7, <1>8 DEF IInv

\* UpdatePosition publishes, or finds that the compaction thread was faster and
\* tries again.
LEMMA UpdatePositionStep ==
  ASSUME IInv, UpdatePosition
  PROVE  /\ IInv'
         /\ IF hash_map_[rec.key] = old_posi
              THEN /\ pc' = "add_invalid"
                   /\ rec.key \in Keys /\ rec.value \in Values
                   /\ \A k \in Keys : Lookup(k)' =
                        IF k = rec.key THEN rec.value ELSE Lookup(k)
              ELSE pc' = "load_old" /\ StoreUnchanged
<1>0. /\ pc = "cas" /\ Saving /\ pc' \in {"add_invalid", "load_old"}
      /\ IF hash_map_[rec.key] = old_posi
           THEN hash_map_' = [hash_map_ EXCEPT ![rec.key] = ep]
                /\ pc' = "add_invalid"
           ELSE hash_map_' = hash_map_ /\ pc' = "load_old"
      /\ UNCHANGED <<flushed_, file_data, file_count, file_invalid, deleted,
                 current_version_, evict_version_, compaction_version_,
                 current_offset_, buffer_cur_, write_buffer_, key_buffer_,
                 evict_file_set_, evict_file_map_, rec, ep, old_posi,
                 compactVars>>
  BY DEF UpdatePosition, fileVars, bufferVars, Saving
<1>1. LocalTypeOK'
  BY <1>0 DEF IInv, LocalTypeOK, compactVars
<1>2. EvictFileInv' /\ SaveInv'
  BY <1>0 DEF IInv, EvictFileInv, Written, SaveInv, Saving
<1>3. CASE hash_map_[rec.key] = old_posi
  <2>1. /\ rec.key \in Keys /\ rec.value \in Values
        /\ hash_map_' \in [Keys -> Position \cup {NULL}]
        /\ PositionInv' /\ BufferInv'
        /\ CompactionFileInv' /\ ProgressInv' /\ HeldInv' /\ CoverInv'
        /\ \A k \in Keys : Lookup(k)' =
             IF k = rec.key THEN rec.value ELSE Lookup(k)
    BY <1>0, <1>3, PublishFacts DEF bufferVars
  <2>2. TypeOK'
    BY <1>0, <2>1 DEF IInv, TypeOK, compactVars
  <2> QED BY <1>0, <1>1, <1>2, <1>3, <2>1, <2>2 DEF IInv
<1>4. CASE hash_map_[rec.key] # old_posi
  <2>1. TypeOK'
    BY <1>0, <1>4 DEF IInv, TypeOK, compactVars
  <2>2. CompactionFileInv' /\ ProgressInv' /\ HeldInv' /\ CoverInv'
    BY <1>0, <1>4, CompactionFrame
  <2>3. PositionInv' /\ BufferInv'
    BY <1>0, <1>4 DEF IInv, PositionInv, BufferInv
  <2>4. StoreUnchanged
    BY <1>0, <1>4 DEF StoreUnchanged, Lookup, Contents
  <2> QED BY <1>0, <1>1, <1>2, <1>4, <2>1, <2>2, <2>3, <2>4 DEF IInv
<1> QED BY <1>3, <1>4

\* The end of SaveKVAsync: the counters, and the file that may be compacted.
LEMMA AfterPublishStep ==
  ASSUME IInv, AddInvalidCount \/ QueueFile PROVE IInv' /\ StoreUnchanged
<1>0. /\ pc \in {"add_invalid", "queue_file"} /\ pc' \in {"queue_file", "idle"}
      /\ pc' = "queue_file" => UNCHANGED <<rec, old_posi>>
      /\ UNCHANGED <<hash_map_, flushed_, file_data, file_count, deleted,
                 current_version_, evict_version_, compaction_version_,
                 current_offset_, buffer_cur_, write_buffer_, key_buffer_,
                 evict_file_map_, compactVars>>
  BY DEF AddInvalidCount, QueueFile, ReturnFromCommit, fileVars, bufferVars
<1>1. /\ old_posi \in Position /\ old_posi.version \in Versions
      /\ old_posi.version <= current_version_
  BY <1>0 DEF IInv, SaveInv, Position
<1>2. file_invalid' \in [Versions -> Nat]
  <2>1. \/ file_invalid' = file_invalid
        \/ file_invalid' = [file_invalid EXCEPT ![old_posi.version] =
                              file_invalid[old_posi.version] + 1]
    BY DEF AddInvalidCount, QueueFile, fileVars
  <2>2. file_invalid \in [Versions -> Nat]
    BY DEF IInv, TypeOK
  <2> QED BY ONLY <2>1, <2>2
<1>3. \A v \in evict_file_set_' :
        \/ v \in evict_file_set_
        \/ v = old_posi.version /\ v # evict_version_
  BY DEF AddInvalidCount, QueueFile
<1>4. TypeOK'
  <2>1. evict_file_set_' \subseteq Versions
    BY <1>1, <1>3 DEF IInv, TypeOK
  <2> QED BY <2>1, <1>0, <1>2 DEF IInv, TypeOK, compactVars
<1>5. LocalTypeOK'
  BY <1>0 DEF IInv, LocalTypeOK, compactVars
<1>6. EvictFileInv'
  <2>1. \A v \in evict_file_set_' : v <= current_version_ /\ v # evict_version_
    BY <1>1, <1>3 DEF IInv, EvictFileInv
  <2> QED BY <2>1, <1>0 DEF IInv, EvictFileInv, Written
<1>7. CompactionFileInv' /\ ProgressInv' /\ HeldInv' /\ CoverInv'
  BY <1>0, CompactionFrame
<1>8. PositionInv' /\ BufferInv' /\ SaveInv'
  BY <1>0 DEF IInv, PositionInv, BufferInv, SaveInv, Saving
<1>9. StoreUnchanged
  BY <1>0 DEF StoreUnchanged, Lookup, Contents
<1> QED BY <1>4, <1>5, <1>6, <1>7, <1>8, <1>9 DEF IInv
-----------------------------------------------------------------------------
(* The compaction thread: one lemma per action.                            *)

\* The committer's part of the invariant does not see the compaction thread's
\* steps that leave the hash map, the files and evict_file_set_ alone.
LEMMA CommitterFrame ==
  ASSUME IInv,
         UNCHANGED <<hash_map_, flushed_, file_data, current_version_,
                     evict_version_, bufferVars, commitVars>>,
         deleted' \cup evict_file_set_' \cup DOMAIN evict_file_map_' \subseteq
           deleted \cup evict_file_set_ \cup DOMAIN evict_file_map_,
         \A k \in Keys : hash_map_[k] # NULL => hash_map_[k].version \notin deleted'
  PROVE  EvictFileInv' /\ PositionInv' /\ BufferInv' /\ SaveInv' /\ StoreUnchanged
<1> USE DEF IInv, bufferVars, commitVars
<1>1. EvictFileInv'
  BY DEF EvictFileInv, Written
<1>2. PositionInv' /\ BufferInv' /\ SaveInv'
  BY DEF PositionInv, BufferInv, SaveInv, Saving
<1>3. StoreUnchanged
  BY DEF StoreUnchanged, Lookup, Contents
<1> QED BY <1>1, <1>2, <1>3

\* No key points into a file that is deleted.
LEMMA NotDeleted ==
  ASSUME IInv, NEW k \in Keys, hash_map_[k] # NULL
  PROVE  hash_map_[k].version \notin deleted
  BY DEF IInv, PositionInv

\* DeleteInvalidFiles: the last compaction is over, so no key points into a file
\* it had taken.
LEMMA DeleteInvalidFilesStep ==
  ASSUME IInv, DeleteInvalidFiles PROVE IInv' /\ StoreUnchanged
<1>0. /\ c_pc = "idle" /\ c_pc' = "init_evict_map"
      /\ deleted' = deleted \cup DOMAIN evict_file_map_
      /\ evict_file_map_' = NoMap
      /\ UNCHANGED <<hash_map_, flushed_, file_data, file_count, file_invalid,
                 current_version_, evict_version_, compaction_version_,
                 bufferVars, evict_file_set_, commitVars, scan_left,
                 files_left, items_left, id_buffer, n_cas, invalid_files>>
  BY DEF DeleteInvalidFiles
<1>1. DOMAIN evict_file_map_' = {}
  BY <1>0 DEF NoMap
<1>2. \A k \in Keys : hash_map_[k] # NULL =>
        hash_map_[k].version \notin DOMAIN evict_file_map_
  <2>1. /\ files_left = {} /\ items_left = {} /\ Len(id_buffer) = 0 /\ n_cas = 0
    BY <1>0 DEF IInv, ProgressInv, Updating
  <2>2. \A i : i \notin (n_cas + 1)..Len(id_buffer)
    BY <2>1
  <2> QED BY <2>1, <2>2, <1>0 DEF IInv, CoverInv, Held
<1>3. \A k \in Keys : hash_map_[k] # NULL => hash_map_[k].version \notin deleted'
  BY <1>0, <1>2, NotDeleted
<1>4. TypeOK'
  <2>1. deleted' \subseteq Versions
    BY <1>0 DEF IInv, TypeOK, LocalTypeOK
  <2> QED BY <2>1, <1>0 DEF IInv, TypeOK, bufferVars
<1>5. LocalTypeOK'
  BY <1>0, <1>1 DEF IInv, LocalTypeOK, bufferVars, commitVars, NoMap
<1>6. EvictFileInv' /\ PositionInv' /\ BufferInv' /\ SaveInv' /\ StoreUnchanged
  BY <1>0, <1>1, <1>3, CommitterFrame
<1>7. CompactionFileInv' /\ CoverInv'
  BY <1>0, <1>1 DEF CompactionFileInv, Flushing, Updating, CoverInv
<1>8. ProgressInv'
  BY <1>0, <1>1 DEF IInv, ProgressInv, Updating
<1>9. HeldInv'
  <2>1. items_left = {} /\ id_buffer = <<>>
    BY <1>0 DEF IInv, ProgressInv
  <2> QED BY <1>0, <1>1, <2>1 DEF HeldInv
<1> QED BY <1>4, <1>5, <1>6, <1>7, <1>8, <1>9 DEF IInv

\* InitializeEvictMapWithoutErase takes the queued files: every key is still to
\* be visited.
LEMMA InitializeEvictMapStep ==
  ASSUME IInv, InitializeEvictMap PROVE IInv' /\ StoreUnchanged
<1>0. /\ c_pc = "init_evict_map" /\ c_pc' = "scan"
      /\ evict_file_map_' = [v \in evict_file_set_ |-> {}]
      /\ files_left' = evict_file_set_ /\ scan_left' = Keys
      /\ UNCHANGED <<hash_map_, flushed_, file_data, file_count, file_invalid,
                 deleted, current_version_, evict_version_,
                 compaction_version_, bufferVars, evict_file_set_, commitVars,
                 items_left, id_buffer, n_cas, invalid_files>>
  BY DEF InitializeEvictMap, fileVars
<1>1. /\ DOMAIN evict_file_map_' = evict_file_set_
      /\ \A v \in evict_file_set_ : evict_file_map_'[v] = {}
  BY <1>0
<1>2. TypeOK'
  BY <1>0 DEF IInv, TypeOK, bufferVars
<1>3. LocalTypeOK'
  BY <1>0, <1>1 DEF IInv, TypeOK, LocalTypeOK, bufferVars, commitVars
<1>4. EvictFileInv' /\ PositionInv' /\ BufferInv' /\ SaveInv' /\ StoreUnchanged
  BY <1>0, <1>1, NotDeleted, CommitterFrame
<1>5. CompactionFileInv'
  BY <1>0 DEF CompactionFileInv, Flushing, Updating
<1>6. ProgressInv'
  BY <1>0, <1>1 DEF IInv, ProgressInv, Updating
<1>7. HeldInv'
  <2>1. items_left = {} /\ id_buffer = <<>>
    BY <1>0 DEF IInv, ProgressInv
  <2> QED BY <1>0, <1>1, <2>1 DEF HeldInv
<1>8. CoverInv'
  BY <1>0 DEF CoverInv, Held
<1> QED BY <1>2, <1>3, <1>4, <1>5, <1>6, <1>7, <1>8 DEF IInv

\* LookupValidItems visits a key: what it finds there is flushed.
LEMMA LookupValidItemStep ==
  ASSUME IInv, NEW k \in scan_left, LookupValidItem(k)
  PROVE  IInv' /\ StoreUnchanged
<1>p. PICK p : p = hash_map_[k]
  OBVIOUS
<1>0. /\ c_pc = "scan" /\ scan_left' = scan_left \ {k}
      /\ evict_file_map_' =
           IF p # NULL /\ p.version \in DOMAIN evict_file_map_
             THEN [evict_file_map_ EXCEPT ![p.version] =
                     evict_file_map_[p.version] \cup {<<k, p>>}]
             ELSE evict_file_map_
      /\ c_pc' = IF scan_left = {k} THEN "next_file" ELSE "scan"
      /\ UNCHANGED <<hash_map_, flushed_, file_data, file_count, file_invalid,
                 deleted, current_version_, evict_version_,
                 compaction_version_, bufferVars, evict_file_set_, commitVars,
                 files_left, items_left, id_buffer, n_cas, invalid_files>>
  BY <1>p DEF LookupValidItem, fileVars
<1>1. k \in Keys /\ (p # NULL => p \in Position)
  BY <1>p DEF IInv, LocalTypeOK, TypeOK
<1>2. evict_file_map_ \in [DOMAIN evict_file_map_ -> SUBSET Item]
  BY DEF IInv, LocalTypeOK
<1>3. /\ DOMAIN evict_file_map_' = DOMAIN evict_file_map_
      /\ evict_file_map_' \in [DOMAIN evict_file_map_ -> SUBSET Item]
      /\ \A v \in DOMAIN evict_file_map_ :
           /\ evict_file_map_[v] \subseteq evict_file_map_'[v]
           /\ \A it \in evict_file_map_'[v] : it \in evict_file_map_[v] \/
                (it = <<k, p>> /\ p # NULL /\ p.version = v)
           /\ p # NULL /\ p.version = v => <<k, p>> \in evict_file_map_'[v]
  BY <1>0, <1>1, <1>2 DEF Item
<1>4. TypeOK'
  BY <1>0 DEF IInv, TypeOK, bufferVars
<1>5. LocalTypeOK'
  <2>1. /\ DOMAIN evict_file_map_' \subseteq Versions
        /\ evict_file_map_' \in [DOMAIN evict_file_map_' -> SUBSET Item]
    BY <1>3 DEF IInv, LocalTypeOK
  <2>2. scan_left' \subseteq Keys
    BY <1>0 DEF IInv, LocalTypeOK
  <2>3. c_pc' \in {"next_file", "scan"}
    BY <1>0
  <2> QED BY <1>0, <2>1, <2>2, <2>3 DEF IInv, LocalTypeOK, bufferVars, commitVars
<1>6. EvictFileInv' /\ PositionInv' /\ BufferInv' /\ SaveInv' /\ StoreUnchanged
  BY <1>0, <1>3, NotDeleted, CommitterFrame
<1>7. CompactionFileInv'
  BY <1>0 DEF CompactionFileInv, Flushing, Updating
<1>8. ProgressInv'
  <2>1. /\ items_left = {} /\ id_buffer = <<>> /\ n_cas = 0
        /\ files_left = DOMAIN evict_file_map_
    BY <1>0 DEF IInv, ProgressInv, Updating
  <2>2. Len(id_buffer) < MaxAppCount
    BY <2>1, Numbers
  <2> QED BY <1>0, <1>3, <2>1, <2>2 DEF ProgressInv, Updating
<1>9. HeldInv'
  <2>1. p # NULL /\ p.version \in DOMAIN evict_file_map_ =>
          p.offset < Len(file_data[p.version])
    BY <1>p, <1>1, TakenIsFlushed DEF IInv, EvictFileInv
  <2>2. items_left = {} /\ id_buffer = <<>>
    BY <1>0 DEF IInv, ProgressInv
  <2>3. \A v \in DOMAIN evict_file_map_ : \A it \in evict_file_map_'[v] :
          it[2].version = v /\ it[2].offset < Len(file_data[v])
    <3> SUFFICES ASSUME NEW v \in DOMAIN evict_file_map_,
                        NEW it \in evict_file_map_'[v]
                 PROVE  it[2].version = v /\ it[2].offset < Len(file_data[v])
      OBVIOUS
    <3>1. CASE it \in evict_file_map_[v]
      BY <3>1 DEF IInv, HeldInv
    <3>2. CASE it = <<k, p>> /\ p # NULL /\ p.version = v
      BY <3>2, <2>1
    <3> QED BY <3>1, <3>2, <1>3
  <2> QED BY <2>2, <2>3, <1>0, <1>3 DEF HeldInv
<1>10. CoverInv'
  <2> SUFFICES ASSUME NEW j \in Keys, hash_map_[j] # NULL,
                      hash_map_[j].version \in DOMAIN evict_file_map_
               PROVE  Held(j, hash_map_[j])'
    BY <1>0, <1>3 DEF CoverInv
  <2>1. files_left = DOMAIN evict_file_map_
    BY <1>0 DEF IInv, ProgressInv
  <2>2. items_left = {} /\ id_buffer = <<>>
    BY <1>0 DEF IInv, ProgressInv
  <2>3. CASE j = k
    BY <2>1, <2>3, <1>p, <1>0, <1>3 DEF Held
  <2>4. CASE j # k
    <3>1. Held(j, hash_map_[j])
      BY DEF IInv, CoverInv
    <3>2. \/ j \in scan_left
          \/ <<j, hash_map_[j]>> \in evict_file_map_[hash_map_[j].version]
      <4>1. \A i : i \notin (n_cas + 1)..Len(id_buffer)
        BY <2>2, Numbers
      <4> QED BY <3>1, <2>2, <4>1 DEF Held
    <3>3. CASE j \in scan_left
      BY <3>3, <2>4, <1>0 DEF Held
    <3>4. CASE <<j, hash_map_[j]>> \in evict_file_map_[hash_map_[j].version]
      BY <3>4, <2>1, <1>0, <1>3 DEF Held
    <3> QED BY <3>2, <3>3, <3>4
  <2> QED BY <2>3, <2>4
<1> QED BY <1>4, <1>5, <1>6, <1>7, <1>8, <1>9, <1>10 DEF IInv
\* MoveToNewFileAsync turns to the next file.
LEMMA MoveFileStep ==
  ASSUME IInv, NEW v \in Versions, MoveFile(v) PROVE IInv' /\ StoreUnchanged
<1>0. /\ c_pc = "next_file" /\ v \in files_left /\ files_left' = files_left \ {v}
      /\ items_left' = evict_file_map_[v]
      /\ invalid_files' \subseteq invalid_files \cup {v}
      /\ c_pc' = IF evict_file_map_[v] = {} THEN "next_file" ELSE "item"
      /\ UNCHANGED <<hash_map_, flushed_, file_data, file_count, file_invalid,
                 deleted, current_version_, evict_version_,
                 compaction_version_, bufferVars, evict_file_set_,
                 evict_file_map_, commitVars, scan_left, id_buffer, n_cas>>
  BY DEF MoveFile, fileVars
<1>1. /\ v \in DOMAIN evict_file_map_ /\ items_left = {} /\ n_cas = 0
      /\ Len(id_buffer) < MaxAppCount
      /\ files_left \subseteq DOMAIN evict_file_map_
      /\ evict_file_map_[v] \in SUBSET Item
  <2>1. /\ v \in DOMAIN evict_file_map_ /\ items_left = {} /\ n_cas = 0
        /\ Len(id_buffer) < MaxAppCount
        /\ files_left \subseteq DOMAIN evict_file_map_
    BY <1>0 DEF IInv, ProgressInv, Updating
  <2> QED BY <2>1 DEF IInv, LocalTypeOK
<1>2. TypeOK'
  <2>1. files_left' \subseteq Versions /\ invalid_files' \subseteq Versions
    BY <1>0 DEF IInv, TypeOK
  <2> QED BY <2>1, <1>0 DEF IInv, TypeOK, bufferVars
<1>3. LocalTypeOK'
  BY <1>0, <1>1 DEF IInv, LocalTypeOK, bufferVars, commitVars
<1>4. EvictFileInv' /\ PositionInv' /\ BufferInv' /\ SaveInv' /\ StoreUnchanged
  BY <1>0, NotDeleted, CommitterFrame
<1>5. CompactionFileInv'
  BY <1>0 DEF CompactionFileInv, Flushing, Updating
<1>6. ProgressInv'
  BY <1>0, <1>1 DEF ProgressInv, Updating
<1>7. HeldInv'
  BY <1>0, <1>1 DEF IInv, HeldInv
<1>8. CoverInv'
  <2> SUFFICES ASSUME NEW k \in Keys, hash_map_[k] # NULL,
                      hash_map_[k].version \in DOMAIN evict_file_map_
               PROVE  Held(k, hash_map_[k])'
    BY <1>0 DEF CoverInv
  <2>1. Held(k, hash_map_[k])
    BY DEF IInv, CoverInv
  <2> QED BY <2>1, <1>0, <1>1 DEF Held
<1> QED BY <1>2, <1>3, <1>4, <1>5, <1>6, <1>7, <1>8 DEF IInv

\* A record is read from the file into the buffer of the new file.
LEMMA ReadItemStep ==
  ASSUME IInv, NEW it \in items_left, ReadItem(it) PROVE IInv' /\ StoreUnchanged
<1>x. PICK x : x = Read(file_data[it[2].version], it[2].offset)
  OBVIOUS
<1>e. PICK e : e = <<it[1], it[2], x>>
  OBVIOUS
<1>0. /\ c_pc = "item" /\ items_left' = items_left \ {it}
      /\ id_buffer' = Append(id_buffer, e)
      /\ invalid_files' \subseteq invalid_files \cup {it[2].version}
      /\ c_pc' = IF Len(id_buffer) + 1 = MaxAppCount THEN "flush"
                 ELSE IF items_left = {it} THEN "next_file" ELSE "item"
      /\ UNCHANGED <<hash_map_, flushed_, file_data, file_count, file_invalid,
                 deleted, current_version_, evict_version_,
                 compaction_version_, bufferVars, evict_file_set_,
                 evict_file_map_, commitVars, scan_left, files_left, n_cas>>
  BY <1>x, <1>e DEF ReadItem, fileVars
<1>1. /\ it \in Item /\ it[1] \in Keys /\ it[2] \in Position
      /\ it[2].version \in Versions /\ it[2].offset \in Nat
      /\ it[2].version \in DOMAIN evict_file_map_
      /\ it[2].offset < Len(file_data[it[2].version])
  BY DEF IInv, LocalTypeOK, Item, Position, HeldInv
<1>2. /\ x = file_data[it[2].version][it[2].offset + 1]
      /\ x \in Values \cup {Garbage}
  <2>1. file_data[it[2].version] \in Seq(Values \cup {Garbage})
    BY <1>1 DEF IInv, TypeOK
  <2>2. it[2].offset + 1 \in 1..Len(file_data[it[2].version])
    BY <1>1, <2>1, LenProperties
  <2>3. x = file_data[it[2].version][it[2].offset + 1]
    BY <1>x, <1>1 DEF Read
  <2> QED BY <2>1, <2>2, <2>3, ElementOfSeq
<1>3. /\ e \in Entry /\ e[1] = it[1] /\ e[2] = it[2] /\ e[3] = x
  BY <1>e, <1>1, <1>2 DEF Entry
<1>4. /\ id_buffer \in Seq(Entry) /\ Len(id_buffer) \in Nat
      /\ Len(id_buffer) < MaxAppCount /\ n_cas = 0
  BY <1>0, Numbers DEF IInv, LocalTypeOK, ProgressInv, Updating
<1>5. /\ id_buffer' \in Seq(Entry) /\ Len(id_buffer') = Len(id_buffer) + 1
      /\ \A i \in 1..Len(id_buffer) : id_buffer'[i] = id_buffer[i]
      /\ id_buffer'[Len(id_buffer) + 1] = e
  BY <1>0, <1>3, <1>4, AppendProperties
<1>6. TypeOK'
  <2>1. n_cas' \in 0..Len(id_buffer') /\ Len(id_buffer') <= MaxAppCount
    BY <1>0, <1>4, <1>5, Numbers
  <2>2. invalid_files' \subseteq Versions
    BY <1>0, <1>1 DEF IInv, TypeOK
  <2> QED BY <2>1, <2>2, <1>0 DEF IInv, TypeOK, bufferVars
<1>7. LocalTypeOK'
  BY <1>0, <1>5 DEF IInv, LocalTypeOK, bufferVars, commitVars
<1>8. EvictFileInv' /\ PositionInv' /\ BufferInv' /\ SaveInv' /\ StoreUnchanged
  BY <1>0, NotDeleted, CommitterFrame
<1>9. CompactionFileInv'
  BY <1>0 DEF CompactionFileInv, Flushing, Updating
<1>10. ProgressInv'
  <2>1. files_left \subseteq DOMAIN evict_file_map_
    BY DEF IInv, ProgressInv
  <2>2. c_pc' # "flush" => Len(id_buffer') < MaxAppCount
    BY <1>0, <1>4, <1>5, Numbers
  <2> QED BY <2>1, <2>2, <1>0, <1>4, <1>5 DEF ProgressInv, Updating
<1>11. HeldInv'
  <2>1. ASSUME NEW i \in 1..Len(id_buffer')
        PROVE  LET f == id_buffer'[i] IN
               /\ f[2].version \in DOMAIN evict_file_map_
               /\ f[2].offset < Len(file_data[f[2].version])
               /\ f[3] = file_data[f[2].version][f[2].offset + 1]
    <3>1. CASE i = Len(id_buffer) + 1
      BY <3>1, <1>1, <1>2, <1>3, <1>5
    <3>2. CASE i # Len(id_buffer) + 1
      <4>1. i \in 1..Len(id_buffer)
        BY <3>2, <1>4, <1>5
      <4> QED BY <4>1, <1>5 DEF IInv, HeldInv
    <3> QED BY <3>1, <3>2
  <2> QED BY <2>1, <1>0 DEF IInv, HeldInv
<1>12. CoverInv'
  <2> SUFFICES ASSUME NEW k \in Keys, hash_map_[k] # NULL,
                      hash_map_[k].version \in DOMAIN evict_file_map_
               PROVE  Held(k, hash_map_[k])'
    BY <1>0 DEF CoverInv
  <2>1. Held(k, hash_map_[k])
    BY DEF IInv, CoverInv
  <2>2. CASE <<k, hash_map_[k]>> = it
    <3>1. Len(id_buffer) + 1 \in (n_cas' + 1)..Len(id_buffer')
      BY <1>0, <1>4, <1>5
    <3>2. id_buffer'[Len(id_buffer) + 1][1] = k /\
          id_buffer'[Len(id_buffer) + 1][2] = hash_map_[k]
      BY <2>2, <1>3, <1>5
    <3> QED BY <3>1, <3>2, <1>0 DEF Held
  <2>3. CASE \E i \in (n_cas + 1)..Len(id_buffer) :
               id_buffer[i][1] = k /\ id_buffer[i][2] = hash_map_[k]
    <3>1. PICK i \in (n_cas + 1)..Len(id_buffer) :
               id_buffer[i][1] = k /\ id_buffer[i][2] = hash_map_[k]
      BY <2>3
    <3>2. i \in (n_cas' + 1)..Len(id_buffer') /\ id_buffer'[i] = id_buffer[i]
      BY <1>0, <1>4, <1>5
    <3> QED BY <3>1, <3>2, <1>0 DEF Held
  <2>4. CASE <<k, hash_map_[k]>> # it /\
             ~(\E i \in (n_cas + 1)..Len(id_buffer) :
               id_buffer[i][1] = k /\ id_buffer[i][2] = hash_map_[k])
    BY <2>1, <2>4, <1>0 DEF Held
  <2> QED BY <2>2, <2>3, <2>4
<1> QED BY <1>6, <1>7, <1>8, <1>9, <1>10, <1>11, <1>12 DEF IInv

\* FlushAndUpdate begins a file of its own.
LEMMA NewCompactionFileStep ==
  ASSUME IInv, NewCompactionFile PROVE IInv' /\ StoreUnchanged
<1>0. /\ c_pc \in {"flush", "next_file"}
      /\ c_pc = "next_file" => files_left = {}
      /\ c_pc' = IF c_pc = "flush" THEN "write" ELSE "write_last"
      /\ current_version_ < MaxFiles
      /\ current_version_' = current_version_ + 1
      /\ compaction_version_' = current_version_ + 1
      /\ UNCHANGED <<hash_map_, flushed_, file_data, file_count, file_invalid,
                 deleted, evict_version_, current_offset_, buffer_cur_,
                 write_buffer_, key_buffer_, evict_file_set_, evict_file_map_,
                 pc, rec, ep, old_posi, scan_left, files_left, items_left,
                 id_buffer, n_cas, invalid_files>>
  BY DEF NewCompactionFile, fileVars, bufferVars, commitVars
<1>1. /\ current_version_ + 1 \in Versions /\ current_version_ \in Nat
      /\ \A v \in Versions : v \in Nat
      /\ evict_version_ <= current_version_ /\ evict_version_ \in Versions
  BY <1>0, Numbers DEF Versions, IInv, EvictFileInv
<1>2. \A v \in Versions : v <= current_version_ =>
        v <= current_version_ + 1 /\ v # current_version_ + 1
  BY <1>1
<1>3. TypeOK'
  BY <1>0, <1>1 DEF IInv, TypeOK
<1>4. LocalTypeOK'
  BY <1>0 DEF IInv, LocalTypeOK
<1>5. deleted \cup evict_file_set_ \cup DOMAIN evict_file_map_ \subseteq Versions
  BY DEF IInv, TypeOK, LocalTypeOK
<1>6. EvictFileInv'
  <2>1. \A v \in Versions : v > current_version_ + 1 => file_data[v] = <<>>
    BY <1>1 DEF IInv, EvictFileInv
  <2>2. \A v \in deleted \cup evict_file_set_ \cup DOMAIN evict_file_map_ :
          v <= current_version_ + 1 /\ v # evict_version_
    BY <1>2, <1>5 DEF IInv, EvictFileInv
  <2>3. evict_version_ <= current_version_ + 1
    BY <1>1, <1>2
  <2> QED BY <2>1, <2>2, <2>3, <1>0 DEF IInv, EvictFileInv, Written
<1>7. CompactionFileInv'
  <2>1. file_data[current_version_ + 1] = <<>>
    BY <1>1 DEF IInv, EvictFileInv
  <2>2. current_version_ + 1 \notin deleted \cup DOMAIN evict_file_map_
    BY <1>2, <1>5 DEF IInv, EvictFileInv
  <2>3. current_version_ + 1 # evict_version_
    BY <1>1, <1>2
  <2> QED BY <2>1, <2>2, <2>3, <1>0, <1>1
          DEF CompactionFileInv, Flushing, Updating
<1>8. PositionInv'
  <2>1. \A k \in Keys : hash_map_[k] # NULL =>
          hash_map_[k].version <= current_version_ + 1
    <3>1. \A k \in Keys : hash_map_[k] # NULL =>
            hash_map_[k].version \in Versions /\
            hash_map_[k].version <= current_version_
      BY DEF IInv, PositionInv, TypeOK, Position
    <3> QED BY <3>1, <1>2
  <2> QED BY <2>1, <1>0 DEF IInv, PositionInv
<1>9. BufferInv'
  BY <1>0 DEF IInv, BufferInv
<1>10. SaveInv'
  <2>1. pc \in {"cas", "add_invalid", "queue_file"} =>
          old_posi.version <= current_version_ + 1
    <3>1. pc \in {"cas", "add_invalid", "queue_file"} =>
            /\ old_posi.version \in Versions
            /\ old_posi.version <= current_version_
      BY DEF IInv, SaveInv, Position
    <3> QED BY <3>1, <1>2
  <2> QED BY <2>1, <1>0 DEF IInv, SaveInv, Saving
<1>11. ProgressInv'
  BY <1>0 DEF IInv, ProgressInv, Updating
<1>12. HeldInv'
  BY <1>0 DEF IInv, HeldInv
<1>13. CoverInv'
  BY <1>0 DEF IInv, CoverInv, Held
<1>14. StoreUnchanged
  BY <1>0 DEF StoreUnchanged, Lookup, Contents
<1> QED BY <1>3, <1>4, <1>6, <1>7, <1>8, <1>9, <1>10, <1>11, <1>12, <1>13,
           <1>14 DEF IInv
\* The records read so far are written to the new file, which no position
\* refers to yet.
LEMMA WriteCompactionFileStep ==
  ASSUME IInv, WriteCompactionFile PROVE IInv' /\ StoreUnchanged
<1> DEFINE S == Values \cup {Garbage}
<1>cv. PICK cv : cv = compaction_version_
  OBVIOUS
<1>n. PICK new : new = [i \in 1..Len(id_buffer) |-> id_buffer[i][3]]
  OBVIOUS
<1>0. /\ c_pc \in {"write", "write_last"} /\ n_cas' = 0
      /\ c_pc' = IF c_pc = "write" THEN "update" ELSE "update_last"
      /\ file_data' = [file_data EXCEPT ![cv] = file_data[cv] \o new]
      /\ file_count' = [file_count EXCEPT ![cv] = file_count[cv] + Len(id_buffer)]
      /\ UNCHANGED <<hash_map_, flushed_, file_invalid, deleted,
                 current_version_, evict_version_, compaction_version_,
                 current_offset_, buffer_cur_, write_buffer_, key_buffer_,
                 evict_file_set_, evict_file_map_, pc, rec, ep, old_posi,
                 scan_left, files_left, items_left, id_buffer, invalid_files>>
  BY <1>cv, <1>n DEF WriteCompactionFile, bufferVars, commitVars
<1>1. /\ file_data \in [Versions -> Seq(S)] /\ cv \in Versions
      /\ id_buffer \in Seq(Entry) /\ Len(id_buffer) \in Nat
      /\ file_count \in [Versions -> Nat]
  BY <1>cv, Numbers DEF IInv, TypeOK, LocalTypeOK
<1>2. /\ cv # evict_version_ /\ file_data[cv] = <<>> /\ cv <= current_version_
      /\ cv \notin deleted /\ cv \notin DOMAIN evict_file_map_
  BY <1>0, <1>cv DEF IInv, CompactionFileInv, Flushing, Updating
<1>3. /\ new \in Seq(S) /\ Len(new) = Len(id_buffer)
      /\ \A i \in 1..Len(id_buffer) : new[i] = id_buffer[i][3]
  <2>1. \A i \in 1..Len(id_buffer) : id_buffer[i][3] \in S
    BY <1>1, ElementOfSeq DEF Entry
  <2>2. new \in [1..Len(id_buffer) -> S]
    BY <2>1, <1>n
  <2>3. new \in Seq(S)
    BY <2>2, <1>1, SeqDef
  <2> QED BY <2>2, <2>3, <1>1, <1>n, LenProperties
<1>4. file_data[cv] \o new = new
  BY <1>2, <1>3, ConcatEmptySeq
<1> HIDE DEF S
<1>5. /\ file_data' \in [Versions -> Seq(S)] /\ file_data'[cv] = new
      /\ \A v \in Versions : v # cv => file_data'[v] = file_data[v]
  BY <1>0, <1>1, <1>3, <1>4
<1>6. \A v \in Versions : \A o \in Nat : o < Len(file_data[v]) =>
        v # cv /\ file_data'[v] = file_data[v]
  BY <1>2, <1>5
<1>7. TypeOK'
  <2>1. file_data' \in [Versions -> Seq(Values \cup {Garbage})]
    BY <1>5 DEF S
  <2>2. file_count' \in [Versions -> Nat]
    BY ONLY <1>0, <1>1
  <2>3. n_cas' \in 0..Len(id_buffer')
    BY <1>0, <1>1
  <2> QED BY <2>1, <2>2, <2>3, <1>0 DEF IInv, TypeOK
<1>8. LocalTypeOK'
  BY <1>0 DEF IInv, LocalTypeOK
<1>9. EvictFileInv'
  <2>1. file_data'[evict_version_] = file_data[evict_version_]
    BY <1>2, <1>5, Numbers
  <2>2. \A v \in Versions : v > current_version_ => file_data'[v] = <<>>
    <3>1. \A v \in Versions : v > current_version_ => v # cv
      BY <1>1, <1>2, Numbers
    <3> QED BY <3>1, <1>5 DEF IInv, EvictFileInv
  <2> QED BY <2>1, <2>2, <1>0 DEF IInv, EvictFileInv, Written
<1>10. CompactionFileInv'
  BY <1>0, <1>cv, <1>2, <1>3, <1>5 DEF CompactionFileInv, Flushing, Updating
<1>11. PositionInv'
  <2>1. \A p \in Position : p.version \in Versions /\ p.offset \in Nat
    BY DEF Position
  <2>2. \A p \in Position : p.offset < Len(file_data[p.version]) =>
          p.offset < Len(file_data'[p.version])
    BY <2>1, <1>6
  <2>3. /\ flushed_ \subseteq Position
        /\ \A k \in Keys : hash_map_[k] # NULL => hash_map_[k] \in Position
    BY DEF IInv, TypeOK
  <2> QED BY <2>2, <2>3, <1>0 DEF IInv, PositionInv
<1>12. BufferInv' /\ SaveInv'
  BY <1>0 DEF IInv, BufferInv, SaveInv, Saving
<1>13. ProgressInv'
  BY <1>0 DEF IInv, ProgressInv, Updating
<1>14. HeldInv'
  <2>1. \A v \in DOMAIN evict_file_map_ : file_data'[v] = file_data[v]
    BY <1>2, <1>5 DEF IInv, LocalTypeOK
  <2>2. UNCHANGED <<evict_file_map_, items_left, id_buffer>>
    BY <1>0
  <2>3. HeldInv
    BY DEF IInv
  <2> QED BY ONLY <2>1, <2>2, <2>3 DEF HeldInv
<1>15. CoverInv'
  <2>1. n_cas = 0 /\ c_pc # "scan" /\ c_pc' # "scan"
    BY <1>0 DEF IInv, ProgressInv, Updating
  <2> QED BY <2>1, <1>0 DEF IInv, CoverInv, Held
<1>16. StoreUnchanged
  <2> SUFFICES ASSUME NEW k \in Keys, hash_map_[k] # NULL,
                      hash_map_[k].born \/ hash_map_[k] \in flushed_
               PROVE  file_data'[hash_map_[k].version] =
                        file_data[hash_map_[k].version]
    BY <1>0 DEF StoreUnchanged, Lookup, Contents
  <2> QED BY <1>6, SMTT(60) DEF IInv, PositionInv, TypeOK, Position
<1> QED BY <1>7, <1>8, <1>9, <1>10, <1>11, <1>12, <1>13, <1>14, <1>15, <1>16
        DEF IInv

\* What the compare-and-swap of FlushAndUpdate is about to do: the record of its
\* entry is in the new file, and in the old one.
LEMMA SwapFacts ==
  ASSUME IInv, SwapPosition
  PROVE  LET e == id_buffer[n_cas + 1]
             new == [version |-> compaction_version_, offset |-> n_cas,
                     buffer_offset |-> n_cas, born |-> TRUE]
         IN
         /\ Updating
         /\ n_cas + 1 \in 1..Len(id_buffer)
         /\ e[1] \in Keys /\ e[2] \in Position
         /\ e[2].version \in DOMAIN evict_file_map_
         /\ Read(file_data[e[2].version], e[2].offset) = e[3]
         /\ new \in Position
         /\ n_cas < Len(file_data[compaction_version_])
         /\ Read(file_data[compaction_version_], n_cas) = e[3]
<1>0. Updating /\ n_cas < Len(id_buffer) /\ n_cas \in Nat /\ Len(id_buffer) \in Nat
      /\ compaction_version_ \in Versions
  BY Numbers DEF SwapPosition, Updating
<1>1. n_cas + 1 \in 1..Len(id_buffer)
  BY <1>0
<1>2. id_buffer[n_cas + 1] \in Entry
  BY <1>1, ElementOfSeq DEF IInv, LocalTypeOK
<1>3. id_buffer[n_cas + 1][1] \in Keys /\ id_buffer[n_cas + 1][2] \in Position
  BY <1>2 DEF Entry
<1>4. LET e == id_buffer[n_cas + 1] IN
      /\ e[2].version \in DOMAIN evict_file_map_
      /\ Read(file_data[e[2].version], e[2].offset) = e[3]
  BY <1>1 DEF IInv, HeldInv, Read
<1>5. [version |-> compaction_version_, offset |-> n_cas,
       buffer_offset |-> n_cas, born |-> TRUE] \in Position
  BY <1>0 DEF Position
<1>6. /\ n_cas < Len(file_data[compaction_version_])
      /\ Read(file_data[compaction_version_], n_cas) = id_buffer[n_cas + 1][3]
  BY <1>0, <1>1 DEF IInv, CompactionFileInv, Flushing, Read
<1> QED BY <1>0, <1>1, <1>3, <1>4, <1>5, <1>6

\* FlushAndUpdate swaps a position: the key's record is the one in the new file,
\* or the committer has replaced it and the new record is dead.
LEMMA SwapPositionStep ==
  ASSUME IInv, SwapPosition PROVE IInv' /\ StoreUnchanged
<1>e. PICK e : e = id_buffer[n_cas + 1]
  OBVIOUS
<1>k. PICK k : k = e[1]
  OBVIOUS
<1>cv. PICK cv : cv = compaction_version_
  OBVIOUS
<1>n. PICK new : new = [version |-> cv, offset |-> n_cas,
                        buffer_offset |-> n_cas, born |-> TRUE]
  OBVIOUS
<1>0. /\ c_pc' = c_pc /\ n_cas' = n_cas + 1 /\ n_cas < Len(id_buffer)
      /\ \/ /\ hash_map_[k] = e[2]
            /\ hash_map_' = [hash_map_ EXCEPT ![k] = new]
            /\ UNCHANGED <<file_invalid, evict_file_set_>>
         \/ /\ hash_map_[k] # e[2]
            /\ file_invalid' = [file_invalid EXCEPT ![cv] = file_invalid[cv] + 1]
            /\ evict_file_set_' \subseteq evict_file_set_ \cup {cv}
            /\ UNCHANGED hash_map_
      /\ UNCHANGED <<flushed_, file_data, file_count, deleted,
                 current_version_, evict_version_, compaction_version_,
                 current_offset_, buffer_cur_, write_buffer_, key_buffer_,
                 evict_file_map_, pc, rec, ep, old_posi, scan_left,
                 files_left, items_left, id_buffer, invalid_files>>
  BY <1>e, <1>k, <1>cv, <1>n DEF SwapPosition, bufferVars, commitVars
<1>1. /\ Updating /\ n_cas + 1 \in 1..Len(id_buffer)
      /\ k \in Keys /\ e[2] \in Position /\ e[2].version \in DOMAIN evict_file_map_
      /\ Read(file_data[e[2].version], e[2].offset) = e[3]
      /\ new \in Position /\ n_cas < Len(file_data[cv])
      /\ Read(file_data[cv], n_cas) = e[3]
  BY <1>e, <1>k, <1>cv, <1>n, SwapFacts
<1>2. /\ cv <= current_version_ /\ cv # evict_version_ /\ cv \in Versions
      /\ cv \notin deleted /\ cv \notin DOMAIN evict_file_map_
  BY <1>1, <1>cv, Numbers DEF IInv, CompactionFileInv, Flushing
<1>3. /\ new.version = cv /\ new.offset = n_cas /\ new.born = TRUE
      /\ new # NULL
  BY <1>n, <1>1, NULLAssumption
<1>4. /\ hash_map_' \in [Keys -> Position \cup {NULL}]
      /\ \A j \in Keys : hash_map_'[j] = hash_map_[j] \/
           (j = k /\ hash_map_[k] = e[2] /\ hash_map_'[j] = new)
      /\ hash_map_'[k] # e[2]
  <2>1. hash_map_ \in [Keys -> Position \cup {NULL}]
    BY DEF IInv, TypeOK
  <2>2. new # e[2]
    BY <1>1, <1>2, <1>3
  <2> QED BY <2>1, <2>2, <1>0, <1>1
<1>5. TypeOK'
  <2>1. file_invalid' \in [Versions -> Nat]
    <3>1. \/ file_invalid' = file_invalid
          \/ file_invalid' = [file_invalid EXCEPT ![cv] = file_invalid[cv] + 1]
      BY <1>0
    <3>2. file_invalid \in [Versions -> Nat]
      BY DEF IInv, TypeOK
    <3> QED BY ONLY <3>1, <3>2
  <2>2. evict_file_set_' \subseteq Versions
    BY <1>0, <1>2 DEF IInv, TypeOK
  <2>3. n_cas' \in 0..Len(id_buffer')
    BY <1>0, <1>1, Numbers
  <2> QED BY <2>1, <2>2, <2>3, <1>0, <1>4 DEF IInv, TypeOK
<1>6. LocalTypeOK'
  BY <1>0 DEF IInv, LocalTypeOK
<1>7. EvictFileInv'
  <2>1. evict_file_set_' \subseteq evict_file_set_ \cup {cv}
    BY <1>0
  <2>2. \A v \in evict_file_set_' : v <= current_version_ /\ v # evict_version_
    BY <2>1, <1>2 DEF IInv, EvictFileInv
  <2> QED BY <2>2, <1>0 DEF IInv, EvictFileInv, Written
<1>8. CompactionFileInv'
  BY <1>0 DEF IInv, CompactionFileInv, Flushing, Updating
<1>9. PositionInv'
  <2>1. ASSUME NEW j \in Keys, hash_map_'[j] # NULL
        PROVE  LET p == hash_map_'[j] IN
               /\ p.version <= current_version_
               /\ p.version \notin deleted
               /\ IF p.born \/ p \in flushed_
                    THEN p.offset < Len(file_data[p.version])
                    ELSE /\ pc # "new_evict_file"
                         /\ p.version = evict_version_
                         /\ p.offset = p.buffer_offset
                         /\ p.buffer_offset < buffer_cur_
                         /\ key_buffer_[p.buffer_offset] = j
    <3>1. CASE hash_map_'[j] = hash_map_[j]
      BY <2>1, <3>1 DEF IInv, PositionInv
    <3>2. CASE hash_map_'[j] = new
      BY <3>2, <1>1, <1>2, <1>3
    <3> QED BY <3>1, <3>2, <1>4
  <2> QED BY <2>1, <1>0 DEF IInv, PositionInv
<1>10. BufferInv' /\ SaveInv'
  <2>1. \A j \in Keys : hash_map_[j] # NULL => hash_map_'[j] # NULL
    BY <1>3, <1>4
  <2> QED BY <2>1, <1>0 DEF IInv, BufferInv, SaveInv, Saving
<1>11. ProgressInv'
  <2>1. Updating'
    BY <1>0, <1>1 DEF Updating
  <2> QED BY <2>1, <1>0 DEF IInv, ProgressInv
<1>12. HeldInv'
  BY <1>0 DEF IInv, HeldInv
<1>13. CoverInv'
  <2> SUFFICES ASSUME NEW j \in Keys, hash_map_'[j] # NULL,
                      hash_map_'[j].version \in DOMAIN evict_file_map_
               PROVE  Held(j, hash_map_[j])' /\ hash_map_'[j] = hash_map_[j]
    BY <1>0 DEF CoverInv
  <2>1. hash_map_'[j] = hash_map_[j]
    BY <1>2, <1>3, <1>4
  <2>2. Held(j, hash_map_[j]) /\ c_pc # "scan"
    BY <2>1, <1>1 DEF IInv, CoverInv, Updating
  <2>3. ASSUME NEW i \in (n_cas + 1)..Len(id_buffer), id_buffer[i][1] = j,
               id_buffer[i][2] = hash_map_[j]
        PROVE  i \in (n_cas' + 1)..Len(id_buffer)
    <3>1. i # n_cas + 1
      <4> SUFFICES ASSUME i = n_cas + 1 PROVE FALSE
        OBVIOUS
      <4>1. j = k /\ hash_map_[j] = e[2]
        BY <2>3, <1>e, <1>k
      <4> QED BY <4>1, <2>1, <1>4
    <3> QED BY <3>1, <1>0, Numbers
  <2>4. Held(j, hash_map_[j])'
    BY <2>1, <2>2, <2>3, <1>0 DEF Held
  <2> QED BY <2>1, <2>4
<1>14. StoreUnchanged
  <2> SUFFICES ASSUME NEW j \in Keys PROVE Lookup(j)' = Lookup(j)
    BY DEF StoreUnchanged
  <2>1. CASE hash_map_'[j] = hash_map_[j]
    BY <2>1, <1>0 DEF Lookup, Contents
  <2>2. CASE j = k /\ hash_map_[k] = e[2] /\ hash_map_'[j] = new
    <3>1. hash_map_[j] # NULL /\ hash_map_[j].version # evict_version_
      BY <2>2, <1>1, NULLAssumption DEF IInv, EvictFileInv
    <3>2. hash_map_[j].born \/ hash_map_[j] \in flushed_
      BY <3>1, TakenIsFlushed
    <3>3. Lookup(j) = e[3]
      BY <2>2, <3>1, <3>2, <1>1 DEF Lookup, Contents
    <3>4. Lookup(j)' = Read(file_data'[cv], n_cas)
      BY <2>2, <1>3 DEF Lookup, Contents
    <3> QED BY <3>3, <3>4, <1>0, <1>1
  <2> QED BY <2>1, <2>2, <1>4
<1> QED BY <1>5, <1>6, <1>7, <1>8, <1>9, <1>10, <1>11, <1>12, <1>13, <1>14
        DEF IInv

\* FlushAndUpdate ends: every record it read is settled.
LEMMA EraseInvalidFilesStep ==
  ASSUME IInv, EraseInvalidFiles PROVE IInv' /\ StoreUnchanged
<1>0. /\ Updating /\ n_cas = Len(id_buffer) /\ n_cas' = 0 /\ id_buffer' = <<>>
      /\ evict_file_set_' \subseteq evict_file_set_
      /\ c_pc' = IF c_pc = "update_last" THEN "idle"
                 ELSE IF items_left = {} THEN "next_file" ELSE "item"
      /\ invalid_files' = IF c_pc = "update" /\ items_left = {}
                            THEN {id_buffer[Len(id_buffer)][2].version} ELSE {}
      /\ UNCHANGED <<hash_map_, flushed_, file_data, file_count, file_invalid,
                 deleted, current_version_, evict_version_,
                 compaction_version_, bufferVars, evict_file_map_, commitVars,
                 scan_left, files_left, items_left>>
  BY DEF EraseInvalidFiles, fileVars, Updating
<1>1. ~Updating' /\ ~Flushing' /\ c_pc' # "scan" /\ c_pc # "scan"
  BY <1>0 DEF Updating, Flushing
<1>2. /\ id_buffer' \in Seq(Entry) /\ Len(id_buffer') = 0
  BY <1>0
<1>3. TypeOK'
  <2>1. c_pc = "update" => id_buffer[Len(id_buffer)][2].version \in Versions
    <3> SUFFICES ASSUME c_pc = "update"
                 PROVE  id_buffer[Len(id_buffer)][2].version \in Versions
      OBVIOUS
    <3>1. Len(id_buffer) \in 1..Len(id_buffer)
      BY Numbers DEF IInv, ProgressInv
    <3>2. id_buffer[Len(id_buffer)] \in Entry
      BY <3>1, ElementOfSeq DEF IInv, LocalTypeOK
    <3> QED BY <3>2 DEF Entry, Position
  <2>2. invalid_files' \subseteq Versions
    BY <2>1, <1>0
  <2>3. /\ evict_file_set_' \subseteq Versions
        /\ n_cas' \in 0..Len(id_buffer') /\ Len(id_buffer') <= MaxAppCount
    BY <1>0, <1>2, Numbers, SMTT(60) DEF IInv, TypeOK
  <2> QED BY <2>2, <2>3, <1>0 DEF IInv, TypeOK, bufferVars
<1>4. LocalTypeOK'
  BY <1>0, <1>2 DEF IInv, LocalTypeOK, bufferVars, commitVars
<1>5. EvictFileInv' /\ PositionInv' /\ BufferInv' /\ SaveInv' /\ StoreUnchanged
  BY <1>0, NotDeleted, CommitterFrame
<1>6. CompactionFileInv'
  BY <1>1 DEF CompactionFileInv
<1>7. ProgressInv'
  BY <1>0, <1>1, <1>2, Numbers DEF IInv, ProgressInv, Updating
<1>8. HeldInv'
  BY <1>0, <1>2 DEF IInv, HeldInv
<1>9. CoverInv'
  <2>1. \A i : i \notin (n_cas + 1)..Len(id_buffer)
    BY <1>0, Numbers
  <2> QED BY <2>1, <1>0, <1>1 DEF IInv, CoverInv, Held
<1> QED BY <1>3, <1>4, <1>5, <1>6, <1>7, <1>8, <1>9 DEF IInv
\* A stuttering step preserves the invariant and every lookup.
LEMMA StutterStep ==
  ASSUME IInv, UNCHANGED vars PROVE IInv' /\ StoreUnchanged
<1> USE DEF vars, fileVars, bufferVars, commitVars, compactVars
<1>1. TypeOK'
  BY DEF IInv, TypeOK
<1>2. LocalTypeOK'
  BY DEF IInv, LocalTypeOK
<1>3. CompactionFileInv' /\ ProgressInv' /\ HeldInv' /\ CoverInv'
  BY CompactionFrame
<1>4. EvictFileInv' /\ PositionInv' /\ BufferInv' /\ SaveInv' /\ StoreUnchanged
  BY NotDeleted, CommitterFrame
<1> QED BY <1>1, <1>2, <1>3, <1>4 DEF IInv

-----------------------------------------------------------------------------
(* The theorems.                                                           *)

\* The empty store satisfies the invariant (the constructor).
LEMMA InitIInv == Init => IInv
<1> SUFFICES ASSUME Init PROVE IInv
  OBVIOUS
<1> USE DEF Init, InitThreads
<1>0. /\ MaxAppCount \in Nat /\ MaxAppCount > 0 /\ 0 \in Versions
      /\ Versions \subseteq Nat
  BY MaxAppCountAssumption, MaxFilesAssumption DEF Versions
<1>1. /\ id_buffer \in Seq(Entry) /\ Len(id_buffer) = 0
      /\ DOMAIN evict_file_map_ = {}
      /\ \A v \in Versions : file_data[v] = <<>>
  BY DEF NoMap
<1>2. TypeOK
  <2>1. /\ hash_map_ \in [Keys -> Position \cup {NULL}]
        /\ file_data \in [Versions -> Seq(Values \cup {Garbage})]
        /\ file_count \in [Versions -> Nat] /\ file_invalid \in [Versions -> Nat]
    OBVIOUS
  <2> QED BY <2>1, <1>0, <1>1 DEF TypeOK
<1>3. LocalTypeOK
  BY <1>1 DEF LocalTypeOK, NoMap
<1>4. EvictFileInv
  BY <1>0, <1>1 DEF EvictFileInv, Written
<1>5. CompactionFileInv /\ PositionInv /\ BufferInv /\ SaveInv
  BY DEF CompactionFileInv, Flushing, Updating, PositionInv, BufferInv, SaveInv,
         Saving
<1>6. ProgressInv /\ HeldInv /\ CoverInv
  BY <1>0, <1>1 DEF ProgressInv, Updating, HeldInv, CoverInv
<1> QED BY <1>2, <1>3, <1>4, <1>5, <1>6 DEF IInv

AbstractStore == [k \in Keys |-> Lookup(k)]
StorePreserved == UNCHANGED <<AbstractStore, Pending>>

\* Publishing the position of a commit is the abstract Commit.
LEMMA PublishIsCommit ==
  ASSUME pc \in {"insert", "cas"}, pc' \in {"idle", "add_invalid"},
         rec.key \in Keys, rec.value \in Values,
         \A k \in Keys : Lookup(k)' = IF k = rec.key THEN rec.value ELSE Lookup(k)
  PROVE  KV!Next
<1> DEFINE r == <<rec.key, rec.value>>
<1>1. AbstractStore' = [AbstractStore EXCEPT ![rec.key] = rec.value]
  BY DEF AbstractStore
<1>2. Pending = <<r>> /\ Pending' = <<>>
  BY DEF Pending
<1>3. <<r>> # <<>> /\ Head(<<r>>) = r /\ Tail(<<r>>) = <<>>
  <2>1. Len(<<r>>) = 1 /\ <<r>> \in Seq({r})
    OBVIOUS
  <2> QED BY <2>1
<1>4. r[1] = rec.key /\ r[2] = rec.value
  OBVIOUS
<1>5. KV!Commit
  BY <1>1, <1>2, <1>3, <1>4 DEF KV!Commit, AbstractStore
<1> QED BY <1>5 DEF KV!Next

\* A step of either thread is a step of the abstract store, or leaves it alone.
LEMMA StepRefines ==
  ASSUME IInv, [Next]_vars
  PROVE  IInv' /\ (KV!Next \/ StorePreserved)
<1>1. StoreUnchanged => UNCHANGED AbstractStore
  BY DEF StoreUnchanged, AbstractStore
<1>2. ASSUME NEW k \in Keys, NEW v \in Values, Commit(k, v)
      PROVE  IInv' /\ KV!Next
  <2>1. IInv' /\ UNCHANGED AbstractStore
    BY <1>1, <1>2, CommitStep
  <2>2. Pending = <<>> /\ Pending' = <<<<k, v>>>>
    BY <1>2 DEF Commit, Pending
  <2>3. Pending' \in Seq(Keys \X Values)
    BY <2>2
  <2> QED BY <2>1, <2>2, <2>3 DEF KV!Next, KV!BatchCommit, AbstractStore
<1>3. CASE WriteBuffer
  BY <1>1, <1>3, WriteBufferStep DEF StorePreserved, WriteBuffer, Pending
<1>4. CASE UpdateFlushStatus
  BY <1>1, <1>4, UpdateFlushStatusStep
     DEF StorePreserved, UpdateFlushStatus, Pending
<1>5. CASE NewEvictFile
  BY <1>1, <1>5, NewEvictFileStep DEF StorePreserved, NewEvictFile, Pending
<1>6. CASE AppendToWriteBuffer
  BY <1>1, <1>6, AppendToWriteBufferStep
     DEF StorePreserved, AppendToWriteBuffer, Pending
<1>7. CASE Insert
  <2>1. CASE hash_map_[rec.key] = NULL
    BY <1>7, <2>1, InsertStep, PublishIsCommit DEF Insert
  <2>2. CASE hash_map_[rec.key] # NULL
    <3>1. IInv' /\ StoreUnchanged /\ pc' = "load_old" /\ rec' = rec
      BY <1>7, <2>2, InsertStep DEF Insert
    <3> QED BY <1>1, <1>7, <3>1 DEF StorePreserved, Insert, Pending
  <2> QED BY <2>1, <2>2
<1>8. CASE LoadOldPosition
  BY <1>1, <1>8, LoadOldPositionStep DEF StorePreserved, LoadOldPosition, Pending
<1>9. CASE UpdatePosition
  <2>1. CASE hash_map_[rec.key] = old_posi
    BY <1>9, <2>1, UpdatePositionStep, PublishIsCommit DEF UpdatePosition
  <2>2. CASE hash_map_[rec.key] # old_posi
    <3>1. IInv' /\ StoreUnchanged /\ pc' = "load_old" /\ rec' = rec
      BY <1>9, <2>2, UpdatePositionStep DEF UpdatePosition
    <3> QED BY <1>1, <1>9, <3>1 DEF StorePreserved, UpdatePosition, Pending
  <2> QED BY <2>1, <2>2
<1>10. CASE AddInvalidCount \/ QueueFile
  <2>1. IInv' /\ StoreUnchanged
    BY <1>10, AfterPublishStep
  <2>2. Pending = <<>> /\ Pending' = <<>>
    BY <1>10 DEF AddInvalidCount, QueueFile, ReturnFromCommit, Pending
  <2> QED BY <1>1, <2>1, <2>2 DEF StorePreserved
<1>11. UNCHANGED commitVars => UNCHANGED Pending
  BY DEF commitVars, Pending
<1>12. CASE DeleteInvalidFiles
  BY <1>1, <1>11, <1>12, DeleteInvalidFilesStep
     DEF StorePreserved, DeleteInvalidFiles
<1>13. CASE InitializeEvictMap
  BY <1>1, <1>11, <1>13, InitializeEvictMapStep
     DEF StorePreserved, InitializeEvictMap
<1>14. CASE \E k \in scan_left : LookupValidItem(k)
  BY <1>1, <1>11, <1>14, LookupValidItemStep DEF StorePreserved, LookupValidItem
<1>15. CASE \E v \in Versions : MoveFile(v)
  BY <1>1, <1>11, <1>15, MoveFileStep DEF StorePreserved, MoveFile
<1>16. CASE \E it \in items_left : ReadItem(it)
  BY <1>1, <1>11, <1>16, ReadItemStep DEF StorePreserved, ReadItem
<1>17. CASE NewCompactionFile
  BY <1>1, <1>11, <1>17, NewCompactionFileStep
     DEF StorePreserved, NewCompactionFile
<1>18. CASE WriteCompactionFile
  BY <1>1, <1>11, <1>18, WriteCompactionFileStep
     DEF StorePreserved, WriteCompactionFile
<1>19. CASE SwapPosition
  BY <1>1, <1>11, <1>19, SwapPositionStep DEF StorePreserved, SwapPosition
<1>20. CASE EraseInvalidFiles
  BY <1>1, <1>11, <1>20, EraseInvalidFilesStep
     DEF StorePreserved, EraseInvalidFiles
<1>21. CASE UNCHANGED vars
  BY <1>1, <1>11, <1>21, StutterStep DEF StorePreserved, vars
<1> QED BY <1>2, <1>3, <1>4, <1>5, <1>6, <1>7, <1>8, <1>9, <1>10, <1>12, <1>13,
           <1>14, <1>15, <1>16, <1>17, <1>18, <1>19, <1>20, <1>21
        DEF Next, Committer, CompactionThread

\* The invariant that ties the two threads together holds in every state.
THEOREM InductiveInvariant == Spec => []IInv
<1>1. IInv /\ [Next]_vars => IInv'
  BY StepRefines
<1> QED BY InitIInv, <1>1, PTL DEF Spec

\* The state always has its types: neither the write buffer nor the buffer of
\* FlushAndUpdate is ever overrun.
THEOREM TypeCorrect == Spec => []TypeOK
<1>1. IInv => TypeOK
  BY DEF IInv
<1> QED BY InductiveInvariant, <1>1, PTL

\* No key ever points into a file the compaction thread has deleted.
THEOREM NeverDangling == Spec => []NoDanglingPosition
<1>1. IInv => NoDanglingPosition
  BY DEF IInv, PositionInv, NoDanglingPosition
<1> QED BY InductiveInvariant, <1>1, PTL

\* SSDHashKV with asynchronous compaction implements the abstract map: the
\* linearization point of a commit is insert_lockless or the committer's
\* successful compare-and-swap, and the compaction thread is invisible.
THEOREM Refinement == Spec => ImplementsKVStore
<1>1. Init => KV!Init
  BY DEF Init, InitThreads, KV!Init, Lookup, Pending
<1>2. IInv /\ [Next]_vars => [KV!Next]_(KV!kvVars)
  BY StepRefines DEF KV!kvVars, StorePreserved, AbstractStore
<1> QED BY InductiveInvariant, <1>1, <1>2, PTL
        DEF Spec, ImplementsKVStore, KV!Spec
-----------------------------------------------------------------------------
(* The counters.                                                           *)

\* How the number of keys in a file changes when one key moves.
LEMMA HoldsMove ==
  ASSUME IInv, NEW k \in Keys, NEW new \in Position,
         hash_map_' = [hash_map_ EXCEPT ![k] = new], NEW v \in Versions
  PROVE  /\ Cardinality(Holds(v)) \in Nat
         /\ Cardinality(Holds(v)') = Cardinality(Holds(v))
              + (IF new.version = v THEN 1 ELSE 0)
              - (IF hash_map_[k] # NULL /\ hash_map_[k].version = v
                   THEN 1 ELSE 0)
<1>0. hash_map_ \in [Keys -> Position \cup {NULL}]
  BY DEF IInv, TypeOK
<1>1. PICK A : A = Holds(v)
  OBVIOUS
<1>2. PICK B : B = Holds(v)'
  OBVIOUS
<1>3. IsFiniteSet(A) /\ IsFiniteSet(B)
  BY <1>1, <1>2, KeysAssumption, FS_Subset DEF Holds
<1>4. new # NULL
  BY NULLAssumption
<1>5. /\ k \in A <=> hash_map_[k] # NULL /\ hash_map_[k].version = v
      /\ k \in B <=> new.version = v
      /\ A \ {k} = B \ {k}
  BY <1>0, <1>1, <1>2, <1>4 DEF Holds
<1>6. ASSUME NEW C, IsFiniteSet(C)
      PROVE  /\ Cardinality(C) \in Nat /\ Cardinality(C \ {k}) \in Nat
             /\ Cardinality(C) = Cardinality(C \ {k}) +
                                   (IF k \in C THEN 1 ELSE 0)
  <2>1. Cardinality(C) \in Nat
    BY <1>6, FS_CardinalityType
  <2>2. IsFiniteSet(C \ {k}) /\ Cardinality(C \ {k}) =
          (IF k \in C THEN Cardinality(C) - 1 ELSE Cardinality(C))
    BY <1>6, FS_RemoveElement
  <2>3. Cardinality(C \ {k}) \in Nat
    BY <2>2, FS_CardinalityType
  <2> QED BY <2>1, <2>2, <2>3
<1>7. /\ Cardinality(A) \in Nat /\ Cardinality(A \ {k}) \in Nat
      /\ Cardinality(A) = Cardinality(A \ {k}) + (IF k \in A THEN 1 ELSE 0)
      /\ Cardinality(B) = Cardinality(A \ {k}) + (IF k \in B THEN 1 ELSE 0)
  BY <1>3, <1>5, <1>6
<1> QED BY <1>1, <1>2, <1>5, <1>7

\* The terms of CountInv are integers.
LEMMA CountTypes ==
  ASSUME IInv, NEW v \in Versions
  PROVE  /\ Cardinality(Holds(v)) \in Nat
         /\ file_count[v] \in Nat /\ file_invalid[v] \in Nat
         /\ Committing(v) \in Nat /\ Replacing(v) \in Nat /\ ToSwap(v) \in Int
<1>1. IsFiniteSet(Holds(v))
  BY KeysAssumption, FS_Subset DEF Holds
<1>2. file_count[v] \in Nat /\ file_invalid[v] \in Nat
  BY DEF IInv, TypeOK
<1>3. Committing(v) \in Nat /\ Replacing(v) \in Nat
  BY DEF Committing, Replacing
<1>4. ToSwap(v) \in Int
  BY Numbers DEF ToSwap
<1> QED BY <1>1, <1>2, <1>3, <1>4, FS_CardinalityType

\* A step that touches neither the counters nor the hash map, nor a record that
\* is not settled.
LEMMA CountFrame ==
  ASSUME CountInv, NEW v \in Versions,
         v \notin deleted, v \notin DOMAIN evict_file_map_,
         UNCHANGED <<hash_map_, file_count, file_invalid>>,
         Committing(v)' = Committing(v), Replacing(v)' = Replacing(v),
         ToSwap(v)' = ToSwap(v)
  PROVE  file_count'[v] - file_invalid'[v] =
           Cardinality(Holds(v)') + Unsettled(v)'
<1>1. Holds(v)' = Holds(v)
  BY DEF Holds
<1>2. Unsettled(v)' = Unsettled(v)
  BY DEF Unsettled
<1> QED BY <1>1, <1>2 DEF CountInv

\* The record being saved, and its position.
LEMMA SavingTypes ==
  ASSUME IInv, Saving
  PROVE  ep \in Position /\ ep.version \in Versions /\ rec.key \in Keys
<1>1. ep = [version |-> evict_version_, offset |-> buffer_cur_ - 1,
            buffer_offset |-> buffer_cur_ - 1, born |-> FALSE]
  BY DEF IInv, SaveInv
<1>2. buffer_cur_ - 1 \in Nat /\ evict_version_ \in Versions
  <2>1. buffer_cur_ > 0
    BY DEF IInv, SaveInv
  <2> QED BY <2>1, Numbers
<1>3. ep \in Position /\ ep.version \in Versions
  BY <1>1, <1>2 DEF Position
<1>4. rec \in Record
  BY DEF IInv, LocalTypeOK, Saving
<1> QED BY <1>3, <1>4 DEF Record

\* Every step of either thread keeps the counters and the hash map in step.
LEMMA CountStep ==
  ASSUME IInv, CountInv, [Next]_vars PROVE CountInv'
<1> SUFFICES ASSUME NEW v \in Versions, v \notin deleted',
                    v \notin DOMAIN evict_file_map_'
             PROVE  file_count'[v] - file_invalid'[v] =
                      Cardinality(Holds(v)') + Unsettled(v)'
  BY DEF CountInv
<1> USE DEF fileVars, bufferVars, commitVars, compactVars
<1>0. v \notin deleted /\ v \notin DOMAIN evict_file_map_
  <2>1. CASE DeleteInvalidFiles
    BY <2>1 DEF DeleteInvalidFiles
  <2>2. CASE InitializeEvictMap
    BY <2>2 DEF InitializeEvictMap, IInv, ProgressInv
  <2>3. CASE \E k \in scan_left : LookupValidItem(k)
    BY <2>3 DEF LookupValidItem
  <2>4. CASE Committer
    BY <2>4 DEF Committer, Commit, WriteBuffer, UpdateFlushStatus, NewEvictFile,
         AppendToWriteBuffer, Insert, LoadOldPosition, UpdatePosition,
         AddInvalidCount, QueueFile
  <2>5. CASE \/ \E w \in Versions : MoveFile(w)
             \/ \E it \in items_left : ReadItem(it)
             \/ NewCompactionFile \/ WriteCompactionFile \/ SwapPosition
             \/ EraseInvalidFiles
    BY <2>5 DEF MoveFile, ReadItem, NewCompactionFile, WriteCompactionFile,
         SwapPosition, EraseInvalidFiles
  <2>6. CASE UNCHANGED vars
    BY <2>6 DEF vars
  <2> QED BY <2>1, <2>2, <2>3, <2>4, <2>5, <2>6 DEF Next, CompactionThread
<1>1. file_count[v] - file_invalid[v] = Cardinality(Holds(v)) + Committing(v)
                                          + Replacing(v) + ToSwap(v)
  <2>1. file_count[v] - file_invalid[v] = Cardinality(Holds(v)) + Unsettled(v)
    BY <1>0 DEF CountInv
  <2> QED BY <2>1, CountTypes DEF Unsettled
<1>2. /\ Cardinality(Holds(v)) \in Nat
      /\ file_count[v] \in Nat /\ file_invalid[v] \in Nat
      /\ Committing(v) \in Nat /\ Replacing(v) \in Nat /\ ToSwap(v) \in Int
  BY CountTypes
<1>3. CASE Insert
  <2>1. /\ pc = "insert"
        /\ file_count' = [file_count EXCEPT ![ep.version] =
                            file_count[ep.version] + 1]
        /\ UNCHANGED <<file_invalid, compaction_version_, c_pc, id_buffer, n_cas>>
    BY <1>3 DEF Insert
  <2>2. /\ ep \in Position /\ ep.version \in Versions /\ rec.key \in Keys
        /\ file_count \in [Versions -> Nat]
    <3>1. ep \in Position /\ ep.version \in Versions /\ rec.key \in Keys
      BY <2>1, SavingTypes DEF Saving
    <3>2. file_count \in [Versions -> Nat]
      BY DEF IInv, TypeOK
    <3> QED BY <3>1, <3>2
  <2>3. file_count'[v] = file_count[v] + (IF ep.version = v THEN 1 ELSE 0)
    BY <2>1, <2>2
  <2>4. ToSwap(v)' = ToSwap(v) /\ Committing(v) = 0 /\ Replacing(v) = 0
    BY <2>1 DEF ToSwap, Updating, Committing, Replacing
  <2>5. CASE hash_map_[rec.key] = NULL
    <3>1. pc' = "idle" /\ hash_map_' = [hash_map_ EXCEPT ![rec.key] = ep]
      BY <1>3, <2>5 DEF Insert, ReturnFromCommit
    <3>2. Committing(v)' = 0 /\ Replacing(v)' = 0
      BY <3>1 DEF Committing, Replacing
    <3>3. Cardinality(Holds(v)') = Cardinality(Holds(v))
                                     + (IF ep.version = v THEN 1 ELSE 0)
      <4>1. Cardinality(Holds(v)') = Cardinality(Holds(v))
              + (IF ep.version = v THEN 1 ELSE 0)
              - (IF hash_map_[rec.key] # NULL /\ hash_map_[rec.key].version = v
                   THEN 1 ELSE 0)
        BY <2>2, <3>1, HoldsMove
      <4> QED BY ONLY <4>1, <1>2, <2>5
    <3> QED BY <1>1, <1>2, <2>1, <2>3, <2>4, <3>2, <3>3 DEF Unsettled
  <2>6. CASE hash_map_[rec.key] # NULL
    <3>1. pc' = "load_old" /\ UNCHANGED <<hash_map_, ep>>
      BY <1>3, <2>6 DEF Insert
    <3>2. /\ Committing(v)' = (IF ep.version = v THEN 1 ELSE 0)
          /\ Replacing(v)' = 0 /\ Holds(v)' = Holds(v)
      BY <3>1 DEF Committing, Replacing, Holds
    <3> QED BY <1>1, <1>2, <2>1, <2>3, <2>4, <3>2 DEF Unsettled
  <2> QED BY <2>5, <2>6
<1>4. CASE UpdatePosition
  <2>1. /\ pc = "cas"
        /\ UNCHANGED <<file_count, file_invalid, compaction_version_, c_pc,
                       id_buffer, n_cas, ep, old_posi>>
    BY <1>4 DEF UpdatePosition
  <2>2. ToSwap(v)' = ToSwap(v) /\ Replacing(v) = 0
    BY <2>1 DEF ToSwap, Updating, Replacing
  <2>3. CASE hash_map_[rec.key] = old_posi
    <3>1. pc' = "add_invalid" /\ hash_map_' = [hash_map_ EXCEPT ![rec.key] = ep]
      BY <1>4, <2>3 DEF UpdatePosition
    <3>2. /\ ep \in Position /\ rec.key \in Keys
          /\ old_posi \in Position /\ old_posi # NULL
      <4>1. ep \in Position /\ rec.key \in Keys
        BY <2>1, SavingTypes DEF Saving
      <4>2. old_posi \in Position
        BY <2>1 DEF IInv, SaveInv
      <4> QED BY <4>1, <4>2, NULLAssumption
    <3>3. /\ Committing(v) = (IF ep.version = v THEN 1 ELSE 0)
          /\ Committing(v)' = 0
          /\ Replacing(v)' = (IF old_posi.version = v THEN 1 ELSE 0)
      BY <2>1, <3>1 DEF Committing, Replacing
    <3>4. Cardinality(Holds(v)') = Cardinality(Holds(v))
            + (IF ep.version = v THEN 1 ELSE 0)
            - (IF old_posi.version = v THEN 1 ELSE 0)
      <4>1. Cardinality(Holds(v)') = Cardinality(Holds(v))
              + (IF ep.version = v THEN 1 ELSE 0)
              - (IF hash_map_[rec.key] # NULL /\ hash_map_[rec.key].version = v
                   THEN 1 ELSE 0)
        BY <3>1, <3>2, HoldsMove, ZenonT(60)
      <4> QED BY ONLY <4>1, <2>3, <3>2
    <3> QED BY <1>1, <1>2, <2>1, <2>2, <3>3, <3>4 DEF Unsettled
  <2>4. CASE hash_map_[rec.key] # old_posi
    <3>1. pc' = "load_old" /\ hash_map_' = hash_map_
      BY <1>4, <2>4 DEF UpdatePosition
    <3>2. Committing(v)' = Committing(v) /\ Replacing(v)' = Replacing(v)
      BY <2>1, <3>1 DEF Committing, Replacing
    <3> QED BY <1>0, <2>1, <2>2, <3>1, <3>2, CountFrame
  <2> QED BY <2>3, <2>4
<1>5. CASE AddInvalidCount
  <2>1. /\ pc = "add_invalid" /\ pc' = "queue_file"
        /\ file_invalid' = [file_invalid EXCEPT ![old_posi.version] =
                              file_invalid[old_posi.version] + 1]
        /\ UNCHANGED <<hash_map_, file_count, compaction_version_, c_pc,
                       id_buffer, n_cas>>
    BY <1>5 DEF AddInvalidCount
  <2>2. file_invalid \in [Versions -> Nat]
    BY DEF IInv, TypeOK
  <2>3. file_invalid'[v] = file_invalid[v] +
                             (IF old_posi.version = v THEN 1 ELSE 0)
    BY <2>1, <2>2
  <2>4. /\ ToSwap(v)' = ToSwap(v) /\ Committing(v) = 0 /\ Committing(v)' = 0
        /\ Replacing(v) = (IF old_posi.version = v THEN 1 ELSE 0)
        /\ Replacing(v)' = 0 /\ Holds(v)' = Holds(v)
    BY <2>1 DEF ToSwap, Updating, Committing, Replacing, Holds
  <2> QED BY <1>1, <1>2, <2>1, <2>3, <2>4 DEF Unsettled
<1>6. CASE WriteCompactionFile
  <2>1. /\ c_pc \in {"write", "write_last"} /\ c_pc' \in {"update", "update_last"}
        /\ n_cas' = 0
        /\ file_count' = [file_count EXCEPT ![compaction_version_] =
                            file_count[compaction_version_] + Len(id_buffer)]
        /\ UNCHANGED <<hash_map_, file_invalid, compaction_version_, id_buffer,
                       pc, ep, old_posi>>
    BY <1>6 DEF WriteCompactionFile
  <2>2. file_count \in [Versions -> Nat] /\ Len(id_buffer) \in Nat
    BY Numbers DEF IInv, TypeOK
  <2>3. file_count'[v] = file_count[v] +
          (IF compaction_version_ = v THEN Len(id_buffer) ELSE 0)
    BY <2>1, <2>2
  <2>4. /\ ToSwap(v) = 0
        /\ ToSwap(v)' = (IF compaction_version_ = v THEN Len(id_buffer) ELSE 0)
        /\ Committing(v)' = Committing(v) /\ Replacing(v)' = Replacing(v)
        /\ Holds(v)' = Holds(v)
    BY <2>1, <2>2 DEF ToSwap, Updating, Committing, Replacing, Holds
  <2>5. CASE compaction_version_ = v
    <3>1. /\ file_count'[v] = file_count[v] + Len(id_buffer)
          /\ ToSwap(v)' = Len(id_buffer)
      BY <2>3, <2>4, <2>5
    <3>2. Len(id_buffer) \in Nat /\ file_invalid'[v] = file_invalid[v]
      BY <2>1, <2>2
    <3>3. Unsettled(v)' = Committing(v) + Replacing(v) + Len(id_buffer)
      BY <2>4, <3>1 DEF Unsettled
    <3>4. Cardinality(Holds(v)') = Cardinality(Holds(v)) /\ ToSwap(v) = 0
      BY <2>4
    <3>5. PICK n \in Nat : n = Len(id_buffer)
      BY <3>2
    <3>6. /\ file_count'[v] = file_count[v] + n
          /\ file_invalid'[v] = file_invalid[v]
          /\ Unsettled(v)' = Committing(v) + Replacing(v) + n
      BY ONLY <3>1, <3>2, <3>3, <3>5
    <3>7. file_count[v] - file_invalid[v] =
            Cardinality(Holds(v)) + Committing(v) + Replacing(v)
      BY ONLY <1>1, <1>2, <3>4
    <3> QED BY ONLY <1>2, <3>4, <3>6, <3>7, n \in Nat
  <2>6. CASE compaction_version_ # v
    <3>1. /\ file_count'[v] = file_count[v] /\ ToSwap(v)' = 0
          /\ file_invalid'[v] = file_invalid[v]
      BY <1>2, <2>1, <2>3, <2>4, <2>6
    <3> QED BY <1>1, <1>2, <2>4, <3>1 DEF Unsettled
  <2> QED BY <2>5, <2>6
<1>7. CASE SwapPosition
  <2>e. PICK e : e = id_buffer[n_cas + 1]
    OBVIOUS
  <2>cv. PICK cv : cv = compaction_version_
    OBVIOUS
  <2>n. PICK new : new = [version |-> cv, offset |-> n_cas,
                          buffer_offset |-> n_cas, born |-> TRUE]
    OBVIOUS
  <2>1. /\ n_cas' = n_cas + 1
        /\ UNCHANGED <<file_count, compaction_version_, id_buffer, c_pc, pc, ep,
                       old_posi>>
    BY <1>7 DEF SwapPosition
  <2>2. /\ Updating /\ e[1] \in Keys /\ e[2] \in Position
        /\ e[2].version \in DOMAIN evict_file_map_ /\ new \in Position
    BY <1>7, <2>e, <2>cv, <2>n, SwapFacts
  <2>3. /\ Committing(v)' = Committing(v) /\ Replacing(v)' = Replacing(v)
        /\ ToSwap(v)' = ToSwap(v) - (IF cv = v THEN 1 ELSE 0)
    <3>1. Updating'
      BY <2>1, <2>2 DEF Updating
    <3>2. Committing(v)' = Committing(v) /\ Replacing(v)' = Replacing(v)
      BY <2>1 DEF Committing, Replacing
    <3>3. /\ ToSwap(v) = (IF cv = v THEN Len(id_buffer) - n_cas ELSE 0)
          /\ ToSwap(v)' = (IF cv = v THEN Len(id_buffer) - (n_cas + 1) ELSE 0)
      BY <2>1, <2>2, <2>cv, <3>1 DEF ToSwap
    <3> QED BY <3>2, <3>3, Numbers
  <2>4. CASE hash_map_[e[1]] = e[2]
    <3>1. /\ hash_map_' = [hash_map_ EXCEPT ![e[1]] = new]
          /\ file_invalid' = file_invalid
      BY <1>7, <2>4, <2>e, <2>cv, <2>n DEF SwapPosition
    <3>2. new.version = cv
      BY <2>n
    <3>3. ~(hash_map_[e[1]] # NULL /\ hash_map_[e[1]].version = v)
      BY <2>2, <2>4, <1>0
    <3>4. Cardinality(Holds(v)') = Cardinality(Holds(v))
                                     + (IF cv = v THEN 1 ELSE 0)
      <4>1. Cardinality(Holds(v)') = Cardinality(Holds(v))
              + (IF new.version = v THEN 1 ELSE 0)
              - (IF hash_map_[e[1]] # NULL /\ hash_map_[e[1]].version = v
                   THEN 1 ELSE 0)
        BY <2>2, <3>1, HoldsMove
      <4> QED BY ONLY <4>1, <1>2, <3>2, <3>3
    <3> QED BY <1>1, <1>2, <2>1, <2>3, <3>1, <3>4 DEF Unsettled
  <2>5. CASE hash_map_[e[1]] # e[2]
    <3>1. /\ hash_map_' = hash_map_
          /\ file_invalid' = [file_invalid EXCEPT ![cv] = file_invalid[cv] + 1]
      BY <1>7, <2>5, <2>e, <2>cv, <2>n DEF SwapPosition
    <3>2. file_invalid \in [Versions -> Nat]
      BY DEF IInv, TypeOK
    <3>3. file_invalid'[v] = file_invalid[v] + (IF cv = v THEN 1 ELSE 0)
      BY <3>1, <3>2
    <3>4. Holds(v)' = Holds(v)
      BY <3>1 DEF Holds
    <3> QED BY <1>1, <1>2, <2>1, <2>3, <3>3, <3>4 DEF Unsettled
  <2> QED BY <2>4, <2>5
<1>8. CASE EraseInvalidFiles
  <2>1. /\ n_cas = Len(id_buffer) /\ ~Updating'
        /\ UNCHANGED <<hash_map_, file_count, file_invalid, pc, ep, old_posi>>
    BY <1>8 DEF EraseInvalidFiles, Updating
  <2>2. /\ Committing(v)' = Committing(v) /\ Replacing(v)' = Replacing(v)
        /\ ToSwap(v)' = 0
    BY <2>1 DEF Committing, Replacing, ToSwap
  <2>3. ToSwap(v) = 0
    BY <2>1, Numbers DEF ToSwap
  <2> QED BY <1>0, <2>1, <2>2, <2>3, CountFrame
<1>9. CASE \/ \E k \in Keys, x \in Values : Commit(k, x)
           \/ WriteBuffer \/ UpdateFlushStatus \/ NewEvictFile
           \/ AppendToWriteBuffer \/ LoadOldPosition \/ QueueFile
  <2>1. /\ UNCHANGED <<hash_map_, file_count, file_invalid>>
        /\ ToSwap(v)' = ToSwap(v)
    BY <1>9 DEF Commit, WriteBuffer, UpdateFlushStatus, NewEvictFile,
         AppendToWriteBuffer, LoadOldPosition, QueueFile, ToSwap, Updating
  <2>2. Committing(v)' = Committing(v) /\ Replacing(v)' = Replacing(v)
    BY <1>9 DEF Commit, WriteBuffer, UpdateFlushStatus, NewEvictFile,
         AppendToWriteBuffer, LoadOldPosition, QueueFile, ReturnFromCommit,
         Committing, Replacing
  <2> QED BY <1>0, <2>1, <2>2, CountFrame
<1>10. CASE \/ DeleteInvalidFiles \/ InitializeEvictMap
            \/ \E k \in scan_left : LookupValidItem(k)
            \/ \E w \in Versions : MoveFile(w)
            \/ \E it \in items_left : ReadItem(it)
            \/ NewCompactionFile
  <2>1. /\ UNCHANGED <<hash_map_, file_count, file_invalid, pc, ep, old_posi>>
        /\ ~Updating /\ ~Updating'
    BY <1>10 DEF DeleteInvalidFiles, InitializeEvictMap, LookupValidItem,
         MoveFile, ReadItem, NewCompactionFile, Updating
  <2>2. /\ Committing(v)' = Committing(v) /\ Replacing(v)' = Replacing(v)
        /\ ToSwap(v)' = ToSwap(v)
    BY <2>1 DEF Committing, Replacing, ToSwap
  <2> QED BY <1>0, <2>1, <2>2, CountFrame
<1>11. CASE UNCHANGED vars
  <2>1. /\ UNCHANGED <<hash_map_, file_count, file_invalid>>
        /\ Committing(v)' = Committing(v) /\ Replacing(v)' = Replacing(v)
        /\ ToSwap(v)' = ToSwap(v)
    BY <1>11 DEF vars, Committing, Replacing, ToSwap, Updating
  <2> QED BY <1>0, <2>1, CountFrame
<1> QED BY <1>3, <1>4, <1>5, <1>6, <1>7, <1>8, <1>9, <1>10, <1>11
        DEF Next, Committer, CompactionThread

\* Whenever both threads rest, the invalid_count_ of every file that compaction
\* has not taken is the number of its records no key points to.
THEOREM CountsAreExact == Spec => []InvalidCountExact
<1>1. Init => CountInv
  <2> SUFFICES ASSUME Init, NEW v \in Versions
               PROVE  file_count[v] - file_invalid[v] =
                        Cardinality(Holds(v)) + Unsettled(v)
    BY DEF CountInv
  <2>1. Holds(v) = {}
    BY DEF Init, Holds
  <2>2. Cardinality(Holds(v)) = 0
    BY <2>1, FS_EmptySet
  <2>3. Unsettled(v) = 0
    BY DEF Init, InitThreads, Unsettled, Committing, Replacing, ToSwap, Updating
  <2> QED BY <2>2, <2>3 DEF Init
<1>2. IInv /\ CountInv /\ [Next]_vars => CountInv'
  BY CountStep
<1>3. IInv /\ CountInv => InvalidCountExact
  <2> SUFFICES ASSUME IInv, CountInv, Quiescent, NEW v \in Live
               PROVE  file_count[v] - file_invalid[v] = Cardinality(Holds(v))
    BY DEF InvalidCountExact, Holds
  <2>1. /\ v \in Versions /\ v \notin deleted /\ v \notin DOMAIN evict_file_map_
    BY Numbers DEF Live, Versions
  <2>2. Unsettled(v) = 0
    BY DEF Quiescent, Unsettled, Committing, Replacing, ToSwap, Updating
  <2> QED BY <2>1, <2>2, CountTypes DEF CountInv
<1> QED BY InductiveInvariant, <1>1, <1>2, <1>3, PTL DEF Spec
=============================================================================
