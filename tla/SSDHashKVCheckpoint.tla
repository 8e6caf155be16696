------------------------- MODULE SSDHashKVCheckpoint -------------------------
(***************************************************************************)
(* Checkpoint and restore of the synchronous SSD store.                    *)
(*  - SetSsdRecordDescriptor (under the mutex of the SSD storage) lists    *)
(*    keys, offsets and files and flushes the write buffer;                *)
(*  - CopyEmbeddingfilesToCkptDir (kv_variable_ops.h) copies the listed    *)
(*    files one by one AFTER the mutex is released, while the eviction     *)
(*    thread commits and compacts;                                         *)
(*  - a new process restores with CopyEmbFilesFromCkpt and Import.         *)
(***************************************************************************)
EXTENDS SSDHashKV

CONSTANTS
  MaxSaves,     \* bound: checkpoints begun since the last fresh start
  MaxCrashes,   \* bound: processes that die after a complete checkpoint
  MaxAppended   \* bound: total_app_count_ when a commit begins stays below

VARIABLES
  up,           \* "running", "down", "loading", "importing"
  desc,         \* SsdRecordDescriptor of the checkpoint being written
  to_copy,      \* files of the descriptor not copied yet
  copied,       \* file -> content in the checkpoint directory
  ckpt,         \* the last complete checkpoint
  to_load,      \* files of the checkpoint not loaded yet
  file_id_map,  \* file id in the checkpoint -> version in the new store
  saves, crashes

saveVars == <<desc, to_copy, copied, ckpt, saves>>
loadVars == <<to_load, file_id_map>>
ckptVars == <<up, saveVars, loadVars, crashes>>
allVars  == <<vars, ckptVars>>

NoFiles == [v \in {} |-> <<>>]

\* What SsdRecordDescriptor lists, and a checkpoint on disk.
DescriptorType ==
  [posi : [Keys -> Position \cup {NULL}], files : SUBSET Versions,
   record_count : [Versions -> Nat], invalid_record_count : [Versions -> Nat]]
FilesType == UNION {[S -> Seq(Values \cup {Garbage})] : S \in SUBSET Versions}
CheckpointType == [desc : DescriptorType, data : FilesType]

ASSUME NoDescriptorAssumption == NULL \notin DescriptorType
ASSUME NoCheckpointAssumption == NULL \notin CheckpointType
ASSUME NoMapAssumption == NULL \notin [Keys -> Values \cup {Garbage, NULL}]

InitCheckpoint ==
  /\ Init
  /\ up = "running"
  /\ desc = NULL
  /\ to_copy = {}
  /\ copied = NoFiles
  /\ ckpt = NULL
  /\ to_load = {}
  /\ file_id_map = [v \in {} |-> 0]
  /\ saves = 0
  /\ crashes = 0

Least(v, S) == v \in S /\ \A w \in S : v <= w

CommitStep ==
  /\ up = "running"
  /\ pc = "idle" => total_app_count_ < MaxAppended
  /\ Next
  /\ UNCHANGED ckptVars

-----------------------------------------------------------------------------
(* Save.                                                                   *)

\* The lists are made before the buffer is written: they describe positions
\* and counters, both of which already account for the buffered records.
Descriptor ==
  [posi |-> hash_map_,
   files |-> {v \in 0..current_version_ : v \notin deleted},
   record_count |-> file_count,
   invalid_record_count |-> file_invalid]

\* Faulty variant: the write buffer is not flushed.
FlushForSaveSkipped ==
  UNCHANGED <<file_data, flushed_, current_version_, current_offset_,
              buffer_cur_>>

FlushForSave ==
  IF buffer_cur_ > 0
    THEN /\ current_version_ < MaxFiles
         /\ file_data' = [file_data EXCEPT ![current_version_] =
                            Write(@, write_buffer_, buffer_cur_)]
         /\ flushed_' = flushed_ \cup
              {hash_map_[key_buffer_[i]] : i \in 0..(buffer_cur_ - 1)}
         /\ current_version_' = current_version_ + 1
         /\ current_offset_' = 0
         /\ buffer_cur_' = 0
    ELSE UNCHANGED <<file_data, flushed_, current_version_, current_offset_,
                     buffer_cur_>>

SetSsdRecordDescriptor ==
  /\ up = "running"
  /\ pc = "idle"
  /\ desc = NULL
  /\ saves < MaxSaves
  /\ saves' = saves + 1
  /\ desc' = Descriptor
  /\ to_copy' = Descriptor.files
  /\ copied' = NoFiles
  /\ FlushForSave
  /\ UNCHANGED <<hash_map_, file_count, file_invalid, deleted, write_buffer_,
                 key_buffer_, total_app_count_, evictVars, pc, loopVars, rec,
                 ep, up, ckpt, loadVars, crashes>>

\* CopyEmbeddingfilesToCkptDir: one file.
CopyFile(v) ==
  /\ up = "running"
  /\ Least(v, to_copy)
  /\ v \notin deleted
  /\ copied' = [w \in DOMAIN copied \cup {v} |->
                  IF w = v THEN file_data[v] ELSE copied[w]]
  /\ to_copy' = to_copy \ {v}
  /\ UNCHANGED <<vars, up, desc, ckpt, saves, loadVars, crashes>>

CheckpointComplete ==
  /\ up = "running"
  /\ desc # NULL
  /\ to_copy = {}
  /\ ckpt' = [desc |-> desc, data |-> copied]
  /\ desc' = NULL
  /\ copied' = NoFiles
  /\ UNCHANGED <<vars, up, to_copy, saves, loadVars, crashes>>

-----------------------------------------------------------------------------
(* Process death and restore.                                              *)

\* The new process constructs its store with a new path and empty state.
\* Without a checkpoint it is in the state the first process began in, so
\* only deaths after a checkpoint are counted.
Die ==
  /\ \/ ckpt = NULL /\ saves' = 0 /\ UNCHANGED crashes
     \/ /\ ckpt # NULL
        /\ crashes < MaxCrashes
        /\ crashes' = crashes + 1
        /\ UNCHANGED saves
  /\ up' = "down"
  /\ desc' = NULL
  /\ to_copy' = {}
  /\ copied' = NoFiles
  /\ hash_map_' = [k \in Keys |-> NULL]
  /\ flushed_' = {}
  /\ file_data' = [v \in Versions |-> <<>>]
  /\ file_count' = [v \in Versions |-> 0]
  /\ file_invalid' = [v \in Versions |-> 0]
  /\ deleted' = {}
  /\ current_version_' = 0
  /\ current_offset_' = 0
  /\ buffer_cur_' = 0
  /\ write_buffer_' = [i \in Slots |-> Garbage]
  /\ key_buffer_' = [i \in Slots |-> Garbage]
  /\ total_app_count_' = 0
  /\ evict_file_set_' = {}
  /\ evict_file_map_' = [v \in {} |-> {}]
  /\ pc' = "idle"
  /\ batch' = <<>>
  /\ files_left' = {}
  /\ items_left' = {}
  /\ rec' = NULL
  /\ ep' = NULL
  /\ UNCHANGED ckpt

Crash ==
  /\ up # "down"
  /\ Die
  /\ to_load' = {}
  /\ file_id_map' = [v \in {} |-> 0]

\* LOG(FATAL) "Copy file ... failed!": the file to copy is gone.
CopyFileFails(v) ==
  /\ up = "running"
  /\ Least(v, to_copy)
  /\ v \in deleted
  /\ Die
  /\ UNCHANGED loadVars

StartFresh ==
  /\ up = "down"
  /\ ckpt = NULL
  /\ up' = "running"
  /\ UNCHANGED <<vars, saveVars, loadVars, crashes>>

StartRestore ==
  /\ up = "down"
  /\ ckpt # NULL
  /\ up' = "loading"
  /\ to_load' = ckpt.desc.files
  /\ file_id_map' = [v \in {} |-> 0]
  /\ UNCHANGED <<vars, saveVars, crashes>>

\* CopyEmbFilesFromCkpt: one file (LoadExistFile), numbered from 0 on.
LoadExistFile(v) ==
  /\ up = "loading"
  /\ Least(v, to_load)
  /\ current_version_ < MaxFiles
  /\ file_data' = [file_data EXCEPT ![current_version_] = ckpt.data[v]]
  /\ file_count' = [file_count EXCEPT ![current_version_] =
                      ckpt.desc.record_count[v]]
  /\ file_invalid' = [file_invalid EXCEPT ![current_version_] =
                        ckpt.desc.invalid_record_count[v]]
  /\ total_app_count_' = total_app_count_ + ckpt.desc.record_count[v]
  /\ file_id_map' = [w \in DOMAIN file_id_map \cup {v} |->
                       IF w = v THEN current_version_ ELSE file_id_map[w]]
  /\ current_version_' = current_version_ + 1
  /\ to_load' = to_load \ {v}
  /\ UNCHANGED <<hash_map_, flushed_, deleted, bufferVars, evictVars, pc,
                 loopVars, rec, ep, up, saveVars, crashes>>

\* The end of CopyEmbFilesFromCkpt creates the file current_version_.
EndOfLoad ==
  /\ up = "loading"
  /\ to_load = {}
  /\ up' = "importing"
  /\ UNCHANGED <<vars, saveVars, loadVars, crashes>>

ImportedPosition(p) ==
  [version |-> file_id_map[p.version], offset |-> p.offset,
   buffer_offset |-> 0]

\* Import: every listed key gets a flushed position in the renumbered file.
Import ==
  /\ up = "importing"
  /\ hash_map_' = [k \in Keys |->
       IF ckpt.desc.posi[k] = NULL THEN NULL
       ELSE ImportedPosition(ckpt.desc.posi[k])]
  /\ flushed_' = {hash_map_'[k] : k \in Keys} \ {NULL}
  /\ up' = "running"
  /\ UNCHANGED <<fileVars, current_version_, bufferVars, total_app_count_,
                 evictVars, pc, loopVars, rec, ep, saveVars, loadVars,
                 crashes>>

NextCheckpoint ==
  \/ CommitStep
  \/ SetSsdRecordDescriptor
  \/ \E v \in Versions : CopyFile(v)
  \/ CheckpointComplete
  \/ Crash
  \/ \E v \in Versions : CopyFileFails(v)
  \/ StartFresh
  \/ StartRestore
  \/ \E v \in Versions : LoadExistFile(v)
  \/ EndOfLoad
  \/ Import

SpecCheckpoint == InitCheckpoint /\ [][NextCheckpoint]_allVars

-----------------------------------------------------------------------------
\* The value a descriptor's position has in the files as they are now, those
\* already copied and those still in the store's directory.
DescribedValue(d, k) ==
  LET p == d.posi[k]
      data == IF p.version \in DOMAIN copied THEN copied[p.version]
                                             ELSE file_data[p.version]
  IN IF p = NULL THEN NULL ELSE Read(data, p.offset)

CheckpointedValue(c, k) ==
  LET p == c.desc.posi[k]
  IN IF p = NULL THEN NULL ELSE Read(c.data[p.version], p.offset)

CS == INSTANCE CheckpointStore WITH
        store <- [k \in Keys |-> Lookup(k)],
        pending <- Pending,
        snapshot <- IF desc = NULL THEN NULL
                    ELSE [k \in Keys |-> DescribedValue(desc, k)],
        saved <- IF ckpt = NULL THEN NULL
                 ELSE [k \in Keys |-> CheckpointedValue(ckpt, k)],
        NoValue <- NULL

\* Save and restore implement the abstract checkpoint: the commits, flushes and
\* compactions that run between the descriptor and the last file copy do not
\* change what the checkpoint says, and the restored store is the saved map,
\* also after its own later flushes and compactions.
ImplementsCheckpointStore == CS!Spec
=============================================================================
