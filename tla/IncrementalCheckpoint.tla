------------------------ MODULE IncrementalCheckpoint ------------------------
(***************************************************************************)
(* Incremental checkpoints of a sparse variable                            *)
(* (kernels/incr_save_restore_ops, training/incremental_saver.py,          *)
(* CheckpointSaverHook).  Workers train on the rows of the variable and    *)
(* record which rows they touched; the chief saves all rows in a full      *)
(* checkpoint and, between two of those, the rows recorded since.  When    *)
(* the parameter server dies training goes on from the latest full         *)
(* checkpoint and the latest incremental one, if that is newer.            *)
(*                                                                         *)
(* A row is the number of updates applied to it, 0: never touched.         *)
(***************************************************************************)
EXTENDS Naturals, FiniteSets

CONSTANTS Keys, NoKey, Workers,
          IsEV,        \* an embedding variable, or a normal sparse variable
          MaxSteps,    \* bound: training steps begun
          MaxSaves,    \* bound: saves begun, of either kind
          MaxCrashes   \* bound: deaths of the parameter server

ASSUME IsEVAssumption == IsEV \in BOOLEAN
ASSUME SetsAssumption == NoKey \notin Keys /\ IsFiniteSet(Workers)

VARIABLES
  rows,         \* the variable
  global_step,
  recorder,     \* IndicesIncrRecorder: "none" not created, "off" global_version_ = -1, "on"
  incr_indices, \* the rows recorded
  work,         \* worker -> [key, applied, recorded], the step it is in
  sv,           \* the chief: [pc, step, keys, todo, rows, activated] and history [floor]
  full,         \* latest full checkpoint: [step, count, rows] and history [torn, recording]
  incr,         \* latest incremental one: [step, count, keys, rows] and history [floor]
  begun, saves, crashes,
  \* history
  done,         \* key -> updates whose step is counted in global_step
  touched       \* rows with a step in flight during the full save under way

boundVars == <<begun, saves, crashes>>
vars == <<rows, global_step, recorder, incr_indices, work, sv, full, incr, boundVars, done, touched>>

NoRows == [k \in Keys |-> 0]
Idle == [key |-> NoKey, applied |-> FALSE, recorded |-> FALSE]
Resting == [pc |-> "idle", step |-> 0, keys |-> {}, todo |-> {}, rows |-> NoRows,
            activated |-> FALSE, floor |-> NoRows]

\* A save of the rows in keys begins; its name is the global step, read first.
Saving(kind, keys) ==
  [pc |-> kind, step |-> global_step, keys |-> keys, todo |-> keys, rows |-> NoRows,
   activated |-> FALSE, floor |-> done]

\* A new training: after_create_session comes next and saves a full checkpoint.
Init ==
  /\ rows = NoRows /\ done = NoRows
  /\ global_step = 0
  /\ recorder = "none" /\ incr_indices = {}
  /\ work = [w \in Workers |-> Idle]
  /\ sv = [Resting EXCEPT !.pc = "created"]
  /\ full = [step |-> 0, count |-> 0, rows |-> NoRows, torn |-> {}, recording |-> FALSE]
  /\ incr = [step |-> 0, count |-> 0, keys |-> {}, rows |-> NoRows, floor |-> NoRows]
  /\ begun = 0 /\ saves = 0 /\ crashes = 0
  /\ touched = {}

-----------------------------------------------------------------------------
(* apply_gradients: the update op and the recording op of a variable are   *)
(* not ordered; the global step follows both.                              *)

Begin(w, k) ==
  /\ work[w] = Idle
  /\ begun < MaxSteps
  /\ begun' = begun + 1
  /\ work' = [work EXCEPT ![w].key = k]
  /\ touched' = touched \cup {k}
  /\ UNCHANGED <<rows, global_step, recorder, incr_indices, sv, full, incr, saves, crashes, done>>

Apply(w) ==
  /\ work[w].key # NoKey /\ ~work[w].applied
  /\ rows' = [rows EXCEPT ![work[w].key] = @ + 1]
  /\ work' = [work EXCEPT ![w].applied = TRUE]
  /\ UNCHANGED <<global_step, recorder, incr_indices, sv, full, incr, boundVars, done, touched>>

\* RecordSparseIndices creates the recorder; UpdateIndices records nothing until
\* a full save activated it.
UpdateIndices(w) ==
  /\ work[w].key # NoKey /\ ~work[w].recorded
  /\ recorder' = IF recorder = "none" THEN "off" ELSE recorder
  /\ incr_indices' = IF recorder = "on" THEN incr_indices \cup {work[w].key} ELSE incr_indices
  /\ work' = [work EXCEPT ![w].recorded = TRUE]
  /\ UNCHANGED <<rows, global_step, sv, full, incr, boundVars, done, touched>>

CountStep(w) ==
  /\ work[w].applied /\ work[w].recorded
  /\ global_step' = global_step + 1
  /\ done' = [done EXCEPT ![work[w].key] = @ + 1]
  /\ work' = [work EXCEPT ![w] = Idle]
  /\ UNCHANGED <<rows, recorder, incr_indices, sv, full, incr, boundVars, touched>>

-----------------------------------------------------------------------------
(* CheckpointSaverHook, in the chief's own thread.                         *)

\* _save, after the session was created and whenever the timer says so.
FullSaveBegin ==
  /\ sv.pc \in {"idle", "created"}
  /\ sv.pc = "created" \/ saves < MaxSaves
  /\ saves' = IF sv.pc = "idle" THEN saves + 1 ELSE saves
  /\ sv' = Saving("full", Keys)
  /\ touched' = {work[w].key : w \in Workers} \ {NoKey}
  /\ UNCHANGED <<rows, global_step, recorder, incr_indices, work, full, incr, begun, crashes, done>>

\* Both saves read the rows one by one while training goes on.
SaveRow(k) ==
  /\ k \in sv.todo
  /\ sv' = [sv EXCEPT !.todo = @ \ {k}, !.rows[k] = rows[k]]
  /\ UNCHANGED <<rows, global_step, recorder, incr_indices, work, full, incr, boundVars, done, touched>>

\* ActivateSparseRecorder, not ordered with the save op.  UpdateGlobalVersion starts
\* the recording and forgets what was recorded; a recorder that no step created yet
\* is not found.
ActivateSparseRecorder ==
  /\ sv.pc = "full" /\ ~sv.activated
  /\ sv' = [sv EXCEPT !.activated = TRUE]
  /\ IF recorder = "none" THEN UNCHANGED <<recorder, incr_indices>>
                          ELSE recorder' = "on" /\ incr_indices' = {}
  /\ UNCHANGED <<rows, global_step, work, full, incr, boundVars, done, touched>>

\* The checkpoint state file names the new checkpoint.  The global step is saved
\* with it, as it was at some time during the save.
FullSaveEnd ==
  /\ sv.pc = "full" /\ sv.activated /\ sv.todo = {}
  /\ \E count \in sv.step..global_step :
       full' = [step |-> sv.step, count |-> count, rows |-> sv.rows,
                torn |-> touched, recording |-> recorder = "on"]
  /\ sv' = Resting
  /\ UNCHANGED <<rows, global_step, recorder, incr_indices, work, incr, boundVars, done, touched>>

\* Faulty variant: the rows are taken out of the recorder, as SwapIndices does.
IncrSaveBeginSwaps ==
  /\ sv.pc = "idle"
  /\ saves < MaxSaves
  /\ saves' = saves + 1
  /\ sv' = Saving("incr", incr_indices)
  /\ incr_indices' = {}
  /\ UNCHANGED <<rows, global_step, recorder, work, full, incr, begun, crashes, done, touched>>

\* incremental_save: the rows recorded since the full checkpoint (GetKeys), which
\* stay recorded.
IncrSaveBegin ==
  /\ sv.pc = "idle"
  /\ saves < MaxSaves
  /\ saves' = saves + 1
  /\ sv' = Saving("incr", incr_indices)
  /\ UNCHANGED <<rows, global_step, recorder, incr_indices, work, full, incr, begun, crashes, done, touched>>

IncrSaveEnd ==
  /\ sv.pc = "incr" /\ sv.todo = {}
  /\ \E count \in sv.step..global_step :
       incr' = [step |-> sv.step, count |-> count, keys |-> sv.keys, rows |-> sv.rows,
                floor |-> sv.floor]
  /\ sv' = Resting
  /\ UNCHANGED <<rows, global_step, recorder, incr_indices, work, full, boundVars, done, touched>>

\* recover_incr_checkpoints: the incremental checkpoint counts when it is newer.
\* Faulty variant: it always does.
AlwaysRestored == TRUE

NeedIncrementalRestore == full.step < incr.step

\* The full checkpoint is restored first.  Then the saved rows of a normal variable
\* are overwritten, but the import into an embedding variable creates the keys that
\* are missing and leaves the values of the others as they are.
Restored(k) ==
  IF NeedIncrementalRestore /\ k \in incr.keys /\ (IsEV => full.rows[k] = 0)
    THEN incr.rows[k]
    ELSE full.rows[k]

\* The parameter server dies with the rows and the recorder, and the sessions are
\* created again.
Failover ==
  /\ sv.pc # "created"
  /\ crashes < MaxCrashes
  /\ crashes' = crashes + 1
  /\ rows' = [k \in Keys |-> Restored(k)] /\ done' = rows'
  /\ global_step' = IF NeedIncrementalRestore THEN incr.count ELSE full.count
  /\ recorder' = "none" /\ incr_indices' = {}
  /\ work' = [w \in Workers |-> Idle]
  /\ sv' = [Resting EXCEPT !.pc = "created"]
  /\ touched' = {}
  /\ UNCHANGED <<full, incr, begun, saves>>

-----------------------------------------------------------------------------
Next ==
  \/ \E w \in Workers : Apply(w) \/ UpdateIndices(w) \/ CountStep(w) \/ \E k \in Keys : Begin(w, k)
  \/ FullSaveBegin \/ ActivateSparseRecorder \/ FullSaveEnd
  \/ IncrSaveBegin \/ IncrSaveEnd
  \/ \E k \in Keys : SaveRow(k)
  \/ Failover

Spec == Init /\ [][Next]_vars

-----------------------------------------------------------------------------
\* Every step that was done when the incremental checkpoint was begun is in what a
\* failover restores: rows saved in the full one, or recorded since and saved with
\* this one.  Excepted are the rows of a step in flight during the full save
\* (their record may be cleared after their old value was saved), and all of them
\* when the full save found no recorder.
IncrementCoversSteps ==
  NeedIncrementalRestore /\ full.recording =>
    \A k \in Keys \ full.torn : Restored(k) >= incr.floor[k]

\* A failover never goes back behind the full checkpoint, whichever of the saves
\* and of the deaths came last.
NeverBehindFull == \A k \in Keys : Restored(k) >= full.rows[k]
=============================================================================
