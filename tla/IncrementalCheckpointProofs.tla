--------------------- MODULE IncrementalCheckpointProofs ---------------------
(***************************************************************************)
(* Proofs about incremental checkpoints: a failover never goes back behind *)
(* the full checkpoint and, for a normal variable, finds every step that   *)
(* the increment was to hold.                                              *)
(***************************************************************************)
EXTENDS IncrementalCheckpoint, FiniteSetTheorems, TLAPS

RowsType == [Keys -> Nat]

TypeOK ==
  /\ rows \in RowsType /\ done \in RowsType
  /\ global_step \in Nat
  /\ recorder \in {"none", "off", "on"}
  /\ incr_indices \in SUBSET Keys
  /\ work \in [Workers -> [key : Keys \cup {NoKey}, applied : BOOLEAN, recorded : BOOLEAN]]
  /\ sv \in [pc : {"created", "idle", "full", "incr"}, step : Nat, keys : SUBSET Keys,
             todo : SUBSET Keys, rows : RowsType, activated : BOOLEAN, floor : RowsType]
  /\ full \in [step : Nat, count : Nat, rows : RowsType, torn : SUBSET Keys, recording : BOOLEAN]
  /\ incr \in [step : Nat, count : Nat, keys : SUBSET Keys, rows : RowsType, floor : RowsType]
  /\ touched \in SUBSET Keys

\* The workers that applied their update of k and have not counted the step.
AppliedOn(k) == {w \in Workers : work[w].key = k /\ work[w].applied}

\* A step counted is an update applied.
CountInv ==
  /\ \A w \in Workers : work[w].applied \/ work[w].recorded => work[w].key \in Keys
  /\ \A k \in Keys : done[k] + Cardinality(AppliedOn(k)) <= rows[k]

\* The global step is never behind the name of a checkpoint, so a full save that
\* ends later makes the increment of before obsolete.
StepInv ==
  /\ full.step <= full.count /\ incr.step <= incr.count
  /\ full.step <= global_step /\ incr.step <= global_step
  /\ sv.pc \in {"full", "incr"} =>
       full.step <= sv.step /\ incr.step <= sv.step /\ sv.step <= global_step

\* Rows only grow, so what is read later is at least what was saved before.
RowsInv ==
  /\ \A k \in Keys : full.rows[k] <= rows[k]
  /\ sv.pc = "full" => sv.keys = Keys /\ \A k \in Keys : sv.rows[k] <= rows[k]
  /\ sv.pc = "incr" => \A k \in sv.keys \ sv.todo :
                         full.rows[k] <= sv.rows[k] /\ sv.floor[k] <= sv.rows[k]
  /\ sv.pc = "incr" => \A k \in Keys : sv.floor[k] <= done[k]
  /\ NeedIncrementalRestore => \A k \in incr.keys :
       full.rows[k] <= incr.rows[k] /\ incr.floor[k] <= incr.rows[k]

\* A row no step was on since the full save began is saved as it is.
FullSaveInv ==
  sv.pc = "full" => \A k \in Keys \ touched :
    /\ \A w \in Workers : work[w].key # k
    /\ k \notin sv.todo => done[k] <= sv.rows[k]

\* A row that is not recorded since a full save is still as that one saved it, and
\* no step in flight is past its recording.
RecordInv ==
  /\ sv.pc \in {"idle", "incr"} /\ full.recording =>
       /\ recorder = "on"
       /\ \A k \in Keys \ (full.torn \cup incr_indices) :
            /\ done[k] <= full.rows[k]
            /\ \A w \in Workers : work[w].key = k => ~work[w].recorded
  /\ sv.pc = "incr" /\ full.recording =>
       \A k \in Keys \ (full.torn \cup sv.keys) : sv.floor[k] <= full.rows[k]
  /\ NeedIncrementalRestore /\ full.recording =>
       \A k \in Keys \ (full.torn \cup incr.keys) : incr.floor[k] <= full.rows[k]

IInv == TypeOK /\ CountInv /\ StepInv /\ RowsInv /\ FullSaveInv /\ RecordInv

-----------------------------------------------------------------------------
\* The workers on one key are finitely many.
LEMMA AppliedFinite ==
  ASSUME NEW k PROVE IsFiniteSet(AppliedOn(k)) /\ Cardinality(AppliedOn(k)) \in Nat
<1>1. AppliedOn(k) \in SUBSET Workers
  BY DEF AppliedOn
<1> QED BY <1>1, SetsAssumption, FS_Subset, FS_CardinalityType

\* A new training: nothing is saved or recorded.
LEMMA InitIInv == Init => IInv
<1> SUFFICES ASSUME Init PROVE IInv
  OBVIOUS
<1> USE SetsAssumption DEF Init, NoRows, Idle, Resting
<1>1. TypeOK
  BY DEF TypeOK, RowsType
<1>2. CountInv
  <2>1. \A k \in Keys : AppliedOn(k) = {}
    BY DEF AppliedOn
  <2>2. \A k \in Keys : Cardinality(AppliedOn(k)) = 0
    BY <2>1, FS_EmptySet
  <2> QED BY <2>2 DEF CountInv
<1>3. StepInv /\ RowsInv /\ FullSaveInv /\ RecordInv
  BY DEF StepInv, RowsInv, FullSaveInv, RecordInv, NeedIncrementalRestore
<1> QED BY <1>1, <1>2, <1>3 DEF IInv

-----------------------------------------------------------------------------
(* One lemma per action.                                                   *)

\* A step begins; its row counts as touched from now on.
LEMMA BeginStep ==
  ASSUME IInv, NEW w \in Workers, NEW k \in Keys, Begin(w, k) PROVE IInv'
<1> USE SetsAssumption DEF IInv, Begin, Idle
<1>1. TypeOK'
  BY DEF TypeOK
<1>2. CountInv'
  <2>1. \A j \in Keys : AppliedOn(j)' = AppliedOn(j)
    BY DEF AppliedOn, TypeOK
  <2> QED BY <2>1 DEF CountInv, TypeOK
<1>3. StepInv'
  BY DEF StepInv
<1>4. RowsInv'
  BY DEF RowsInv, NeedIncrementalRestore
<1>5. FullSaveInv'
  BY DEF FullSaveInv, TypeOK
<1>6. RecordInv'
  BY DEF RecordInv, NeedIncrementalRestore, TypeOK
<1> QED BY <1>1, <1>2, <1>3, <1>4, <1>5, <1>6

\* The update of a row: the row grows, and its step is not counted yet.
LEMMA ApplyStep ==
  ASSUME IInv, NEW w \in Workers, Apply(w) PROVE IInv'
<1> USE SetsAssumption DEF IInv, Apply
<1>0. PICK k \in Keys : k = work[w].key
  BY DEF TypeOK
<1>1. TypeOK'
  <2>1. rows' \in RowsType
    BY <1>0 DEF TypeOK, RowsType
  <2> QED BY <2>1, ZenonT(60) DEF TypeOK
<1>2. CountInv'
  <2>1. AppliedOn(k)' = AppliedOn(k) \cup {w} /\ w \notin AppliedOn(k)
    BY <1>0 DEF AppliedOn, TypeOK
  <2>2. Cardinality(AppliedOn(k)') = Cardinality(AppliedOn(k)) + 1
    BY <2>1, AppliedFinite, FS_AddElement
  <2>3. \A j \in Keys \ {k} : AppliedOn(j)' = AppliedOn(j)
    BY <1>0 DEF AppliedOn, TypeOK
  <2>4. \A j \in Keys \ {k} : (done[j] + Cardinality(AppliedOn(j)) <= rows[j])'
    BY <1>0, <2>3 DEF CountInv, TypeOK, RowsType
  <2>5. (done[k] + Cardinality(AppliedOn(k)) <= rows[k])'
    <3>1. done'[k] = done[k] /\ rows'[k] = rows[k] + 1 /\ done[k] \in Nat /\ rows[k] \in Nat
      BY <1>0 DEF TypeOK, RowsType
    <3>2. done[k] + Cardinality(AppliedOn(k)) <= rows[k]
      BY <1>0 DEF CountInv
    <3> QED BY <2>2, <3>1, <3>2, AppliedFinite
  <2> QED BY <1>0, <2>4, <2>5 DEF CountInv, TypeOK
<1>3. StepInv'
  BY DEF StepInv
<1>4. RowsInv'
  BY DEF RowsInv, NeedIncrementalRestore, TypeOK, RowsType
<1>5. FullSaveInv'
  BY DEF FullSaveInv, TypeOK
<1>6. RecordInv'
  BY DEF RecordInv, NeedIncrementalRestore, TypeOK
<1> QED BY <1>1, <1>2, <1>3, <1>4, <1>5, <1>6

\* RecordSparseIndices.
LEMMA UpdateIndicesStep ==
  ASSUME IInv, NEW w \in Workers, UpdateIndices(w) PROVE IInv'
<1> USE SetsAssumption DEF IInv, UpdateIndices
<1>1. TypeOK'
  BY ZenonT(60) DEF TypeOK
<1>2. CountInv'
  <2>1. \A j \in Keys : AppliedOn(j)' = AppliedOn(j)
    BY DEF AppliedOn, TypeOK
  <2> QED BY <2>1 DEF CountInv, TypeOK
<1>3. StepInv'
  BY DEF StepInv
<1>4. RowsInv'
  BY DEF RowsInv, NeedIncrementalRestore
<1>5. FullSaveInv'
  BY DEF FullSaveInv, TypeOK
<1>6. RecordInv'
  BY DEF RecordInv, NeedIncrementalRestore, TypeOK
<1> QED BY <1>1, <1>2, <1>3, <1>4, <1>5, <1>6

\* The step is counted; its row is recorded, or was touched by the full save.
LEMMA CountStepStep ==
  ASSUME IInv, NEW w \in Workers, CountStep(w) PROVE IInv'
<1> USE SetsAssumption DEF IInv, CountStep, Idle
<1>0. PICK k \in Keys : k = work[w].key
  BY DEF CountInv
<1>1. TypeOK'
  <2>1. done' \in RowsType
    BY <1>0 DEF TypeOK, RowsType
  <2>2. global_step' \in Nat
    BY DEF TypeOK
  <2> QED BY <2>1, <2>2 DEF TypeOK
<1>2. CountInv'
  <2>1. AppliedOn(k)' = AppliedOn(k) \ {w} /\ w \in AppliedOn(k)
    BY <1>0 DEF AppliedOn, TypeOK
  <2>2. Cardinality(AppliedOn(k)') = Cardinality(AppliedOn(k)) - 1
    BY <2>1, AppliedFinite, FS_RemoveElement
  <2>3. \A j \in Keys \ {k} : AppliedOn(j)' = AppliedOn(j)
    BY <1>0 DEF AppliedOn, TypeOK
  <2>4. \A j \in Keys \ {k} : (done[j] + Cardinality(AppliedOn(j)) <= rows[j])'
    BY <1>0, <2>3 DEF CountInv, TypeOK, RowsType
  <2>5. (done[k] + Cardinality(AppliedOn(k)) <= rows[k])'
    <3>1. done'[k] = done[k] + 1 /\ rows'[k] = rows[k] /\ done[k] \in Nat /\ rows[k] \in Nat
      BY <1>0 DEF TypeOK, RowsType
    <3>2. done[k] + Cardinality(AppliedOn(k)) <= rows[k]
      BY <1>0 DEF CountInv
    <3> QED BY <2>2, <3>1, <3>2, AppliedFinite
  <2> QED BY <1>0, <2>4, <2>5 DEF CountInv, TypeOK
<1>3. StepInv'
  BY DEF StepInv, TypeOK
<1>4. RowsInv'
  BY DEF RowsInv, NeedIncrementalRestore, TypeOK, RowsType
<1>5. FullSaveInv'
  BY <1>0 DEF FullSaveInv, TypeOK
<1>6. RecordInv'
  BY <1>0 DEF RecordInv, NeedIncrementalRestore, TypeOK
<1> QED BY <1>1, <1>2, <1>3, <1>4, <1>5, <1>6

\* A full save begins: only the rows of steps in flight are touched.
LEMMA FullSaveBeginStep ==
  ASSUME IInv, FullSaveBegin PROVE IInv'
<1> USE SetsAssumption DEF IInv, FullSaveBegin, Saving, NoRows
<1>1. TypeOK'
  BY DEF TypeOK, RowsType
<1>2. CountInv'
  <2>1. \A j \in Keys : AppliedOn(j)' = AppliedOn(j)
    BY DEF AppliedOn
  <2> QED BY <2>1 DEF CountInv
<1>3. StepInv'
  BY DEF StepInv, TypeOK
<1>4. RowsInv'
  BY DEF RowsInv, NeedIncrementalRestore, TypeOK, RowsType
<1>5. FullSaveInv'
  BY DEF FullSaveInv, TypeOK
<1>6. RecordInv'
  BY DEF RecordInv, NeedIncrementalRestore, TypeOK
<1> QED BY <1>1, <1>2, <1>3, <1>4, <1>5, <1>6

\* A row is read: it is at least what it was when the save began.
LEMMA SaveRowStep ==
  ASSUME IInv, NEW k \in Keys, SaveRow(k) PROVE IInv'
<1> USE SetsAssumption DEF IInv, SaveRow
<1>0. done[k] <= rows[k]
  <2>1. done[k] + Cardinality(AppliedOn(k)) <= rows[k]
    BY DEF CountInv
  <2> QED BY <2>1, AppliedFinite DEF TypeOK, RowsType
<1>1. TypeOK'
  BY DEF TypeOK, RowsType
<1>2. CountInv'
  <2>1. \A j \in Keys : AppliedOn(j)' = AppliedOn(j)
    BY DEF AppliedOn
  <2> QED BY <2>1 DEF CountInv
<1>3. StepInv'
  BY DEF StepInv, TypeOK
<1>4. RowsInv'
  BY <1>0 DEF RowsInv, NeedIncrementalRestore, TypeOK, RowsType
<1>5. FullSaveInv'
  BY <1>0 DEF FullSaveInv, TypeOK, RowsType
<1>6. RecordInv'
  BY DEF RecordInv, NeedIncrementalRestore, TypeOK
<1> QED BY <1>1, <1>2, <1>3, <1>4, <1>5, <1>6

\* The recorder is cleared, during a full save only.
LEMMA ActivateSparseRecorderStep ==
  ASSUME IInv, ActivateSparseRecorder PROVE IInv'
<1> USE SetsAssumption DEF IInv, ActivateSparseRecorder
<1>1. TypeOK'
  BY DEF TypeOK
<1>2. CountInv'
  <2>1. \A j \in Keys : AppliedOn(j)' = AppliedOn(j)
    BY DEF AppliedOn
  <2> QED BY <2>1 DEF CountInv
<1>3. StepInv'
  BY DEF StepInv, TypeOK
<1>4. RowsInv'
  BY DEF RowsInv, NeedIncrementalRestore, TypeOK
<1>5. FullSaveInv'
  BY DEF FullSaveInv, TypeOK
<1>6. RecordInv'
  BY DEF RecordInv, NeedIncrementalRestore, TypeOK
<1> QED BY <1>1, <1>2, <1>3, <1>4, <1>5, <1>6

\* The full checkpoint takes the place of the one before, and is newer than any
\* increment.
LEMMA FullSaveEndStep ==
  ASSUME IInv, FullSaveEnd PROVE IInv'
<1> USE SetsAssumption DEF IInv, FullSaveEnd, Resting, NoRows
<1>0. PICK count \in sv.step..global_step :
        full' = [step |-> sv.step, count |-> count, rows |-> sv.rows,
                 torn |-> touched, recording |-> recorder = "on"]
  OBVIOUS
<1>a. sv.step \in Nat /\ count \in Nat /\ sv.step <= count
  BY <1>0 DEF TypeOK
<1>1. TypeOK'
  BY <1>0, <1>a DEF TypeOK, RowsType
<1>2. CountInv'
  <2>1. \A j \in Keys : AppliedOn(j)' = AppliedOn(j)
    BY DEF AppliedOn
  <2> QED BY <2>1 DEF CountInv
<1>3. StepInv'
  BY <1>0, <1>a DEF StepInv, TypeOK
<1>b. ~NeedIncrementalRestore'
  BY <1>0, <1>3 DEF NeedIncrementalRestore, StepInv, TypeOK
<1>4. RowsInv'
  BY <1>0, <1>b DEF RowsInv, TypeOK, RowsType
<1>5. FullSaveInv'
  BY DEF FullSaveInv
<1>6. RecordInv'
  BY <1>0, <1>b, ZenonT(60) DEF RecordInv, FullSaveInv, TypeOK
<1> QED BY <1>1, <1>2, <1>3, <1>4, <1>5, <1>6

\* An incremental save begins with the rows recorded; the others are still as
\* the full checkpoint has them.
LEMMA IncrSaveBeginStep ==
  ASSUME IInv, IncrSaveBegin PROVE IInv'
<1> USE SetsAssumption DEF IInv, IncrSaveBegin, Saving, NoRows
<1>1. TypeOK'
  BY DEF TypeOK, RowsType
<1>2. CountInv'
  <2>1. \A j \in Keys : AppliedOn(j)' = AppliedOn(j)
    BY DEF AppliedOn
  <2> QED BY <2>1 DEF CountInv
<1>3. StepInv'
  BY DEF StepInv, TypeOK
<1>4. RowsInv'
  BY DEF RowsInv, NeedIncrementalRestore, TypeOK, RowsType
<1>5. FullSaveInv'
  BY DEF FullSaveInv
<1>6. RecordInv'
  BY DEF RecordInv, NeedIncrementalRestore, TypeOK
<1> QED BY <1>1, <1>2, <1>3, <1>4, <1>5, <1>6

\* The increment is complete.
LEMMA IncrSaveEndStep ==
  ASSUME IInv, IncrSaveEnd PROVE IInv'
<1> USE SetsAssumption DEF IInv, IncrSaveEnd, Resting, NoRows
<1>0. PICK count \in sv.step..global_step :
        incr' = [step |-> sv.step, count |-> count, keys |-> sv.keys, rows |-> sv.rows,
                 floor |-> sv.floor]
  OBVIOUS
<1>a. sv.step \in Nat /\ count \in Nat /\ sv.step <= count
  BY <1>0 DEF TypeOK
<1>1. TypeOK'
  BY <1>0, <1>a DEF TypeOK, RowsType
<1>2. CountInv'
  <2>1. \A j \in Keys : AppliedOn(j)' = AppliedOn(j)
    BY DEF AppliedOn
  <2> QED BY <2>1 DEF CountInv
<1>3. StepInv'
  BY <1>0, <1>a DEF StepInv, TypeOK
<1>4. RowsInv'
  BY <1>0 DEF RowsInv, TypeOK, RowsType
<1>5. FullSaveInv'
  BY DEF FullSaveInv
<1>6. RecordInv'
  BY <1>0 DEF RecordInv, TypeOK
<1> QED BY <1>1, <1>2, <1>3, <1>4, <1>5, <1>6

\* What a failover restores is never behind the full checkpoint.
LEMMA RestoredBounds ==
  ASSUME IInv
  PROVE  \A k \in Keys : Restored(k) \in Nat /\ Restored(k) >= full.rows[k]
  BY DEF IInv, Restored, RowsInv, TypeOK, RowsType

\* The parameter server dies and comes back with the rows of the checkpoints.
LEMMA FailoverStep ==
  ASSUME IInv, Failover PROVE IInv'
<1> USE SetsAssumption DEF IInv, Failover, Resting, NoRows, Idle
<1>0. \A k \in Keys : rows'[k] \in Nat /\ rows'[k] >= full.rows[k]
  BY RestoredBounds
<1>1. TypeOK'
  BY <1>0 DEF TypeOK, RowsType
<1>2. CountInv'
  <2>1. \A j \in Keys : AppliedOn(j)' = {}
    BY DEF AppliedOn
  <2>2. \A j \in Keys : Cardinality(AppliedOn(j)') = 0
    BY <2>1, FS_EmptySet
  <2> QED BY <1>0, <2>2 DEF CountInv
<1>3. StepInv'
  BY DEF StepInv, NeedIncrementalRestore, TypeOK
<1>4. RowsInv'
  BY <1>0 DEF RowsInv, NeedIncrementalRestore, TypeOK, RowsType
<1>5. FullSaveInv'
  BY DEF FullSaveInv
<1>6. RecordInv'
  BY DEF RecordInv, NeedIncrementalRestore
<1> QED BY <1>1, <1>2, <1>3, <1>4, <1>5, <1>6

LEMMA StutterStep ==
  ASSUME IInv, UNCHANGED vars PROVE IInv'
<1> USE DEF IInv, vars
<1>1. \A j \in Keys : AppliedOn(j)' = AppliedOn(j)
  BY DEF AppliedOn
<1> QED BY <1>1 DEF TypeOK, CountInv, StepInv, RowsInv, FullSaveInv, RecordInv,
                    NeedIncrementalRestore

\* Rows recorded, rows saved and steps counted stay related as the named parts of
\* IInv say, over every interleaving of steps, saves and failovers.
THEOREM InductiveInvariant == Spec => []IInv
<1>1. IInv /\ [Next]_vars => IInv'
  <2> SUFFICES ASSUME IInv, [Next]_vars PROVE IInv'
    OBVIOUS
  <2>1. ASSUME NEW w \in Workers, Apply(w) \/ UpdateIndices(w) \/ CountStep(w) PROVE IInv'
    BY <2>1, ApplyStep, UpdateIndicesStep, CountStepStep
  <2>2. ASSUME NEW w \in Workers, NEW k \in Keys, Begin(w, k) PROVE IInv'
    BY <2>2, BeginStep
  <2>3. CASE FullSaveBegin \/ ActivateSparseRecorder \/ FullSaveEnd
    BY <2>3, FullSaveBeginStep, ActivateSparseRecorderStep, FullSaveEndStep
  <2>4. CASE IncrSaveBegin \/ IncrSaveEnd
    BY <2>4, IncrSaveBeginStep, IncrSaveEndStep
  <2>5. ASSUME NEW k \in Keys, SaveRow(k) PROVE IInv'
    BY <2>5, SaveRowStep
  <2>6. CASE Failover
    BY <2>6, FailoverStep
  <2>7. CASE UNCHANGED vars
    BY <2>7, StutterStep
  <2> QED BY <2>1, <2>2, <2>3, <2>4, <2>5, <2>6, <2>7 DEF Next
<1> QED BY InitIInv, <1>1, PTL DEF Spec

\* A failover restores every row at least as the latest full checkpoint saved it,
\* for normal and for embedding variables (recover_incr_checkpoints).
THEOREM FailoverNeverBehindFull == Spec => []NeverBehindFull
<1>1. IInv => NeverBehindFull
  BY RestoredBounds DEF NeverBehindFull
<1> QED BY InductiveInvariant, <1>1, PTL

\* Of a normal variable, the increment and the full checkpoint below it hold every
\* step that was done when the increment was begun.
THEOREM IncrementIsComplete ==
  ASSUME ~IsEV PROVE Spec => []IncrementCoversSteps
<1>1. IInv => IncrementCoversSteps
  BY DEF IInv, IncrementCoversSteps, Restored, RowsInv, RecordInv, TypeOK, RowsType
<1> QED BY InductiveInvariant, <1>1, PTL
=============================================================================
