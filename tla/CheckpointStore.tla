--------------------------- MODULE CheckpointStore ---------------------------
(***************************************************************************)
(* What the SSD tier promises once checkpoints are taken and the process   *)
(* may die: a checkpoint is the map at the moment its descriptor was made, *)
(* it counts once all of it is written, and a process that restores starts *)
(* from exactly that map.                                                  *)
(***************************************************************************)
EXTENDS Sequences

CONSTANTS Keys, Values, NoValue

VARIABLES store,     \* key -> its value
          pending,   \* records of the accepted batch not in effect yet
          snapshot,  \* what the checkpoint being written will hold
          saved      \* the last complete checkpoint

Empty == [k \in Keys |-> NoValue]

Init ==
  /\ store = Empty /\ pending = <<>>
  /\ snapshot = NoValue /\ saved = NoValue

BatchCommit ==
  /\ pending = <<>>
  /\ pending' \in Seq(Keys \X Values)
  /\ UNCHANGED <<store, snapshot, saved>>

Commit ==
  /\ pending # <<>>
  /\ pending' = Tail(pending)
  /\ store' = [store EXCEPT ![Head(pending)[1]] = Head(pending)[2]]
  /\ UNCHANGED <<snapshot, saved>>

BeginSave ==
  /\ pending = <<>>
  /\ snapshot = NoValue
  /\ snapshot' = store
  /\ UNCHANGED <<store, pending, saved>>

EndSave ==
  /\ snapshot # NoValue
  /\ snapshot' = NoValue
  /\ saved' = snapshot
  /\ UNCHANGED <<store, pending>>

Crash ==
  /\ pending' = <<>>
  /\ snapshot' = NoValue
  /\ store' = Empty
  /\ UNCHANGED saved

Restore ==
  /\ pending = <<>>
  /\ saved # NoValue
  /\ store = Empty
  /\ store' = saved
  /\ UNCHANGED <<pending, snapshot, saved>>

Next ==
  \/ BatchCommit
  \/ Commit
  \/ BeginSave
  \/ EndSave
  \/ Crash
  \/ Restore

Spec == Init /\ [][Next]_<<store, pending, snapshot, saved>>
=============================================================================
