------------------------------- MODULE KVStore -------------------------------
(***************************************************************************)
(* What the SSD tier promises to the storage above it: a map from keys to  *)
(* values that holds, for every key, the value committed last.  A batch is *)
(* accepted whole and takes effect record by record, in its order.         *)
(* Flushing the write buffer, rolling to a new file and compacting old     *)
(* files are invisible in it.                                              *)
(***************************************************************************)
EXTENDS Sequences

CONSTANTS Keys, Values, NoValue

VARIABLES store,     \* key -> its value
          pending    \* records of the accepted batch not in effect yet

kvVars == <<store, pending>>

Init == store = [k \in Keys |-> NoValue] /\ pending = <<>>

\* BatchCommit is called, or Commit, the batch of one.
BatchCommit ==
  /\ pending = <<>>
  /\ pending' \in Seq(Keys \X Values)
  /\ UNCHANGED store

\* The next record of the batch takes effect.
Commit ==
  /\ pending # <<>>
  /\ pending' = Tail(pending)
  /\ store' = [store EXCEPT ![Head(pending)[1]] = Head(pending)[2]]

Next == BatchCommit \/ Commit

Spec == Init /\ [][Next]_kvVars
=============================================================================
