------------------------------ MODULE TensorBuf ------------------------------
(***************************************************************************)
(* The bounded buffer between the threads that prefetch samples and the    *)
(* threads that train on them (core/kernels/tensor_buffer_ops.h).          *)
(*                                                                         *)
(* A call is a sequence of steps of the calling thread: every critical     *)
(* section of mu_ is one step (from the lock, or from the wake-up inside   *)
(* wait, to the unlock or to the next wait), and every notify_all, which   *)
(* the code issues after unlock(), is a step of its own.  pc[t] says where *)
(* thread t is, record[t] is the record it carries and status[t] the       *)
(* Status its last call returned.                                          *)
(***************************************************************************)
EXTENDS Naturals, Sequences

CONSTANTS Threads,     \* threads that call into the buffer
          Records,     \* what is put and taken
          NoRecord,    \* the empty record
          Capacity     \* capacity_

ASSUME CapacityAssumption == Capacity \in Nat \ {0}
ASSUME NoRecordAssumption == NoRecord \notin Records

VARIABLES buffer,         \* buffer_
          is_cancelled,   \* is_cancelled_
          is_closed,      \* is_closed_
          pc, record, status,
          taken           \* every record popped so far, in order (history)

bufVars == <<buffer, is_cancelled, is_closed, pc, record, status, taken>>

PCs == {"idle", "Put", "PutWait", "Take", "TakeWait",
        "NotifyPut", "NotifyTake", "NotifyBoth"}

Statuses == {"OK", "Cancelled", "OutOfRange"}

BufTypeOK ==
  /\ buffer \in Seq(Records)
  /\ Len(buffer) <= Capacity
  /\ is_cancelled \in BOOLEAN
  /\ is_closed \in BOOLEAN
  /\ pc \in [Threads -> PCs]
  /\ record \in [Threads -> Records \cup {NoRecord}]
  /\ status \in [Threads -> Statuses]
  /\ taken \in Seq(Records)

BufInit ==
  /\ buffer = <<>>
  /\ is_cancelled = FALSE
  /\ is_closed = FALSE
  /\ pc = [t \in Threads |-> "idle"]
  /\ record = [t \in Threads |-> NoRecord]
  /\ status = [t \in Threads |-> "OK"]
  /\ taken = <<>>

Return(t, s) ==
  /\ pc' = [pc EXCEPT ![t] = "idle"]
  /\ status' = [status EXCEPT ![t] = s]

-----------------------------------------------------------------------------
(* Put(record, timeout_millis). *)

PutCall(t, r) ==
  /\ pc[t] = "idle"
  /\ pc' = [pc EXCEPT ![t] = "Put"]
  /\ record' = [record EXCEPT ![t] = r]
  /\ UNCHANGED <<buffer, is_cancelled, is_closed, status, taken>>

\* Faulty variant: off by one.
PutReadyLate == Len(buffer) <= Capacity \/ is_cancelled

\* The predicate of put_cv_.wait_for.
PutReady == Len(buffer) < Capacity \/ is_cancelled

\* What Put does once wait_for has returned true.
PutRecord(t) ==
  IF is_cancelled
  THEN /\ Return(t, "Cancelled")
       /\ record' = [record EXCEPT ![t] = NoRecord]
       /\ UNCHANGED buffer
  ELSE /\ buffer' = Append(buffer, record[t])
       /\ record' = [record EXCEPT ![t] = NoRecord]
       /\ pc' = [pc EXCEPT ![t] = "NotifyTake"]
       /\ status' = [status EXCEPT ![t] = "OK"]

Put(t) ==
  /\ pc[t] = "Put"
  /\ IF PutReady
     THEN PutRecord(t)
     ELSE /\ pc' = [pc EXCEPT ![t] = "PutWait"]
          /\ UNCHANGED <<buffer, record, status>>
  /\ UNCHANGED <<is_cancelled, is_closed, taken>>

\* Faulty variant: a Put that times out tries again.
PutTimeoutRetries(t) ==
  /\ pc[t] = "PutWait"
  /\ pc' = [pc EXCEPT ![t] = "Put"]
  /\ UNCHANGED <<buffer, is_cancelled, is_closed, record, status, taken>>

\* The deadline passes: wait_for evaluates the predicate a last time, and when
\* it is still false the record is dropped and the call reports OK.
PutTimeout(t) ==
  /\ pc[t] = "PutWait"
  /\ IF PutReady
     THEN PutRecord(t)
     ELSE /\ Return(t, "OK")
          /\ record' = [record EXCEPT ![t] = NoRecord]
          /\ UNCHANGED buffer
  /\ UNCHANGED <<is_cancelled, is_closed, taken>>

-----------------------------------------------------------------------------
(* Take(record). *)

TakeCall(t) ==
  /\ pc[t] = "idle"
  /\ pc' = [pc EXCEPT ![t] = "Take"]
  /\ record' = [record EXCEPT ![t] = NoRecord]
  /\ UNCHANGED <<buffer, is_cancelled, is_closed, status, taken>>

\* The predicate of take_cv_.wait.
TakeReady == buffer # <<>> \/ is_cancelled

\* Faulty variant: the record is copied and stays in the buffer.
TakeRecordWithoutPop(t) ==
  IF buffer = <<>>
  THEN /\ Return(t, IF is_closed THEN "OutOfRange" ELSE "Cancelled")
       /\ UNCHANGED <<buffer, record, taken>>
  ELSE /\ record' = [record EXCEPT ![t] = Head(buffer)]
       /\ taken' = Append(taken, Head(buffer))
       /\ pc' = [pc EXCEPT ![t] = "NotifyPut"]
       /\ status' = [status EXCEPT ![t] = "OK"]
       /\ UNCHANGED buffer

TakeRecord(t) ==
  IF buffer = <<>>
  THEN /\ Return(t, IF is_closed THEN "OutOfRange" ELSE "Cancelled")
       /\ UNCHANGED <<buffer, record, taken>>
  ELSE /\ record' = [record EXCEPT ![t] = Head(buffer)]
       /\ buffer' = Tail(buffer)
       /\ taken' = Append(taken, Head(buffer))
       /\ pc' = [pc EXCEPT ![t] = "NotifyPut"]
       /\ status' = [status EXCEPT ![t] = "OK"]

Take(t) ==
  /\ pc[t] = "Take"
  /\ IF TakeReady
     THEN TakeRecord(t)
     ELSE /\ pc' = [pc EXCEPT ![t] = "TakeWait"]
          /\ UNCHANGED <<buffer, record, status, taken>>
  /\ UNCHANGED <<is_cancelled, is_closed>>

-----------------------------------------------------------------------------
(* Cancel(is_cancelled) and Close(). *)

Cancel(t, flag) ==
  /\ pc[t] = "idle"
  /\ is_cancelled' = flag
  /\ pc' = [pc EXCEPT ![t] = "NotifyBoth"]
  /\ status' = [status EXCEPT ![t] = "OK"]
  /\ UNCHANGED <<buffer, is_closed, record, taken>>

\* Faulty variant: the takers are not notified.
CloseNotifyingPutters(t) ==
  /\ pc[t] = "idle"
  /\ is_cancelled' = TRUE
  /\ is_closed' = TRUE
  /\ pc' = [pc EXCEPT ![t] = "NotifyPut"]
  /\ status' = [status EXCEPT ![t] = "OK"]
  /\ UNCHANGED <<buffer, record, taken>>

Close(t) ==
  /\ pc[t] = "idle"
  /\ is_cancelled' = TRUE
  /\ is_closed' = TRUE
  /\ pc' = [pc EXCEPT ![t] = "NotifyBoth"]
  /\ status' = [status EXCEPT ![t] = "OK"]
  /\ UNCHANGED <<buffer, record, taken>>

-----------------------------------------------------------------------------
(* The condition variables put_cv_ and take_cv_. *)

\* notify_all: every thread of the wait set contends for mu_ again.
WakeAll(waiting, woken, t, next) ==
  pc' = [u \in Threads |-> IF u = t THEN next
                           ELSE IF pc[u] = waiting THEN woken ELSE pc[u]]

NotifyPut(t) ==
  /\ pc[t] = "NotifyPut"
  /\ WakeAll("PutWait", "Put", t, "idle")
  /\ UNCHANGED <<buffer, is_cancelled, is_closed, record, status, taken>>

NotifyTake(t) ==
  /\ pc[t] = "NotifyTake"
  /\ WakeAll("TakeWait", "Take", t, "idle")
  /\ UNCHANGED <<buffer, is_cancelled, is_closed, record, status, taken>>

\* Cancel and Close notify put_cv_ first, take_cv_ next.
NotifyBoth(t) ==
  /\ pc[t] = "NotifyBoth"
  /\ WakeAll("PutWait", "Put", t, "NotifyTake")
  /\ UNCHANGED <<buffer, is_cancelled, is_closed, record, status, taken>>

\* A waiting thread may also wake up without a notification.
SpuriousWakeup(t) ==
  /\ pc[t] \in {"PutWait", "TakeWait"}
  /\ pc' = [pc EXCEPT ![t] = IF @ = "PutWait" THEN "Put" ELSE "Take"]
  /\ UNCHANGED <<buffer, is_cancelled, is_closed, record, status, taken>>

\* The steps a thread takes on its own inside a call.
BufStep(t) ==
  Put(t) \/ Take(t) \/ NotifyPut(t) \/ NotifyTake(t) \/ NotifyBoth(t)
=============================================================================
