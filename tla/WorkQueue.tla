------------------------------ MODULE WorkQueue ------------------------------
(* The queue of works a training job shares (core/kernels/work_queue_ops.cc,   *)
(* python/ops/work_queue.py): the parameter server holds it, the chief fills   *)
(* it or restores it from a checkpoint, the workers take works from it.  The   *)
(* chief, the parameter server and the workers may fail and are restarted.     *)
(*                                                                             *)
(* shuffle is the default, so the order of the works is left out: the deque is *)
(* a bag.  The works of a job do not change between restarts, so the digest in *)
(* a checkpoint always matches.                                                *)
(*                                                                             *)
(* A work is "table?start=..&end=..", here <<table, range>>.                   *)
EXTENDS Naturals, Bags, FiniteSets

CONSTANTS Works,          \* the works of one epoch
          NumEpochs,      \* num_epochs
          Workers,
          LocalWorkers,   \* the workers that have a LocalWorkMgr
          LocalCapacity,  \* capacity of restore_work_queue
          NoCkpt,
          MaxFaults       \* bound: failures of chief, server and workers

ASSUME WorkQueueAssumption ==
  /\ IsFiniteSet(Works) /\ NumEpochs \in Nat \ {0}
  /\ LocalWorkers \subseteq Workers
  /\ LocalCapacity \in Nat /\ MaxFaults \in Nat

VARIABLES
  exists,    \* the parameter server has the resource
  queue,     \* queue_
  is_closed, \* is_closed_
  chief,     \* "down", "starting" or "up" (its session is created)
  next_op,   \* next of _create's ops: 0 create, 1..NumEpochs put, then close
  restore,   \* the restore op of this start: "none", "pending" or "done"
  ckpt,      \* the works of the latest checkpoint, and what was handed out
             \* until it was taken
  handed,    \* works handed out since the queue was filled, along the
             \* checkpoints that were restored
  taker,     \* the take op of a worker: "starting" (no session), "idle",
             \* "ready", "asleep" in take_cv_, "got" or "done" (OutOfRange)
  got,       \* the work a take op was given and has not saved yet
  orphans,   \* take ops on the server whose worker is gone
  files,     \* works saved in restore_works_dir, one per file
  restored,  \* _restore_works: files as the worker's process found them
  local,     \* restore_work_queue
  barrier,   \* restore_works_barrier
  faults,
  \* history
  given,     \* works the take ops of a worker returned, in all its processes
  owed,      \* those of earlier processes that this one did not take again
  clobbered  \* ranges whose file was taken from the work in it

serverVars == <<exists, queue, is_closed, handed>>
chiefVars == <<chief, next_op, restore, ckpt>>
takerVars == <<taker, got, orphans>>
historyVars == <<given, owed, clobbered>>
localVars == <<files, restored, local, barrier, historyVars>>
vars == <<serverVars, chiefVars, takerVars, localVars, faults>>

Init ==
  /\ exists = FALSE /\ queue = EmptyBag /\ is_closed = FALSE
  /\ handed = EmptyBag
  /\ chief = "down" /\ next_op = 0 /\ restore = "none" /\ ckpt = NoCkpt
  /\ taker = [w \in Workers |-> "starting"]
  /\ got = [w \in Workers |-> {}]
  /\ orphans = 0
  /\ files = [w \in Workers |-> {}]
  /\ restored = [w \in Workers |-> {}]
  /\ local = [w \in Workers |-> EmptyBag]
  /\ barrier = [w \in Workers |-> FALSE]
  /\ given = [w \in Workers |-> {}]
  /\ owed = [w \in Workers |-> {}]
  /\ clobbered = [w \in Workers |-> {}]
  /\ faults = 0

One(x) == SetToBag({x})
Copies(x, B) == IF BagIn(x, B) THEN B[x] ELSE 0

\* take_cv_.notify_all()
Notified == [w \in Workers |-> IF taker[w] = "asleep" THEN "ready" ELSE taker[w]]

-----------------------------------------------------------------------------
(* The chief. *)

ChiefDown == chief' = "down" /\ next_op' = 0 /\ restore' = "none"

\* prepare_session: with a checkpoint it runs the restore op, whose graph also
\* holds _create (create_with_prompt is built outside of the cond and runs
\* whatever the digest); without one the init op, which is _create.  No edge
\* orders the two.
ChiefStart ==
  /\ chief = "down"
  /\ chief' = "starting" /\ next_op' = 0
  /\ restore' = IF ckpt = NoCkpt THEN "none" ELSE "pending"
  /\ UNCHANGED <<ckpt, serverVars, takerVars, localVars, faults>>

NextOp(n) == chief = "starting" /\ next_op = n /\ next_op' = n + 1

\* WorkQueueCreateOp: a queue that exists is kept as it is.
Create ==
  /\ NextOp(0)
  /\ exists' = TRUE
  /\ UNCHANGED <<queue, is_closed, handed, chief, restore, ckpt, takerVars,
                 localVars, faults>>

\* Put: a closed queue drops the works and reports success.
Put ==
  /\ \E n \in 1..NumEpochs : NextOp(n)
  /\ queue' = IF is_closed THEN queue ELSE queue (+) SetToBag(Works)
  /\ taker' = Notified
  /\ UNCHANGED <<exists, is_closed, handed, chief, restore, ckpt, got, orphans,
                 localVars, faults>>

\* Faulty variant: the waiting takers are not notified.
CloseSilently ==
  /\ NextOp(NumEpochs + 1)
  /\ is_closed' = TRUE
  /\ UNCHANGED <<exists, queue, handed, chief, restore, ckpt, takerVars,
                 localVars, faults>>

Close ==
  /\ NextOp(NumEpochs + 1)
  /\ is_closed' = TRUE
  /\ taker' = IF is_closed THEN taker ELSE Notified
  /\ UNCHANGED <<exists, queue, handed, chief, restore, ckpt, got, orphans,
                 localVars, faults>>

\* Faulty variant: like Put, it takes no works into a closed queue.
RestoreUnlessClosed ==
  /\ chief = "starting" /\ restore = "pending" /\ exists
  /\ queue' = (IF is_closed THEN EmptyBag ELSE ckpt.works)
  /\ handed' = ckpt.handed
  /\ restore' = "done"
  /\ taker' = Notified
  /\ UNCHANGED <<exists, is_closed, chief, next_op, ckpt, got, orphans,
                 localVars, faults>>

\* WorkQueueRestoreOp and Restore: is_closed_ is left alone.
Restore ==
  /\ chief = "starting" /\ restore = "pending" /\ exists
  /\ queue' = ckpt.works /\ handed' = ckpt.handed
  /\ restore' = "done"
  /\ taker' = Notified
  /\ UNCHANGED <<exists, is_closed, chief, next_op, ckpt, got, orphans,
                 localVars, faults>>

\* The restore op finds no resource: the step fails and the chief starts again.
RestoreNotFound ==
  /\ chief = "starting" /\ restore = "pending" /\ ~exists
  /\ ChiefDown
  /\ UNCHANGED <<ckpt, serverVars, takerVars, localVars, faults>>

SessionCreated ==
  /\ chief = "starting" /\ next_op = NumEpochs + 2 /\ restore # "pending"
  /\ chief' = "up"
  /\ UNCHANGED <<next_op, restore, ckpt, serverVars, takerVars, localVars, faults>>

\* Save, by the chief's checkpoint hook.
Save ==
  /\ chief = "up" /\ exists
  /\ ckpt' = [works |-> queue, handed |-> handed]
  /\ UNCHANGED <<chief, next_op, restore, serverVars, takerVars, localVars, faults>>

-----------------------------------------------------------------------------
(* The workers. *)

\* Faulty variant: the worker does not wait for its restored works.
SessionReadyNoBarrier(w) ==
  /\ taker[w] = "starting" /\ exists
  /\ taker' = [taker EXCEPT ![w] = "idle"]
  /\ barrier' = [barrier EXCEPT ![w] = FALSE]
  /\ UNCHANGED <<serverVars, chiefVars, got, orphans, files, restored, local,
                 historyVars, faults>>

\* The session of a worker: it waits until the resource is initialized; local
\* variables get their initial values.
SessionReady(w) ==
  /\ taker[w] = "starting" /\ exists
  /\ taker' = [taker EXCEPT ![w] = "idle"]
  /\ barrier' = [barrier EXCEPT ![w] = restored[w] # {}]
  /\ UNCHANGED <<serverVars, chiefVars, got, orphans, files, restored, local,
                 historyVars, faults>>

\* RestoreWorksBarrierHook.after_create_session: blocks when the works do not
\* fit restore_work_queue.
AfterCreateSession(w) ==
  LET filled == local[w] (+) SetToBag(restored[w]) IN
  /\ taker[w] # "starting" /\ barrier[w]
  /\ BagCardinality(filled) <= LocalCapacity
  /\ local' = [local EXCEPT ![w] = filled]
  /\ barrier' = [barrier EXCEPT ![w] = FALSE]
  /\ UNCHANGED <<serverVars, chiefVars, takerVars, files, restored, historyVars,
                 faults>>

\* take with works left in the local queue: local_take.
LocalTake(w) ==
  /\ taker[w] = "idle" /\ ~barrier[w]
  /\ \E x \in BagToSet(local[w]) :
       /\ local' = [local EXCEPT ![w] = @ (-) One(x)]
       /\ owed' = [owed EXCEPT ![w] = @ \ {x}]
  /\ UNCHANGED <<serverVars, chiefVars, takerVars, files, restored, barrier, given,
                 clobbered, faults>>

\* take without: remote_take, WorkQueueTakeOp schedules Take on the server.
RemoteTake(w) ==
  /\ taker[w] = "idle" /\ ~barrier[w] /\ local[w] = EmptyBag
  /\ taker' = [taker EXCEPT ![w] = "ready"]
  /\ UNCHANGED <<serverVars, chiefVars, got, orphans, localVars, faults>>

Pop(x) ==
  /\ x \in BagToSet(queue)
  /\ queue' = queue (-) One(x) /\ handed' = handed (+) One(x)
  /\ UNCHANGED <<exists, is_closed>>

\* Take: a work, OutOfRange, or wait.
TakeWork(w) ==
  /\ taker[w] = "ready"
  /\ \E x \in Works : Pop(x) /\ got' = [got EXCEPT ![w] = {x}]
  /\ taker' = [taker EXCEPT ![w] = "got"]
  /\ UNCHANGED <<chiefVars, orphans, localVars, faults>>

TakeOutOfRange(w) ==
  /\ taker[w] = "ready" /\ queue = EmptyBag /\ is_closed
  /\ taker' = [taker EXCEPT ![w] = "done"]
  /\ UNCHANGED <<serverVars, chiefVars, got, orphans, localVars, faults>>

TakeWait(w) ==
  /\ taker[w] = "ready" /\ queue = EmptyBag /\ ~is_closed
  /\ taker' = [taker EXCEPT ![w] = "asleep"]
  /\ UNCHANGED <<serverVars, chiefVars, got, orphans, localVars, faults>>

\* The file of a work is named after the part behind the "?", the range: works of
\* two tables may have the same one.
Slice(x) == x[2]

\* SaveLocalWorkOp, if the worker has a LocalWorkMgr: NewWritableFile empties the
\* file, Append and Close fill it.
Emptied(w) ==
  IF w \in LocalWorkers THEN {y \in files[w] : \A x \in got[w] : Slice(y) # Slice(x)}
                        ELSE files[w]
Saved(w) == Emptied(w) \cup IF w \in LocalWorkers THEN got[w] ELSE {}

\* The files of w become fs.
WriteFiles(w, fs) ==
  /\ files' = [files EXCEPT ![w] = fs]
  /\ clobbered' = [clobbered EXCEPT ![w] = @ \cup {Slice(y) : y \in files[w] \ fs}]

\* The work is saved, then the worker has it.  When saving fails (no directory, no
\* "?", a failed write) so does the worker's step, with the work popped already:
\* WorkerFails.
SaveLocalWork(w) ==
  /\ taker[w] = "got"
  /\ WriteFiles(w, Saved(w))
  /\ taker' = [taker EXCEPT ![w] = "idle"]
  /\ got' = [got EXCEPT ![w] = {}]
  /\ given' = [given EXCEPT ![w] = @ \cup IF w \in LocalWorkers THEN got[w] ELSE {}]
  /\ UNCHANGED <<serverVars, chiefVars, orphans, restored, local, barrier, owed,
                 faults>>

\* Take is not cancelled with the worker that asked.
OrphanTake ==
  /\ orphans > 0 /\ orphans' = orphans - 1
  /\ \/ \E x \in Works : Pop(x)
     \/ queue = EmptyBag /\ is_closed /\ UNCHANGED serverVars
  /\ UNCHANGED <<chiefVars, taker, got, localVars, faults>>

-----------------------------------------------------------------------------
(* Failures. *)

Fault == faults < MaxFaults /\ faults' = faults + 1

ChiefFails ==
  /\ Fault
  /\ chief # "down" /\ ChiefDown
  /\ UNCHANGED <<ckpt, serverVars, takerVars, localVars>>

\* The server comes back empty; every session that used it is created again.
ServerFails ==
  /\ Fault
  /\ exists
  /\ exists' = FALSE /\ queue' = EmptyBag /\ is_closed' = FALSE
  /\ handed' = EmptyBag
  /\ ChiefDown
  /\ taker' = [w \in Workers |-> IF taker[w] = "done" THEN "done" ELSE "starting"]
  /\ got' = [w \in Workers |-> {}]
  /\ orphans' = 0
  /\ UNCHANGED <<ckpt, localVars>>

\* The worker's process is started again and reads its saved works; a take op
\* on the server stays, one that had its work is at any point of saving it.
WorkerFails(w) ==
  /\ Fault
  /\ taker[w] \notin {"starting", "done"}
  /\ orphans' = orphans + IF taker[w] \in {"ready", "asleep"} THEN 1 ELSE 0
  /\ \E fs \in {files[w], Emptied(w), Saved(w)} :
       /\ WriteFiles(w, fs)
       /\ restored' = [restored EXCEPT ![w] = fs]
  /\ taker' = [taker EXCEPT ![w] = "starting"]
  /\ got' = [got EXCEPT ![w] = {}]
  /\ local' = [local EXCEPT ![w] = EmptyBag]
  /\ barrier' = [barrier EXCEPT ![w] = FALSE]
  /\ owed' = [owed EXCEPT ![w] = given[w]]
  /\ UNCHANGED <<serverVars, chiefVars, given>>

-----------------------------------------------------------------------------
ChiefNext ==
  \/ ChiefStart \/ Create \/ Put \/ Close \/ Restore \/ RestoreNotFound
  \/ SessionCreated

TakerNext(w) ==
  \/ SessionReady(w) \/ AfterCreateSession(w) \/ LocalTake(w) \/ RemoteTake(w)
  \/ TakeWork(w) \/ TakeOutOfRange(w) \/ TakeWait(w) \/ SaveLocalWork(w)

Next ==
  \/ ChiefNext \/ Save
  \/ \E w \in Workers : TakerNext(w)
  \/ OrphanTake
  \/ ChiefFails \/ ServerFails \/ \E w \in Workers : WorkerFails(w)

\* The chief is restarted and its ops run; the take op of a worker is scheduled.
Fairness ==
  /\ WF_vars(ChiefNext)
  /\ \A w \in Workers : WF_vars(TakerNext(w))

Spec == Init /\ [][Next]_vars /\ Fairness

-----------------------------------------------------------------------------
(* Properties. *)

\* Every work of every epoch is still in the closed queue or was handed out,
\* before the restored checkpoint or since: no failover loses works (Put, Close
\* and Restore of work_queue_ops.cc, create and restore of work_queue.py).
NoWorkLost ==
  exists /\ is_closed =>
    \A x \in Works : Copies(x, queue) + Copies(x, handed) >= NumEpochs

\* A worker is told that all works are taken only after it took again every work
\* that a take of its earlier processes returned (restore_works_barrier, take),
\* unless its file was lost: to a work of another table with the same range, or
\* to a death while the file was written again.
RestoredWorksTakenFirst ==
  \A w \in Workers : taker[w] = "done" =>
    \A x \in owed[w] : Slice(x) \in clobbered[w]

\* No worker waits in Take for ever: chief failures included, the queue is
\* closed in the end and the waiting threads are notified (Take, Close).
TakersAnswered ==
  \A w \in Workers : taker[w] \in {"ready", "asleep"}
                       ~> taker[w] \notin {"ready", "asleep"}
=============================================================================
