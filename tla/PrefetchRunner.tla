---------------------------- MODULE PrefetchRunner ----------------------------
(***************************************************************************)
(* A PrefetchRunner (cc/training/prefetch_runner.cc) that fills a          *)
(* TensorBuf, the Coordinator that stops it (cc/training/coordinator.cc),  *)
(* the PrefetchRunnerMgr that starts, stops and restarts it, and the       *)
(* training threads that take from the buffer (python/ops/prefetch.py,     *)
(* staged).                                                                *)
(*                                                                         *)
(* Samples are numbered in the order in which they are handed out.  The    *)
(* input may end anywhere; from then on fetching fails with the closed     *)
(* exception (OutOfRange) until a new session initializes the input again. *)
(***************************************************************************)
EXTENDS TensorBuf, FiniteSets, SequencesExt

CONSTANTS Workers,       \* threads of thread_pool_, running Run(index)
          Takers,        \* pool threads running TensorBufferTake for clients
          CancelThread,  \* cancel_thread_, running Stop()
          MaxSamples,    \* bound: samples handed out
          FetchErrors,   \* errors the fetch subgraph may raise of its own
          MaxRuns        \* bound: StartRunners calls in the buffer's life

ASSUME ThreadsAssumption ==
  /\ Threads = Workers \cup Takers \cup {CancelThread}
  /\ Workers \cap Takers = {}
  /\ CancelThread \notin Workers \cup Takers
  /\ IsFiniteSet(Workers)
ASSUME SamplesAssumption == MaxSamples \in Nat /\ Records = 1..MaxSamples
ASSUME FetchErrorsAssumption == FetchErrors \subseteq {"Ignored", "Unexpected"}
ASSUME MaxRunsAssumption == MaxRuns \in Nat

VARIABLES
  next_sample,   \* the next sample of the input
  at_end,        \* the input has ended
  should_stop_,  \* Coordinator::should_stop_
  thread_nums_,  \* threads that have not ended
  is_running_,   \* PrefetchRunner::is_running_
  mgr,           \* where the thread calling StartRunners/StopRunners is
  wpc,           \* wpc[w]: where Run(w) is
  error,         \* error[w]: status of the Session::Run w last issued
  ended,         \* ended[w]: why Run(w) returned
  spc,           \* where Stop() is
  runs,          \* StartRunners calls so far
  asked,         \* takers whose last call of Take began in this run (history)
  eof,           \* those of them that were told "EOF reached." (history)
  was_closed,    \* is_closed_ when the runners were started (history)
  lost           \* samples dropped or abandoned on the way (history)

inputVars == <<next_sample, at_end, was_closed>>
runVars == <<inputVars, should_stop_, thread_nums_, is_running_, mgr, wpc,
             error, ended, spc, runs, asked, eof, lost>>
vars == <<bufVars, runVars>>

WorkerPCs == {"none", "Resume", "Loop", "Fetch", "PutDone", "CheckStatus",
              "Unexpected", "CloseOp", "Done"}
Ends == {"none", "stop", "cancelled", "closed", "unexpected"}

\* Type correctness of the runner and of its buffer: the buffer never holds more
\* than capacity_ records and thread_nums_, a size_t, never goes below 0.
TypeOK ==
  /\ BufTypeOK
  /\ next_sample \in 1..(MaxSamples + 1)
  /\ at_end \in BOOLEAN /\ was_closed \in BOOLEAN
  /\ should_stop_ \in BOOLEAN
  /\ thread_nums_ \in 0..Cardinality(Workers)
  /\ is_running_ \in BOOLEAN
  /\ mgr \in {"stopped", "starting", "loop_done", "started", "joining"}
  /\ wpc \in [Workers -> WorkerPCs]
  /\ error \in [Workers -> Statuses \cup {"Ignored", "Unexpected"}]
  /\ ended \in [Workers -> Ends]
  /\ spc \in {"none", "WaitForStop", "CancelOp", "Done"}
  /\ runs \in 0..MaxRuns
  /\ eof \subseteq asked /\ asked \subseteq Takers
  /\ lost \subseteq Records

Init ==
  /\ BufInit
  /\ next_sample = 1
  /\ at_end = FALSE
  /\ was_closed = FALSE
  /\ should_stop_ = FALSE
  /\ thread_nums_ = 0
  /\ is_running_ = FALSE
  /\ mgr = "stopped"
  /\ wpc = [w \in Workers |-> "none"]
  /\ error = [w \in Workers |-> "OK"]
  /\ ended = [w \in Workers |-> "none"]
  /\ spc = "none"
  /\ runs = 0
  /\ asked = {}
  /\ eof = {}
  /\ lost = {}

-----------------------------------------------------------------------------
(* PrefetchRunnerMgr, on the thread that created the session. *)

\* StartRunners: a new Coordinator and a new PrefetchRunner, whose Start()
\* first sets thread_nums_.  The same session goes on with its input; a session
\* created anew initializes the input again.
StartRunners ==
  /\ mgr = "stopped"
  /\ runs < MaxRuns
  /\ runs' = runs + 1
  /\ mgr' = "starting"
  /\ should_stop_' = FALSE
  /\ thread_nums_' = Cardinality(Workers)
  /\ wpc' = [w \in Workers |-> "none"]
  /\ error' = [w \in Workers |-> "OK"]
  /\ ended' = [w \in Workers |-> "none"]
  /\ spc' = "none"
  /\ is_running_' = FALSE
  /\ asked' = {}
  /\ eof' = {}
  /\ at_end' \in {FALSE, at_end}
  /\ was_closed' = is_closed
  /\ UNCHANGED <<bufVars, next_sample, lost>>

Created == {w \in Workers : wpc[w] # "none"}

\* Start(), the loop `i < thread_nums_': the bound is read again before every
\* thread, while the threads created so far run and decrement it.
StartThread(w) ==
  /\ mgr = "starting"
  /\ Cardinality(Created) < thread_nums_
  /\ wpc[w] = "none"
  /\ wpc' = [wpc EXCEPT ![w] = "Resume"]
  /\ UNCHANGED <<bufVars, inputVars, should_stop_, thread_nums_, is_running_,
                 mgr, error, ended, spc, runs, asked, eof, lost>>

\* The loop ends, and the cancel thread is created.
StartCancelThread ==
  /\ mgr = "starting"
  /\ Cardinality(Created) >= thread_nums_
  /\ mgr' = "loop_done"
  /\ spc' = "WaitForStop"
  /\ UNCHANGED <<bufVars, inputVars, should_stop_, thread_nums_, is_running_,
                 wpc, error, ended, runs, asked, eof, lost>>

\* The last statement of Start().
StartReturns ==
  /\ mgr = "loop_done"
  /\ mgr' = "started"
  /\ is_running_' = TRUE
  /\ UNCHANGED <<bufVars, inputVars, should_stop_, thread_nums_, wpc, error,
                 ended, spc, runs, asked, eof, lost>>

\* StopRunners: Coordinator::RequestStop (which fails, and is ignored, when a
\* worker requested the stop before) and then Join.
StopRunners ==
  /\ mgr = "started"
  /\ mgr' = "joining"
  /\ should_stop_' = TRUE
  /\ UNCHANGED <<bufVars, inputVars, thread_nums_, is_running_, wpc, error,
                 ended, spc, runs, asked, eof, lost>>

\* Join returns when Run has returned on every worker there is and Stop on the
\* cancel thread; the coordinator and the runner are destroyed.
Join ==
  /\ mgr = "joining"
  /\ \A w \in Created : wpc[w] = "Done"
  /\ spc = "Done"
  /\ mgr' = "stopped"
  /\ UNCHANGED <<bufVars, inputVars, should_stop_, thread_nums_, is_running_,
                 wpc, error, ended, spc, runs, asked, eof, lost>>

-----------------------------------------------------------------------------
(* Stop(), on the cancel thread. *)

WaitForStop ==
  /\ spc = "WaitForStop"
  /\ should_stop_
  /\ Cancel(CancelThread, TRUE)
  /\ spc' = "CancelOp"
  /\ UNCHANGED <<inputVars, should_stop_, thread_nums_, is_running_, mgr,
                 wpc, error, ended, runs, asked, eof, lost>>

StopReturns ==
  /\ spc = "CancelOp"
  /\ pc[CancelThread] = "idle"
  /\ is_running_' = FALSE
  /\ spc' = "Done"
  /\ UNCHANGED <<bufVars, inputVars, should_stop_, thread_nums_, mgr, wpc,
                 error, ended, runs, asked, eof, lost>>

-----------------------------------------------------------------------------
(* Run(w), on a worker. *)

WorkerAt(w, from, to) ==
  /\ wpc[w] = from
  /\ wpc' = [wpc EXCEPT ![w] = to]

\* Faulty variant: a worker that sees the stop leaves without a trace.
EndUncounted(w, why) ==
  /\ thread_nums_' = IF why = "stop" THEN thread_nums_ ELSE thread_nums_ - 1
  /\ ended' = [ended EXCEPT ![w] = why]

\* thread_nums_-- and return.
End(w, why) ==
  /\ thread_nums_' = thread_nums_ - 1
  /\ ended' = [ended EXCEPT ![w] = why]

\* The resume op: Cancel(false).
Resume(w) ==
  /\ WorkerAt(w, "Resume", "Loop")
  /\ Cancel(w, FALSE)
  /\ UNCHANGED <<inputVars, should_stop_, thread_nums_, is_running_, mgr,
                 error, ended, spc, runs, asked, eof, lost>>

\* The Session::Run of the resume op fails: an unexpected error.
ResumeFails(w) ==
  /\ "Unexpected" \in FetchErrors
  /\ WorkerAt(w, "Resume", "Unexpected")
  /\ should_stop_' = TRUE
  /\ UNCHANGED <<bufVars, inputVars, thread_nums_, is_running_, mgr, error,
                 ended, spc, runs, asked, eof, lost>>

\* coord_->ShouldStop() at the head of the loop.
CheckStop(w) ==
  /\ pc[w] = "idle"
  /\ IF should_stop_
     THEN WorkerAt(w, "Loop", "Done") /\ End(w, "stop")
     ELSE WorkerAt(w, "Loop", "Fetch") /\ UNCHANGED <<thread_nums_, ended>>
  /\ UNCHANGED <<bufVars, inputVars, should_stop_, is_running_, mgr, error,
                 spc, runs, asked, eof, lost>>

\* The prefetch subgraph produces a sample and calls Put with it.
FetchSample(w) ==
  /\ WorkerAt(w, "Fetch", "PutDone")
  /\ ~at_end /\ next_sample <= MaxSamples
  /\ PutCall(w, next_sample)
  /\ next_sample' = next_sample + 1
  /\ UNCHANGED <<at_end, was_closed, should_stop_, thread_nums_, is_running_,
                 mgr, error, ended, spc, runs, asked, eof, lost>>

\* The prefetch subgraph fails before it reaches the buffer.  A corrupted
\* sample is consumed; the end of the input stays the end.
FetchFails(w) ==
  /\ WorkerAt(w, "Fetch", "CheckStatus")
  /\ \/ /\ error' = [error EXCEPT ![w] = "OutOfRange"]
        /\ at_end' = TRUE
        /\ UNCHANGED <<next_sample, lost>>
     \/ /\ ~at_end /\ next_sample <= MaxSamples
        /\ \E e \in FetchErrors : error' = [error EXCEPT ![w] = e]
        /\ lost' = lost \cup {next_sample}
        /\ next_sample' = next_sample + 1
        /\ UNCHANGED at_end
  /\ UNCHANGED <<bufVars, was_closed, should_stop_, thread_nums_,
                 is_running_, mgr, ended, spc, runs, asked, eof>>

\* Put has returned to the subgraph.
PutReturns(w) ==
  /\ pc[w] = "idle"
  /\ WorkerAt(w, "PutDone", "CheckStatus")
  /\ error' = [error EXCEPT ![w] = status[w]]
  /\ UNCHANGED <<bufVars, inputVars, should_stop_, thread_nums_, is_running_,
                 mgr, ended, spc, runs, asked, eof, lost>>

\* Faulty variant: every worker at the end of the input closes the buffer.
AnyWorkerCloses == TRUE

\* thread_nums_ == 0 after the decrement.
LastWorkerCloses == thread_nums_ - 1 = 0

\* CheckRunErrorStatus; an unexpected error requests the stop first and
\* decrements thread_nums_ next.
CheckRunErrorStatus(w) ==
  /\ \/ /\ error[w] \in {"OK", "Ignored"}
        /\ WorkerAt(w, "CheckStatus", "Loop")
        /\ UNCHANGED <<should_stop_, thread_nums_, ended>>
     \/ /\ error[w] = "Cancelled"
        /\ WorkerAt(w, "CheckStatus", "Done")
        /\ End(w, "cancelled")
        /\ UNCHANGED should_stop_
     \/ /\ error[w] = "OutOfRange"
        /\ WorkerAt(w, "CheckStatus",
                    IF LastWorkerCloses THEN "CloseOp" ELSE "Done")
        /\ End(w, "closed")
        /\ UNCHANGED should_stop_
     \/ /\ error[w] = "Unexpected"
        /\ WorkerAt(w, "CheckStatus", "Unexpected")
        /\ should_stop_' = TRUE
        /\ UNCHANGED <<thread_nums_, ended>>
  /\ UNCHANGED <<bufVars, inputVars, is_running_, mgr, error, spc, runs,
                 asked, eof, lost>>

DealWithUnexpectedError(w) ==
  /\ WorkerAt(w, "Unexpected", "Done")
  /\ End(w, "unexpected")
  /\ UNCHANGED <<bufVars, inputVars, should_stop_, is_running_, mgr, error,
                 spc, runs, asked, eof, lost>>

\* The last worker to reach the end of the input runs the close op.  mu_ is
\* held meanwhile, but no other worker is left to want it.
DealWithClosedError(w) ==
  /\ WorkerAt(w, "CloseOp", "Done")
  /\ Close(w)
  /\ UNCHANGED <<inputVars, should_stop_, thread_nums_, is_running_, mgr,
                 error, ended, spc, runs, asked, eof, lost>>

-----------------------------------------------------------------------------
(* The buffer's own steps, and the clients that take from it. *)

TakeOp(k) ==
  /\ TakeCall(k)
  /\ asked' = asked \cup {k}
  /\ UNCHANGED <<inputVars, should_stop_, thread_nums_, is_running_, mgr,
                 wpc, error, ended, spc, runs, eof, lost>>

\* A thread goes on inside a call.  eof and lost remember what the call did: a
\* taker told "EOF reached.", a sample Put did not push.
InBuffer(t) ==
  /\ BufStep(t) \/ PutTimeout(t) \/ SpuriousWakeup(t)
  /\ eof' = IF t \in asked /\ pc[t] = "Take" /\ status'[t] = "OutOfRange"
                 /\ pc'[t] = "idle"
            THEN eof \cup {t} ELSE eof
  /\ lost' = IF t \in Workers /\ pc[t] \in {"Put", "PutWait"}
                  /\ pc'[t] = "idle"
             THEN lost \cup {record[t]} ELSE lost
  /\ UNCHANGED <<inputVars, should_stop_, thread_nums_, is_running_, mgr,
                 wpc, error, ended, spc, runs, asked>>

MgrStep ==
  (\E w \in Workers : StartThread(w)) \/ StartCancelThread \/ StartReturns \/ Join

WorkerStep(w) ==
  \/ Resume(w) \/ ResumeFails(w) \/ CheckStop(w) \/ FetchSample(w) \/ FetchFails(w)
  \/ PutReturns(w) \/ CheckRunErrorStatus(w) \/ DealWithUnexpectedError(w)
  \/ DealWithClosedError(w)

CancelStep == WaitForStop \/ StopReturns

Next ==
  \/ StartRunners \/ StopRunners \/ MgrStep \/ CancelStep
  \/ \E w \in Workers : WorkerStep(w)
  \/ \E k \in Takers : TakeOp(k)
  \/ \E t \in Threads : InBuffer(t)

\* A started thread keeps running, a thread blocked on mu_ gets it, and a
\* wait_for reaches its deadline, which does not move when the thread is woken
\* up in between.  Nothing makes a client call Take or StopRunners.
Fairness ==
  /\ WF_vars(MgrStep)
  /\ WF_vars(CancelStep)
  /\ \A w \in Workers : WF_vars(WorkerStep(w))
  /\ \A t \in Threads : WF_vars(BufStep(t) /\ InBuffer(t))
  /\ \A t \in Threads : SF_vars(PutTimeout(t) /\ InBuffer(t))

Spec == Init /\ [][Next]_vars /\ Fairness

-----------------------------------------------------------------------------
(* Properties. *)

\* A taker is told "EOF reached." only when nothing can come after it: every
\* worker is past its last Put, the buffer is drained, and every sample the
\* input handed out was taken or is accounted for as dropped (a Put that timed
\* out or was cancelled, a fetch that failed).  A buffer closed by an earlier run
\* stays closed, and its EOF says nothing of this run (Take, Close, Run).
EOFMeansDrained ==
  eof # {} /\ ~was_closed =>
    /\ buffer = <<>>
    /\ \A w \in Workers : wpc[w] = "Done"
    /\ ToSet(taken) \cup lost = 1..(next_sample - 1)

\* No sample handed out by the input is trained on twice,
\* whatever times out, is cancelled or is left in the buffer at a restart
\* (Put, Take, StartRunners).
NoSampleTakenTwice == IsInjective(taken)

\* thread_nums_ counts the workers that have not ended, so that exactly the
\* last one can find it 0 (the decrements in Run and in the DealWith methods).
ThreadNumsExact ==
  runs > 0 => thread_nums_ = Cardinality({w \in Workers : ended[w] = "none"})

\* When every worker ended at the end of the input, no taker stays blocked:
\* the close op of the last one reaches it (DealWithClosedError, Close).
EndOfInput == runs > 0 /\ \A w \in Workers : ended[w] = "closed"
EndOfInputReleasesTakers ==
  EndOfInput ~> [](\A k \in Takers : pc[k] # "TakeWait")

\* StopRunners returns: no worker stays blocked in Put, even when a late
\* resume op takes the cancellation back (StopRunners, Join, Put).
StopRunnersReturns == mgr = "joining" ~> mgr = "stopped"
=============================================================================
