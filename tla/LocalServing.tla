---------------------------- MODULE LocalServing ----------------------------
(***************************************************************************)
(* The serving processor with local storage                                *)
(* (serving/processor/serving: model_session.cc, model_instance.cc;        *)
(* storage/model_store.cc).  Client threads predict on the session that    *)
(* serves.  The updater thread looks for new checkpoints: a new full model *)
(* is restored into a session of its own that then takes over, a new delta *)
(* model is restored into the session that serves.  The session that was   *)
(* replaced is deleted at once when nobody predicts on it, and otherwise   *)
(* by the clearing thread.                                                 *)
(*                                                                         *)
(* A model is the checkpoints it was restored from: directory, step of the *)
(* full one and step of the delta, 0: none.  Steps start anew in every     *)
(* directory; a delta holds what changed since the last full checkpoint.   *)
(***************************************************************************)
EXTENDS Naturals, Sequences, FiniteSets

CONSTANTS Clients,
          MAX_TRY_COUNT,  \* 10 in the code
          MaxPublished,   \* bound: checkpoints written by the training
          MaxFailures     \* bound: failures of the file system or of a restore

ASSUME TryAssumption == MAX_TRY_COUNT \in Nat \ {0}
ASSUME ClientsAssumption == IsFiniteSet(Clients)

VARIABLES
  dirs,        \* the checkpoint directories, oldest first: [full, delta], the latest steps
  published,
  sess,        \* the sessions created: [alive, counter_, model, whole],
               \* whole: no delta restore is under way or stopped half way
  serving,     \* serving_model_session_
  sessions_,   \* replaced sessions that were in use
  version_,    \* version the instance believes it serves
  upd,         \* the updater: [pc, v, old]
  try_count,
  client,      \* client -> [pc, s] and history [late]
  up,          \* the process runs
  failures,
  \* history
  skipped      \* the restore failed of a delta that version_ named already

vars == <<dirs, published, sess, serving, sessions_, version_, upd, try_count, client, up,
          failures, skipped>>
sessionVars == <<sess, serving, sessions_>>
publishVars == <<dirs, published>>

Model(d, full, delta) == [dir |-> d, full |-> full, delta |-> delta]
NewSession(m) == [alive |-> TRUE, counter_ |-> 0, model |-> m, whole |-> TRUE]
Sleeping == [pc |-> "sleep", v |-> Model(0, 0, 0), old |-> 0]
Away == [pc |-> "away", s |-> 0, late |-> FALSE]

\* Init of the instance waited for a full model and loaded it.
Init ==
  /\ dirs = <<[full |-> 1, delta |-> 0]>> /\ published = 0
  /\ sess = <<NewSession(Model(1, 1, 0))>> /\ serving = 1 /\ sessions_ = {}
  /\ version_ = Model(1, 1, 0)
  /\ upd = Sleeping /\ try_count = 0
  /\ client = [c \in Clients |-> Away]
  /\ up = TRUE /\ failures = 0
  /\ skipped = FALSE

-----------------------------------------------------------------------------
(* The training, outside: a full or a delta checkpoint, or a new directory. *)

Latest == Len(dirs)
LatestStep == LET d == dirs[Latest] IN IF d.delta > d.full THEN d.delta ELSE d.full

Publish ==
  /\ published < MaxPublished
  /\ published' = published + 1
  /\ \/ dirs' = Append(dirs, [full |-> 1, delta |-> 0])
     \/ dirs' = [dirs EXCEPT ![Latest].full = LatestStep + 1]
     \/ dirs' = [dirs EXCEPT ![Latest].delta = LatestStep + 1]
  /\ UNCHANGED <<sessionVars, version_, upd, try_count, client, up, failures, skipped>>

-----------------------------------------------------------------------------
(* LocalPredict.                                                           *)

\* The pointer is read without a lock ...
ReadServing(c) ==
  /\ up
  /\ client[c].pc = "away"
  /\ client' = [client EXCEPT ![c] = [pc |-> "read", s |-> serving, late |-> FALSE]]
  /\ UNCHANGED <<publishVars, sessionVars, version_, upd, try_count, up, failures, skipped>>

\* ... and ++counter_ comes later: the session may have been replaced, or deleted
\* already, which may end the process.
Enter(c) ==
  LET s == client[c].s IN
  /\ up
  /\ client[c].pc = "read"
  /\ client' = [client EXCEPT ![c].pc = "run", ![c].late = serving # s]
  /\ IF sess[s].alive
       THEN sess' = [sess EXCEPT ![s].counter_ = @ + 1] /\ UNCHANGED up
       ELSE up' \in BOOLEAN /\ UNCHANGED sess
  /\ UNCHANGED <<publishVars, serving, sessions_, version_, upd, try_count, failures, skipped>>

\* The run ends, --counter_.
Leave(c) ==
  LET s == client[c].s IN
  /\ up
  /\ client[c].pc = "run"
  /\ client' = [client EXCEPT ![c] = Away]
  /\ sess' = IF sess[s].alive THEN [sess EXCEPT ![s].counter_ = @ - 1] ELSE sess
  /\ UNCHANGED <<publishVars, serving, sessions_, version_, upd, try_count, up, failures, skipped>>

\* Faulty variant: a session that nobody uses any more is kept.
NeverUnused(s) == sess[s].counter_ < 0

Unused(s) == sess[s].counter_ <= 0

Deleted(S) == [s \in DOMAIN sess |-> IF s \in S THEN [sess[s] EXCEPT !.alive = FALSE] ELSE sess[s]]

\* ClearLoop, under mu_.
CleanupModelSession ==
  LET idle == {s \in sessions_ : Unused(s)} IN
  /\ up
  /\ idle # {}
  /\ sess' = Deleted(idle)
  /\ sessions_' = sessions_ \ idle
  /\ UNCHANGED <<publishVars, serving, version_, upd, try_count, client, up, failures, skipped>>

-----------------------------------------------------------------------------
(* WorkLoop of the updater, and the updates it makes.                      *)

Fail == failures < MaxFailures /\ failures' = failures + 1

\* GetLatestVersion: the latest directory and its latest full model ...
ScanFull ==
  /\ up
  /\ upd.pc = "sleep"
  /\ upd' = [upd EXCEPT !.pc = "scanned", !.v = Model(Latest, dirs[Latest].full, 0)]
  /\ UNCHANGED <<publishVars, sessionVars, version_, try_count, client, up, failures, skipped>>

\* ... or no valid version at all; the process gives up after MAX_TRY_COUNT times.
ScanFails ==
  /\ up
  /\ upd.pc = "sleep"
  /\ Fail
  /\ try_count' = try_count + 1
  /\ up' = (try_count' < MAX_TRY_COUNT)
  /\ UNCHANGED <<publishVars, sessionVars, version_, upd, client, skipped>>

\* Faulty variant: only a version with greater steps counts as new.
NewFullOnlyLater(v) == version_.full < v.full

\* New model directory is generated ...
NewFullCkptGenerated(v) == <<version_.dir, version_.full>> # <<v.dir, v.full>>

\* ... or the version step is greater.
Before(pre, v) == pre.full < v.full \/ (pre.full = v.full /\ pre.delta < v.delta)

\* ModelUpdate: a full model first if there is a new one, then the delta.
Decide(v) ==
  upd' = CASE NewFullCkptGenerated(v) -> [upd EXCEPT !.pc = "full", !.v = v]
           [] ~NewFullCkptGenerated(v) /\ Before(version_, v) -> [upd EXCEPT !.pc = "delta", !.v = v]
           [] OTHER -> Sleeping

\* GetDeltaModelVersion comes later, of the same directory; if it fails the version
\* has no delta.
ScanDelta ==
  LET v == upd.v
      delta == dirs[v.dir].delta IN
  /\ up
  /\ upd.pc = "scanned"
  /\ \/ Decide([v EXCEPT !.delta = IF delta > v.full THEN delta ELSE 0]) /\ UNCHANGED failures
     \/ Decide(v) /\ Fail
  /\ try_count' = 0
  /\ UNCHANGED <<publishVars, sessionVars, version_, client, up, skipped>>

\* FullModelUpdate restores into a new session, warms it up ...
CreateModelSession ==
  /\ up
  /\ upd.pc = "full"
  /\ \/ /\ sess' = Append(sess, NewSession(Model(upd.v.dir, upd.v.full, 0)))
        /\ upd' = [upd EXCEPT !.pc = "swap"]
        /\ UNCHANGED failures
     \/ /\ Fail
        /\ upd' = Sleeping
        /\ UNCHANGED sess
  /\ UNCHANGED <<publishVars, serving, sessions_, version_, try_count, client, up, skipped>>

\* ... and lets it serve.  ResetServingSession has no lock for this.
SwapServing ==
  /\ up
  /\ upd.pc = "swap"
  /\ serving' = Len(sess)
  /\ upd' = [upd EXCEPT !.pc = "retire", !.old = serving]
  /\ skipped' = FALSE
  /\ UNCHANGED <<publishVars, sess, sessions_, version_, try_count, client, up, failures>>

\* Faulty variant: the replaced session is always deleted.
KeepsNone(s) == FALSE

InUse(s) == sess[s].counter_ > 0

\* The replaced session: kept if in use, else deleted.  The instance takes over the
\* version, with the delta that is restored next.
RetireOld ==
  LET s == upd.old IN
  /\ up
  /\ upd.pc = "retire"
  /\ IF InUse(s) THEN sessions_' = sessions_ \cup {s} /\ UNCHANGED sess
                 ELSE sess' = Deleted({s}) /\ UNCHANGED sessions_
  /\ version_' = upd.v
  /\ upd' = IF upd.v.delta = 0 THEN Sleeping ELSE [upd EXCEPT !.pc = "delta"]
  /\ UNCHANGED <<publishVars, serving, try_count, client, up, failures, skipped>>

\* DeltaModelUpdate: the restore runs on the session that serves, variable by
\* variable and with clients on it ...
DeltaBegin ==
  /\ up
  /\ upd.pc = "delta"
  /\ sess' = [sess EXCEPT ![serving].whole = FALSE]
  /\ upd' = [upd EXCEPT !.pc = "restoring"]
  /\ UNCHANGED <<publishVars, serving, sessions_, version_, try_count, client, up, failures, skipped>>

\* ... and when it fails on the way nothing is taken back.
DeltaEnd ==
  /\ up
  /\ upd.pc = "restoring"
  /\ upd' = Sleeping
  /\ \/ /\ sess' = [sess EXCEPT ![serving].whole = TRUE, ![serving].model.delta = upd.v.delta]
        /\ version_' = upd.v
        /\ skipped' = FALSE
        /\ UNCHANGED failures
     \/ /\ Fail
        /\ skipped' = (version_ = upd.v)
        /\ UNCHANGED <<sess, version_>>
  /\ UNCHANGED <<publishVars, serving, sessions_, try_count, client, up>>

-----------------------------------------------------------------------------
UpdaterNext ==
  \/ ScanFull \/ ScanFails \/ ScanDelta \/ CreateModelSession \/ SwapServing \/ RetireOld
  \/ DeltaBegin \/ DeltaEnd

ClientNext(c) == Enter(c) \/ Leave(c)

Next ==
  \/ Publish
  \/ \E c \in Clients : ReadServing(c) \/ ClientNext(c)
  \/ UpdaterNext
  \/ CleanupModelSession

\* The updater and the clearing thread are loops of threads of their own, and a
\* client that began a request finishes it.
Spec ==
  /\ Init /\ [][Next]_vars
  /\ WF_vars(UpdaterNext) /\ WF_vars(CleanupModelSession)
  /\ \A c \in Clients : WF_vars(ClientNext(c))

-----------------------------------------------------------------------------
\* A client that began to run on a session while it served never has it deleted
\* under it, by the updater or by the clearing thread.  (A client that was between
\* reading the pointer and counting itself when the session was replaced may.)
RunningSessionAlive ==
  up => \A c \in Clients : client[c].pc = "run" /\ ~client[c].late => sess[client[c].s].alive

\* Replaced sessions do not pile up: each is deleted in the end, although clients
\* come and go.
ReplacedSessionsDeleted ==
  \A s \in 1..(MaxPublished + 1) :
    (s \in sessions_) ~> (s \notin sessions_ \/ ~up)

ServesLatest ==
  /\ sess[serving].whole
  /\ sess[serving].model = Model(Latest, dirs[Latest].full,
                                 IF dirs[Latest].delta > dirs[Latest].full THEN dirs[Latest].delta ELSE 0)

\* Once the training stops the latest model is served, whatever failed on the way and
\* however the scans met the new checkpoints; except when the delta that came with
\* a new full model could not be restored.
LatestServedInTheEnd == <>[](up => ServesLatest \/ skipped)
=============================================================================
