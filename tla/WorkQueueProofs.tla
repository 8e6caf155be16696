--------------------------- MODULE WorkQueueProofs ---------------------------
(***************************************************************************)
(* Proofs about the work queue: no failover loses works, and a worker is   *)
(* told the end only after it took its earlier works again.                *)
(***************************************************************************)
EXTENDS WorkQueue, TLAPS

\* The copies of x in the queue and those handed out.
Accounted(x) == Copies(x, queue) + Copies(x, handed)

TakerStates == {"starting", "idle", "ready", "asleep", "got", "done"}

ServerTypeOK ==
  /\ exists \in BOOLEAN /\ is_closed \in BOOLEAN
  /\ IsABag(queue) /\ IsABag(handed)
  /\ chief \in {"down", "starting", "up"}
  /\ next_op \in 0..(NumEpochs + 2)
  /\ restore \in {"none", "pending", "done"}

WorkerTypeOK ==
  /\ taker \in [Workers -> TakerStates]
  /\ barrier \in [Workers -> BOOLEAN]
  /\ DOMAIN local = Workers /\ \A w \in Workers : IsABag(local[w])
  /\ DOMAIN files = Workers /\ DOMAIN restored = Workers
  /\ DOMAIN given = Workers /\ DOMAIN owed = Workers /\ DOMAIN clobbered = Workers

\* The checkpoint accounts for every work of every epoch: it is only taken of a
\* queue that the chief filled and closed.
CkptInv ==
  /\ restore = "pending" => chief = "starting" /\ ckpt # NoCkpt
  /\ ckpt # NoCkpt =>
       /\ IsABag(ckpt.works) /\ IsABag(ckpt.handed)
       /\ \A x \in Works : Copies(x, ckpt.works) + Copies(x, ckpt.handed) >= NumEpochs

\* How far the chief is with _create: the epochs it has put are accounted for,
\* unless the queue was closed, and then all of them are.
FillInv ==
  /\ chief = "starting" /\ next_op > 0 => exists
  /\ chief = "starting" /\ next_op > 0 /\ ~is_closed =>
       /\ next_op <= NumEpochs + 1
       /\ \A x \in Works : Accounted(x) >= next_op - 1
  /\ chief = "up" /\ exists => is_closed
  /\ is_closed => exists

\* The works of w in S, but for those whose file was lost, are in T.
Kept(w, S, T) == \A x \in S : x \in T \/ Slice(x) \in clobbered[w]

\* What a worker was given is in its files; what its process owes of it was in the
\* files it restored.
FilesInv ==
  \A w \in Workers : Kept(w, given[w], files[w]) /\ Kept(w, owed[w], restored[w])

\* What is owed waits in the local queue once the barrier is down, and a remote
\* take finds that queue empty.
LocalInv ==
  \A w \in Workers :
    /\ taker[w] \in {"ready", "asleep", "got", "done"} =>
         ~barrier[w] /\ local[w] = EmptyBag
    /\ taker[w] # "starting" /\ ~barrier[w] => Kept(w, owed[w], BagToSet(local[w]))

ServerInv == ServerTypeOK /\ CkptInv /\ FillInv /\ NoWorkLost
WorkerInv == WorkerTypeOK /\ FilesInv /\ LocalInv
IInv == ServerInv /\ WorkerInv

-----------------------------------------------------------------------------
(* Bags. *)

LEMMA BagUnionCopies ==
  ASSUME NEW A, NEW B, IsABag(A), IsABag(B)
  PROVE  /\ IsABag(A (+) B)
         /\ BagToSet(A (+) B) = BagToSet(A) \cup BagToSet(B)
         /\ \A x : Copies(x, A (+) B) = Copies(x, A) + Copies(x, B)
BY DEF IsABag, BagToSet, BagIn, Copies, (+)

LEMMA SetBag ==
  ASSUME NEW S
  PROVE  /\ IsABag(SetToBag(S))
         /\ BagToSet(SetToBag(S)) = S
         /\ \A x : Copies(x, SetToBag(S)) = IF x \in S THEN 1 ELSE 0
BY DEF IsABag, BagToSet, BagIn, Copies, SetToBag

LEMMA EmptyBagCopies ==
  /\ IsABag(EmptyBag) /\ BagToSet(EmptyBag) = {}
  /\ \A x : Copies(x, EmptyBag) = 0
BY SetBag DEF EmptyBag

\* One copy of an element is removed, and nothing else.
LEMMA RemoveOne ==
  ASSUME NEW A, IsABag(A), NEW e \in BagToSet(A)
  PROVE  /\ IsABag(A (-) One(e))
         /\ BagToSet(A) \ {e} \subseteq BagToSet(A (-) One(e))
         /\ \A x : Copies(x, A (-) One(e)) = Copies(x, A) - Copies(x, One(e))
BY DEF IsABag, BagToSet, BagIn, Copies, (-), One, SetToBag
-----------------------------------------------------------------------------
LEMMA InitIInv == Init => IInv
<1> SUFFICES ASSUME Init PROVE IInv
  OBVIOUS
<1> USE WorkQueueAssumption DEF Init
<1>1. ServerTypeOK /\ WorkerTypeOK
  <2>1. ServerTypeOK
    <3>1. IsABag(queue) /\ IsABag(handed)
      BY EmptyBagCopies, Zenon
    <3>2. exists \in BOOLEAN /\ is_closed \in BOOLEAN
      OBVIOUS
    <3>3. next_op \in 0..(NumEpochs + 2)
      OBVIOUS
    <3>4. chief \in {"down", "starting", "up"} /\ restore \in {"none", "pending", "done"}
      OBVIOUS
    <3> QED BY <3>1, <3>2, <3>3, <3>4 DEF ServerTypeOK
  <2>2. DOMAIN local = Workers /\ \A w \in Workers : local[w] = EmptyBag
    OBVIOUS
  <2>3. WorkerTypeOK
    BY <2>2, EmptyBagCopies DEF WorkerTypeOK, TakerStates
  <2> QED BY <2>1, <2>3
<1>2. CkptInv /\ FillInv /\ NoWorkLost
  BY DEF CkptInv, FillInv, NoWorkLost
<1>3. FilesInv /\ LocalInv
  BY DEF FilesInv, LocalInv, Kept
<1> QED BY <1>1, <1>2, <1>3 DEF IInv, ServerInv, WorkerInv

\* A work that is popped moves from the queue to the works handed out.
LEMMA PopAccounted ==
  ASSUME IsABag(queue), IsABag(handed), NEW e, Pop(e)
  PROVE  /\ IsABag(queue') /\ IsABag(handed')
         /\ \A x : Accounted(x)' = Accounted(x)
<1>1. IsABag(One(e)) /\ \A x : Copies(x, One(e)) \in Nat
  BY SetBag DEF One
<1>2. IsABag(queue') /\ \A x : Copies(x, queue') = Copies(x, queue) - Copies(x, One(e))
  BY RemoveOne DEF Pop
<1>3. IsABag(handed') /\ \A x : Copies(x, handed') = Copies(x, handed) + Copies(x, One(e))
  BY <1>1, BagUnionCopies DEF Pop
<1>4. \A x : Copies(x, queue) \in Nat /\ Copies(x, handed) \in Nat
  BY DEF IsABag, Copies, BagIn, BagToSet
<1> QED BY <1>1, <1>2, <1>3, <1>4 DEF Accounted

\* An epoch put into an open queue.
LEMMA PutAccounted ==
  ASSUME IsABag(queue), IsABag(handed), queue' = queue (+) SetToBag(Works), handed' = handed
  PROVE  /\ IsABag(queue')
         /\ \A x \in Works : Accounted(x)' = Accounted(x) + 1
<1>1. IsABag(queue') /\ \A x \in Works : Copies(x, queue') = Copies(x, queue) + 1
  BY SetBag, BagUnionCopies
<1>2. \A x : Copies(x, queue) \in Nat /\ Copies(x, handed) \in Nat
  BY DEF IsABag, Copies, BagIn, BagToSet
<1> QED BY <1>1, <1>2 DEF Accounted

LEMMA AccountedNat ==
  ASSUME IsABag(queue), IsABag(handed)
  PROVE  \A x : Accounted(x) \in Nat
BY DEF Accounted, IsABag, Copies, BagIn, BagToSet

-----------------------------------------------------------------------------
(* The server and the chief. *)

\* What the works of the queue depend on.
fillVars == <<serverVars, chiefVars>>

LEMMA ServerStutter ==
  ASSUME ServerInv, UNCHANGED fillVars
  PROVE  ServerInv'
BY DEF ServerInv, ServerTypeOK, fillVars, serverVars, chiefVars, CkptInv, FillInv, NoWorkLost, Accounted, Copies, BagIn, BagToSet, IsABag

\* Steps of the chief and of its hooks.
LEMMA ServerNextChief ==
  ASSUME ServerInv, ChiefNext \/ Save \/ ChiefFails \/ ServerFails
  PROVE  ServerInv'
<1> USE WorkQueueAssumption
<1>a. NumEpochs \in Nat /\ NumEpochs > 0
  OBVIOUS
<1>b. \A x : Accounted(x) \in Nat
  BY AccountedNat DEF ServerInv, ServerTypeOK
<1>1. CASE ChiefStart
  BY <1>1, <1>a DEF ChiefStart, serverVars, ServerInv, ServerTypeOK, CkptInv, FillInv, NoWorkLost, Accounted
<1>2. CASE Create
  BY <1>2, <1>a, <1>b DEF Create, NextOp, ServerInv, ServerTypeOK, CkptInv, FillInv, NoWorkLost, Accounted
<1>3. CASE Put
  <2> PICK n \in 1..NumEpochs : NextOp(n)
    BY <1>3 DEF Put
  <2>1. CASE is_closed
    BY <1>3, <2>1, <1>a DEF Put, NextOp, ServerInv, ServerTypeOK, CkptInv, FillInv, NoWorkLost, Accounted
  <2>2. CASE ~is_closed
    <3>1. IsABag(queue') /\ \A x \in Works : Accounted(x)' = Accounted(x) + 1
      BY <1>3, <2>2, PutAccounted DEF Put, ServerInv, ServerTypeOK
    <3> HIDE DEF Accounted
    <3>2. FillInv'
      BY <1>3, <1>a, <1>b, <2>2, <3>1 DEF Put, NextOp, ServerInv, ServerTypeOK, FillInv
    <3> QED
      BY <1>3, <1>a, <1>b, <2>2, <3>1, <3>2 DEF Put, NextOp, ServerInv, ServerTypeOK, CkptInv, NoWorkLost
  <2> QED BY <2>1, <2>2 DEF ServerInv, ServerTypeOK
<1>4. CASE Close
  <2>1. chief = "starting" /\ next_op = NumEpochs + 1
    BY <1>4 DEF Close, NextOp
  <2>2. exists /\ \A x \in Works : Accounted(x) >= NumEpochs
    BY <1>a, <1>b, <2>1 DEF ServerInv, ServerTypeOK, FillInv, NoWorkLost, Accounted
  <2> QED
    BY <1>4, <1>a, <2>1, <2>2 DEF Close, NextOp, ServerInv, ServerTypeOK, CkptInv, FillInv, NoWorkLost, Accounted
<1>5. CASE Restore
  <2>1. \A x \in Works : Accounted(x)' >= NumEpochs
    BY <1>5 DEF Restore, ServerInv, ServerTypeOK, CkptInv, Accounted
  <2>2. IsABag(queue') /\ IsABag(handed') /\ \A x : Accounted(x)' \in Nat
    BY <1>5 DEF Restore, ServerInv, ServerTypeOK, CkptInv, Accounted, IsABag, Copies, BagIn, BagToSet
  <2>3. FillInv'
    BY <1>5, <1>a, <2>1, <2>2 DEF Restore, ServerInv, ServerTypeOK, FillInv
  <2> QED
    BY <1>5, <2>1, <2>2, <2>3 DEF Restore, ServerInv, ServerTypeOK, CkptInv, NoWorkLost, Accounted
<1>6. CASE RestoreNotFound \/ ChiefFails
  BY <1>6, <1>a DEF RestoreNotFound, ChiefFails, ChiefDown, serverVars, ServerInv, ServerTypeOK, CkptInv,
                    FillInv, NoWorkLost, Accounted
<1>7. CASE SessionCreated
  BY <1>7, <1>a DEF SessionCreated, serverVars, ServerInv, ServerTypeOK, CkptInv, FillInv, NoWorkLost, Accounted
<1>8. CASE Save
  <2>1. \A x \in Works : Copies(x, queue) + Copies(x, handed) >= NumEpochs
    BY <1>8 DEF Save, ServerInv, ServerTypeOK, FillInv, NoWorkLost
  <2>2. ckpt'.works = queue /\ ckpt'.handed = handed
    BY <1>8 DEF Save
  <2>3. CkptInv'
    BY <1>8, <2>1, <2>2 DEF Save, ServerInv, ServerTypeOK, CkptInv
  <2> QED
    BY <1>8, <2>3 DEF Save, serverVars, ServerInv, ServerTypeOK, FillInv, NoWorkLost, Accounted
<1>9. CASE ServerFails
  <2>1. ServerTypeOK'
    <3>1. queue' = EmptyBag /\ handed' = EmptyBag
      BY <1>9 DEF ServerFails
    <3>2. IsABag(queue') /\ IsABag(handed')
      BY <3>1, EmptyBagCopies, Zenon
    <3>3. exists' \in BOOLEAN /\ is_closed' \in BOOLEAN
      BY <1>9 DEF ServerFails
    <3>4. /\ next_op' \in 0..(NumEpochs + 2)
          /\ chief' \in {"down", "starting", "up"} /\ restore' \in {"none", "pending", "done"}
      BY <1>9, <1>a DEF ServerFails, ChiefDown
    <3> QED BY <3>2, <3>3, <3>4 DEF ServerTypeOK
  <2>2. CkptInv' /\ FillInv' /\ NoWorkLost'
    BY <1>9, <1>a DEF ServerFails, ChiefDown, ServerInv, ServerTypeOK, CkptInv, FillInv, NoWorkLost
  <2> QED BY <2>1, <2>2 DEF ServerInv
<1> QED BY <1>1, <1>2, <1>3, <1>4, <1>5, <1>6, <1>7, <1>8, <1>9 DEF ChiefNext

\* Steps of takers leave the works accounted for.
LEMMA ServerNextPop ==
  ASSUME ServerInv, NEW e, Pop(e), UNCHANGED chiefVars
  PROVE  ServerInv'
<1>1. IsABag(queue') /\ IsABag(handed') /\ \A x : Accounted(x)' = Accounted(x)
  BY PopAccounted DEF ServerInv, ServerTypeOK
<1>2. CkptInv' /\ FillInv'
  BY <1>1 DEF ServerInv, ServerTypeOK, Pop, chiefVars, CkptInv, FillInv
<1>3. NoWorkLost'
  BY <1>1 DEF ServerInv, ServerTypeOK, Pop, NoWorkLost, Accounted
<1> QED BY <1>1, <1>2, <1>3 DEF ServerInv, ServerTypeOK, Pop, chiefVars

LEMMA ServerNext ==
  ASSUME ServerInv, [Next]_vars
  PROVE  ServerInv'
<1>1. CASE ChiefNext \/ Save \/ ChiefFails \/ ServerFails
  BY <1>1, ServerNextChief
<1>2. ASSUME NEW w \in Workers, TakeWork(w) PROVE ServerInv'
  BY <1>2, ServerNextPop DEF TakeWork
<1>3. ASSUME NEW w \in Workers,
             \/ SessionReady(w) \/ AfterCreateSession(w) \/ LocalTake(w) \/ RemoteTake(w)
             \/ TakeOutOfRange(w) \/ TakeWait(w) \/ SaveLocalWork(w) \/ WorkerFails(w)
      PROVE ServerInv'
  <2>1. UNCHANGED fillVars
    BY <1>3 DEF fillVars, SessionReady, AfterCreateSession, LocalTake, RemoteTake, TakeOutOfRange,
                TakeWait, SaveLocalWork, WorkerFails
  <2> QED BY <2>1, ServerStutter
<1>4. CASE OrphanTake
  <2>1. CASE \E x \in Works : Pop(x)
    BY <1>4, <2>1, ServerNextPop DEF OrphanTake
  <2>2. CASE UNCHANGED serverVars
    BY <1>4, <2>2, ServerStutter DEF OrphanTake, fillVars
  <2> QED BY <1>4, <2>1, <2>2 DEF OrphanTake
<1>5. CASE UNCHANGED vars
  BY <1>5, ServerStutter DEF vars, fillVars
<1> QED BY <1>1, <1>2, <1>3, <1>4, <1>5 DEF Next, TakerNext
-----------------------------------------------------------------------------
(* The workers. *)

workerVars == <<taker, barrier, local, files, restored, historyVars>>

LEMMA WorkerStutter ==
  ASSUME WorkerInv, UNCHANGED workerVars
  PROVE  WorkerInv'
BY DEF WorkerInv, workerVars, historyVars, WorkerTypeOK, FilesInv, LocalInv, Kept, IsABag, BagToSet

\* Waking the waiting takers up.
LEMMA WorkerNotified ==
  ASSUME WorkerInv, taker' = Notified, UNCHANGED localVars
  PROVE  WorkerInv'
<1>1. WorkerTypeOK'
  BY DEF WorkerInv, WorkerTypeOK, TakerStates, Notified, localVars, historyVars, IsABag
<1>2. FilesInv' /\ LocalInv'
  BY DEF WorkerInv, WorkerTypeOK, FilesInv, LocalInv, Kept, Notified, localVars, historyVars, BagToSet
<1> QED BY <1>1, <1>2 DEF WorkerInv

\* A work that a write of the files loses is clobbered.
LEMMA FilesWritten ==
  ASSUME WorkerTypeOK, FilesInv, NEW w \in Workers, NEW fs, WriteFiles(w, fs)
  PROVE  /\ DOMAIN files' = Workers /\ DOMAIN clobbered' = Workers
         /\ \A v \in Workers : clobbered[v] \subseteq clobbered'[v]
         /\ files'[w] = fs
         /\ \A x \in given[w] : x \in fs \/ Slice(x) \in clobbered'[w]
<1>0. DOMAIN files = Workers /\ DOMAIN clobbered = Workers
  BY DEF WorkerTypeOK
<1>1. /\ files' = [files EXCEPT ![w] = fs]
      /\ clobbered' = [clobbered EXCEPT ![w] = @ \cup {Slice(y) : y \in files[w] \ fs}]
  BY DEF WriteFiles
<1>2. /\ DOMAIN files' = Workers /\ DOMAIN clobbered' = Workers
      /\ \A v \in Workers : clobbered[v] \subseteq clobbered'[v]
      /\ files'[w] = fs
      /\ \A v \in Workers \ {w} : files'[v] = files[v]
      /\ \A x \in files[w] : x \in fs \/ Slice(x) \in clobbered'[w]
  BY <1>0, <1>1
<1>3. \A x \in given[w] : x \in fs \/ Slice(x) \in clobbered'[w]
  BY <1>2 DEF FilesInv, Kept
<1> QED BY <1>2, <1>3

LEMMA WorkerNextTaker ==
  ASSUME WorkerInv, NEW w \in Workers, TakerNext(w) \/ WorkerFails(w)
  PROVE  WorkerInv'
<1> USE DEF WorkerInv, TakerStates
<1>0. /\ taker \in [Workers -> TakerStates] /\ barrier \in [Workers -> BOOLEAN]
      /\ DOMAIN local = Workers /\ DOMAIN restored = Workers /\ DOMAIN files = Workers
      /\ DOMAIN given = Workers /\ DOMAIN owed = Workers /\ DOMAIN clobbered = Workers
      /\ \A v \in Workers : IsABag(local[v])
  BY DEF WorkerTypeOK
<1>1. CASE SessionReady(w)
  <2>0. UNCHANGED <<files, restored, local, given, owed, clobbered>>
    BY <1>1 DEF SessionReady, historyVars
  <2>1. WorkerTypeOK'
    BY <1>1, <1>0, <2>0 DEF SessionReady, WorkerTypeOK, IsABag
  <2>2. FilesInv'
    BY <2>0 DEF FilesInv, Kept
  <2>3. LocalInv'
    BY <1>1, <1>0, <2>0 DEF SessionReady, FilesInv, LocalInv, Kept, BagToSet
  <2> QED BY <2>1, <2>2, <2>3
<1>2. CASE AfterCreateSession(w)
  <2> PICK filled : filled = local[w] (+) SetToBag(restored[w])
    OBVIOUS
  <2>1. IsABag(filled) /\ restored[w] \subseteq BagToSet(filled)
    BY <1>0, SetBag, BagUnionCopies
  <2>2. /\ local' = [local EXCEPT ![w] = filled]
        /\ barrier' = [barrier EXCEPT ![w] = FALSE]
        /\ barrier[w]
        /\ UNCHANGED <<taker, files, restored, given, owed, clobbered>>
    BY <1>2 DEF AfterCreateSession, takerVars, historyVars
  <2>3. WorkerTypeOK'
    BY <1>0, <2>1, <2>2 DEF WorkerTypeOK
  <2>4. FilesInv'
    BY <2>2 DEF FilesInv, Kept
  <2>5. LocalInv'
    BY <1>0, <2>1, <2>2 DEF FilesInv, LocalInv, Kept
  <2> QED BY <2>3, <2>4, <2>5
<1>3. CASE LocalTake(w)
  <2> PICK x \in BagToSet(local[w]) :
             /\ local' = [local EXCEPT ![w] = @ (-) One(x)]
             /\ owed' = [owed EXCEPT ![w] = @ \ {x}]
    BY <1>3 DEF LocalTake
  <2> PICK rest : rest = local[w] (-) One(x)
    OBVIOUS
  <2>1. IsABag(rest) /\ BagToSet(local[w]) \ {x} \subseteq BagToSet(rest)
    BY <1>0, RemoveOne
  <2>2. /\ local' = [local EXCEPT ![w] = rest]
        /\ taker[w] = "idle" /\ ~barrier[w]
        /\ UNCHANGED <<taker, files, restored, barrier, given, clobbered>>
    BY <1>3 DEF LocalTake, takerVars
  <2>3. WorkerTypeOK'
    BY <1>0, <2>1, <2>2 DEF WorkerTypeOK
  <2>4. FilesInv'
    BY <1>0, <2>2 DEF FilesInv, Kept
  <2>5. LocalInv'
    BY <1>0, <2>1, <2>2 DEF LocalInv, Kept
  <2> QED BY <2>3, <2>4, <2>5
<1>4. CASE RemoteTake(w)
  <2>0. UNCHANGED <<barrier, files, restored, local, given, owed, clobbered>>
    BY <1>4 DEF RemoteTake, localVars, historyVars
  <2>1. WorkerTypeOK'
    BY <1>4, <1>0, <2>0 DEF RemoteTake, WorkerTypeOK, IsABag
  <2>2. FilesInv'
    BY <2>0 DEF FilesInv, Kept
  <2>3. LocalInv'
    BY <1>4, <1>0, <2>0 DEF RemoteTake, LocalInv, Kept, BagToSet
  <2> QED BY <2>1, <2>2, <2>3
<1>5. CASE TakeWork(w) \/ TakeOutOfRange(w) \/ TakeWait(w)
  <2>1. /\ taker[w] = "ready"
        /\ \E t \in {"got", "done", "asleep"} : taker' = [taker EXCEPT ![w] = t]
        /\ UNCHANGED <<barrier, files, restored, local, given, owed, clobbered>>
    BY <1>5 DEF TakeWork, TakeOutOfRange, TakeWait, localVars, historyVars
  <2>2. WorkerTypeOK'
    BY <1>0, <2>1 DEF WorkerTypeOK, IsABag
  <2>3. FilesInv'
    BY <2>1 DEF FilesInv, Kept
  <2>4. LocalInv'
    BY <1>0, <2>1 DEF LocalInv, Kept, BagToSet
  <2> QED BY <2>2, <2>3, <2>4
<1>6. CASE SaveLocalWork(w)
  <2> PICK g : g = IF w \in LocalWorkers THEN got[w] ELSE {}
    OBVIOUS
  <2>1. /\ taker[w] = "got" /\ taker' = [taker EXCEPT ![w] = "idle"]
        /\ given' = [given EXCEPT ![w] = @ \cup g]
        /\ UNCHANGED <<barrier, restored, local, owed>>
        /\ WriteFiles(w, Saved(w)) /\ g \subseteq Saved(w)
    BY <1>6 DEF SaveLocalWork, Saved
  <2>2. /\ DOMAIN files' = Workers /\ DOMAIN clobbered' = Workers
        /\ \A v \in Workers : clobbered[v] \subseteq clobbered'[v]
        /\ files'[w] = Saved(w)
        /\ \A x \in given[w] : x \in Saved(w) \/ Slice(x) \in clobbered'[w]
    BY <2>1, FilesWritten
  <2>3. WorkerTypeOK'
    BY <1>0, <2>1, <2>2 DEF WorkerTypeOK, IsABag
  <2>4. \A v \in Workers \ {w} : files'[v] = files[v] /\ given'[v] = given[v]
    BY <1>0, <2>1 DEF WriteFiles
  <2>5. FilesInv'
    BY <1>0, <2>1, <2>2, <2>4 DEF FilesInv, Kept
  <2>6. LocalInv'
    BY <1>0, <2>1, <2>2 DEF LocalInv, Kept, BagToSet
  <2> QED BY <2>3, <2>5, <2>6
<1>7. CASE WorkerFails(w)
  <2>1. PICK fs : WriteFiles(w, fs) /\ restored' = [restored EXCEPT ![w] = fs]
    BY <1>7 DEF WorkerFails
  <2>2. /\ taker' = [taker EXCEPT ![w] = "starting"]
        /\ local' = [local EXCEPT ![w] = EmptyBag]
        /\ barrier' = [barrier EXCEPT ![w] = FALSE]
        /\ owed' = [owed EXCEPT ![w] = given[w]]
        /\ UNCHANGED given
    BY <1>7 DEF WorkerFails
  <2>3. /\ DOMAIN files' = Workers /\ DOMAIN clobbered' = Workers
        /\ \A v \in Workers : clobbered[v] \subseteq clobbered'[v]
        /\ files'[w] = fs
        /\ \A x \in given[w] : x \in fs \/ Slice(x) \in clobbered'[w]
    BY <2>1, FilesWritten
  <2>4. WorkerTypeOK'
    BY <1>0, <2>1, <2>2, <2>3, EmptyBagCopies DEF WorkerTypeOK
  <2>5. \A v \in Workers \ {w} : files'[v] = files[v]
    BY <1>0, <2>1 DEF WriteFiles
  <2>6. FilesInv'
    BY <1>0, <2>1, <2>2, <2>3, <2>5 DEF FilesInv, Kept
  <2>7. LocalInv'
    BY <1>0, <2>2, <2>3 DEF LocalInv, Kept, BagToSet
  <2> QED BY <2>4, <2>6, <2>7
<1> QED BY <1>1, <1>2, <1>3, <1>4, <1>5, <1>6, <1>7 DEF TakerNext

LEMMA WorkerNext ==
  ASSUME WorkerInv, [Next]_vars
  PROVE  WorkerInv'
<1>1. CASE Put \/ Restore
  BY <1>1, WorkerNotified DEF Put, Restore
<1>2. CASE Close
  <2>1. CASE is_closed
    BY <1>2, <2>1, WorkerStutter DEF Close, workerVars, localVars
  <2>2. CASE ~is_closed
    BY <1>2, <2>2, WorkerNotified DEF Close
  <2> QED BY <2>1, <2>2
<1>3. CASE ChiefStart \/ Create \/ RestoreNotFound \/ SessionCreated \/ Save \/ OrphanTake
           \/ ChiefFails \/ UNCHANGED vars
  <2>1. UNCHANGED workerVars
    BY <1>3 DEF workerVars, vars, takerVars, localVars, ChiefStart, Create, RestoreNotFound,
                SessionCreated, Save, OrphanTake, ChiefFails
  <2> QED BY <2>1, WorkerStutter
<1>4. CASE ServerFails
  <2>0. UNCHANGED <<barrier, files, restored, local, given, owed, clobbered>>
    BY <1>4 DEF ServerFails, localVars, historyVars
  <2>1. WorkerTypeOK'
    BY <1>4, <2>0 DEF ServerFails, WorkerInv, WorkerTypeOK, TakerStates, IsABag
  <2>2. FilesInv'
    BY <2>0 DEF WorkerInv, FilesInv, Kept
  <2>3. LocalInv'
    BY <1>4, <2>0 DEF ServerFails, WorkerInv, WorkerTypeOK, TakerStates, LocalInv, Kept, BagToSet
  <2> QED BY <2>1, <2>2, <2>3 DEF WorkerInv
<1>5. ASSUME NEW w \in Workers, TakerNext(w) \/ WorkerFails(w) PROVE WorkerInv'
  BY <1>5, WorkerNextTaker
<1> QED BY <1>1, <1>2, <1>3, <1>4, <1>5 DEF Next, ChiefNext

-----------------------------------------------------------------------------
\* The inductive invariant holds in every reachable state (all of
\* work_queue_ops.cc and the hooks of work_queue.py).
THEOREM InductiveInvariant == Spec => []IInv
<1>1. Init => IInv
  BY InitIInv
<1>2. IInv /\ [Next]_vars => IInv'
  BY ServerNext, WorkerNext DEF IInv
<1> QED BY <1>1, <1>2, PTL DEF Spec

\* No failover loses works: those of every epoch are in the closed queue or were
\* handed out, whatever the number of failures (Put, Close, Restore and Save of
\* work_queue_ops.cc).
THEOREM FailoverLosesNoWork == Spec => []NoWorkLost
<1>1. IInv => NoWorkLost
  BY DEF IInv, ServerInv
<1> QED BY <1>1, InductiveInvariant, PTL

\* A worker is told the end only after it took again what its earlier processes
\* were given, unless its file was lost to another table's range or to a death
\* while it was written (SaveLocalWorkOp, restore_works_barrier and take).
THEOREM RestoredFirst == Spec => []RestoredWorksTakenFirst
<1>1. IInv => RestoredWorksTakenFirst
  BY EmptyBagCopies DEF IInv, WorkerInv, LocalInv, Kept, RestoredWorksTakenFirst
<1> QED BY <1>1, InductiveInvariant, PTL
=============================================================================
