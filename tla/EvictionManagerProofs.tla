------------------------ MODULE EvictionManagerProofs ------------------------
(***************************************************************************)
(* Proofs about the EvictionManager: the number of loops, the entries of   *)
(* live storages, and that no eviction begins on a destroyed one.          *)
(***************************************************************************)
EXTENDS EvictionManager, FiniteSetTheorems, TLAPS

\* The loops that run.
Active == {t \in Loops : lpc[t] # "none"}

\* num_of_active_threads_ counts them.
ActiveInv == num_of_active_threads_ = Cardinality(Active)

\* A loop inside of a pass holds mu_, and the storage it visits has an entry.
MutexInv ==
  \A t \in Loops :
    /\ lpc[t] \in {"next", "occupied", "evict"} => mu_ = t
    /\ lpc[t] \in {"occupied", "evict"} => lpos[t] \in Table

\* Item i has to do with address a: it is its entry, was made for its storage, or
\* its DeleteStorage works on it.
ItemOf(i, a) ==
  \/ own[a] = i \/ ditem[a] = i
  \/ a \in Table /\ storage_table_[a] = i

\* An item belongs to one address, and no item is used before it is made.
ItemInv ==
  /\ \A i \in Items : \A a, b \in Addresses : ItemOf(i, a) /\ ItemOf(i, b) => a = b
  /\ \A i \in Items : \A a \in Addresses : ItemOf(i, a) => i <= created
  /\ \A i \in Items : i > created => ~is_deleted[i]

\* DeleteStorage runs on storages being destroyed, and on the entry in the table.
DeleteInv ==
  \A a \in Addresses :
    /\ life[a] = "deleting" <=> dpc[a] # "none"
    /\ dpc[a] # "none" => ditem[a] \in Items
    /\ dpc[a] # "none" /\ a \in Table => storage_table_[a] = ditem[a]
    /\ dpc[a] = "return" => is_deleted[ditem[a]]

\* A live storage's own entry is in place and not deleted; the entry left behind
\* by a destroyed storage is deleted.
EntryInv ==
  \A a \in Addresses :
    /\ life[a] = "live" /\ own[a] # NoItem =>
         a \in Table /\ storage_table_[a] = own[a] /\ ~is_deleted[own[a]]
    /\ life[a] = "free" /\ a \in Table => is_deleted[storage_table_[a]]

IInv == TypeOK /\ ActiveInv /\ MutexInv /\ ItemInv /\ DeleteInv /\ EntryInv

-----------------------------------------------------------------------------
\* The loops that run are finitely many.
LEMMA ActiveFinite == IsFiniteSet(Active) /\ Cardinality(Active) \in Nat
<1>1. Active \in SUBSET Loops
  BY DEF Active
<1> QED BY <1>1, LoopsAssumption, FS_Subset, FS_CardinalityType

LEMMA InitIInv == Init => IInv
<1> SUFFICES ASSUME Init PROVE IInv
  OBVIOUS
<1> USE LoopsAssumption, MaxStoragesAssumption DEF Init, Table, Items, NoItem
<1>1. TypeOK
  <2>1. DOMAIN storage_table_ = {}
    OBVIOUS
  <2>2. /\ num_of_active_threads_ \in 0..NumOfThreads /\ created \in 0..MaxStorages
        /\ is_occupied \in [1..MaxStorages -> BOOLEAN]
        /\ is_deleted \in [1..MaxStorages -> BOOLEAN]
    OBVIOUS
  <2> QED BY <2>1, <2>2 DEF TypeOK
<1>2. ActiveInv
  <2>1. Active = {}
    BY DEF Active
  <2> QED BY <2>1, FS_EmptySet DEF ActiveInv
<1>3. MutexInv /\ ItemInv /\ DeleteInv /\ EntryInv
  BY DEF MutexInv, ItemInv, ItemOf, DeleteInv, EntryInv
<1> QED BY <1>1, <1>2, <1>3 DEF IInv

-----------------------------------------------------------------------------
(* One lemma per action.                                                   *)

\* A loop is started: one more is counted, if there is room for it.
LEMMA StartThreadCounts ==
  ASSUME IInv, NEW t \in Loops, StartThread(t)
  PROVE  /\ ActiveInv'
         /\ num_of_active_threads_' \in 0..NumOfThreads
         /\ lpc' \in [Loops -> {"none", "check", "exit", "lock", "next", "occupied", "evict"}]
         /\ \A u \in Loops : lpc'[u] = lpc[u] \/ lpc'[u] = "check"
<1> USE LoopsAssumption DEF IInv, TypeOK, StartThread
<1>1. CASE num_of_active_threads_ < NumOfThreads
  <2>1. Active' = Active \cup {t} /\ t \notin Active
    BY <1>1 DEF Active
  <2>2. Cardinality(Active') = Cardinality(Active) + 1
    BY <2>1, ActiveFinite, FS_AddElement
  <2> QED BY <1>1, <2>2, ActiveFinite DEF ActiveInv
<1>2. CASE ~(num_of_active_threads_ < NumOfThreads)
  BY <1>2 DEF ActiveInv, Active
<1> QED BY <1>1, <1>2

\* AddStorage: the new storage gets an item nobody has used, or finds the deleted
\* entry of its address.
LEMMA AddStorageStep ==
  ASSUME IInv, NEW a \in Addresses, NEW t \in Loops, AddStorage(a, t) PROVE IInv'
<1> USE LoopsAssumption, MaxStoragesAssumption
    DEF AddStorage, Table, Items, NoItem, itemVars, deleteVars
<1>1. CASE a \notin Table
  <2> DEFINE n == created + 1
  <2>0. n \in Items /\ n > created
    BY DEF IInv, TypeOK
  <2>1. /\ ActiveInv' /\ num_of_active_threads_' \in 0..NumOfThreads
        /\ lpc' \in [Loops -> {"none", "check", "exit", "lock", "next", "occupied", "evict"}]
        /\ \A u \in Loops : lpc'[u] = lpc[u] \/ lpc'[u] = "check"
    BY <1>1, StartThreadCounts
  <2>2. /\ DOMAIN storage_table_' = DOMAIN storage_table_ \cup {a}
        /\ storage_table_'[a] = n
        /\ \A b \in DOMAIN storage_table_ : storage_table_'[b] = storage_table_[b]
    BY <1>1
  <2>3. own' = [own EXCEPT ![a] = n]
    BY <1>1
  <2>4. TypeOK'
    BY <2>0, <2>1, <2>2, <2>3 DEF IInv, TypeOK
  <2>5. MutexInv'
    BY <2>1, <2>2 DEF IInv, MutexInv
  <2>6. ItemInv'
    BY <1>1, <2>0, <2>2, <2>3 DEF IInv, TypeOK, ItemInv, ItemOf, DeleteInv
  <2>7. DeleteInv'
    BY <1>1, <2>2 DEF IInv, TypeOK, DeleteInv
  <2>8. EntryInv'
    BY <1>1, <2>0, <2>2, <2>3 DEF IInv, TypeOK, EntryInv, ItemInv
  <2> QED BY <2>1, <2>4, <2>5, <2>6, <2>7, <2>8 DEF IInv
<1>2. CASE a \in Table
  <2>1. own' = [own EXCEPT ![a] = 0] /\ UNCHANGED <<storage_table_, num_of_active_threads_, lpc>>
    BY <1>2
  <2>2. TypeOK'
    BY <2>1 DEF IInv, TypeOK
  <2>3. ActiveInv' /\ MutexInv'
    BY <2>1 DEF IInv, ActiveInv, Active, MutexInv
  <2>4. ItemInv'
    BY <2>1 DEF IInv, TypeOK, ItemInv, ItemOf
  <2>5. DeleteInv' /\ EntryInv'
    BY <2>1 DEF IInv, TypeOK, DeleteInv, EntryInv
  <2> QED BY <2>2, <2>3, <2>4, <2>5 DEF IInv
<1> QED BY <1>1, <1>2

\* DeleteStorage finds the entry of its storage.
LEMMA DeleteStorageStep ==
  ASSUME IInv, NEW a \in Addresses, DeleteStorage(a) PROVE IInv'
<1> USE LoopsAssumption, MaxStoragesAssumption
    DEF IInv, DeleteStorage, Table, Items, NoItem, itemVars, loopVars
<1>1. TypeOK'
  BY DEF TypeOK
<1>2. ActiveInv' /\ MutexInv'
  BY DEF ActiveInv, Active, MutexInv
<1>3. ItemInv'
  BY DEF TypeOK, ItemInv, ItemOf
<1>4. DeleteInv' /\ EntryInv'
  BY DEF TypeOK, DeleteInv, EntryInv
<1> QED BY <1>1, <1>2, <1>3, <1>4

LEMMA DeleteCompareAndSwapStep ==
  ASSUME IInv, NEW a \in Addresses, DeleteCompareAndSwap(a) PROVE IInv'
<1> USE LoopsAssumption, MaxStoragesAssumption
    DEF IInv, DeleteCompareAndSwap, Table, Items, NoItem, storageVars, loopVars
<1>1. TypeOK'
  BY DEF TypeOK
<1>2. ActiveInv' /\ MutexInv'
  BY DEF ActiveInv, Active, MutexInv
<1>3. ItemInv'
  BY DEF TypeOK, ItemInv, ItemOf
<1>4. DeleteInv' /\ EntryInv'
  BY DEF TypeOK, DeleteInv, EntryInv
<1> QED BY <1>1, <1>2, <1>3, <1>4

\* The item marked belongs to the address of the storage being destroyed, so no
\* other storage's entry is.
LEMMA DeleteMarkStep ==
  ASSUME IInv, NEW a \in Addresses, DeleteMark(a) PROVE IInv'
<1> USE LoopsAssumption, MaxStoragesAssumption
    DEF IInv, DeleteMark, Table, Items, NoItem, storageVars, loopVars
<1>0. ditem[a] \in Items /\ ItemOf(ditem[a], a) /\ life[a] = "deleting"
  BY DEF DeleteInv, ItemOf
<1>1. TypeOK'
  BY <1>0 DEF TypeOK
<1>2. ActiveInv' /\ MutexInv'
  BY DEF ActiveInv, Active, MutexInv
<1>3. ItemInv'
  BY <1>0 DEF TypeOK, ItemInv, ItemOf
<1>4. DeleteInv'
  BY <1>0 DEF TypeOK, DeleteInv
<1>5. EntryInv'
  BY <1>0 DEF TypeOK, EntryInv, ItemInv, ItemOf
<1> QED BY <1>1, <1>2, <1>3, <1>4, <1>5

LEMMA DeleteClearFlagStep ==
  ASSUME IInv, NEW a \in Addresses, DeleteClearFlag(a) PROVE IInv'
<1> USE LoopsAssumption, MaxStoragesAssumption
    DEF IInv, DeleteClearFlag, Table, Items, NoItem, loopVars
<1>1. TypeOK'
  BY DEF TypeOK
<1>2. ActiveInv' /\ MutexInv'
  BY DEF ActiveInv, Active, MutexInv
<1>3. ItemInv'
  BY DEF TypeOK, ItemInv, ItemOf
<1>4. DeleteInv'
  BY DEF TypeOK, DeleteInv
<1>5. EntryInv'
  BY DEF TypeOK, EntryInv, DeleteInv
<1> QED BY <1>1, <1>2, <1>3, <1>4, <1>5

\* CheckStorages erases deleted entries only, and never under a pass.
LEMMA CheckStoragesStep ==
  ASSUME IInv, NEW t \in Loops, CheckStorages(t) PROVE IInv'
<1> USE LoopsAssumption, MaxStoragesAssumption, AddressesAssumption
    DEF IInv, CheckStorages, Table, Items, NoItem, itemVars, storageVars, deleteVars
<1>0. /\ DOMAIN storage_table_' \subseteq DOMAIN storage_table_
      /\ \A b \in DOMAIN storage_table_' : storage_table_'[b] = storage_table_[b]
      /\ \A b \in DOMAIN storage_table_ :
           ~is_deleted[storage_table_[b]] => b \in DOMAIN storage_table_'
  <2>1. \A b \in ErasedByCheck : is_deleted[storage_table_[b]]
    <3> SUFFICES ASSUME NEW b \in ErasedByCheck, ~is_deleted[storage_table_[b]] PROVE FALSE
      OBVIOUS
    <3>1. b \in Undeleted /\ b \in Nat
      BY DEF ErasedByCheck, Undeleted, TypeOK
    <3>2. b < b
      BY <3>1 DEF ErasedByCheck
    <3> QED BY <3>1, <3>2
  <2> QED BY <2>1
<1>1. TypeOK'
  BY <1>0 DEF TypeOK
<1>2. ActiveInv'
  <2>1. Active' = Active
    BY DEF Active, TypeOK
  <2> QED BY <2>1 DEF ActiveInv
<1>3. MutexInv'
  BY <1>0 DEF MutexInv, TypeOK
<1>4. ItemInv'
  BY <1>0 DEF TypeOK, ItemInv, ItemOf
<1>5. DeleteInv'
  BY <1>0 DEF TypeOK, DeleteInv
<1>6. EntryInv'
  BY <1>0 DEF TypeOK, EntryInv
<1> QED BY <1>1, <1>2, <1>3, <1>4, <1>5, <1>6

\* The loop ends and is not counted any more.
LEMMA ExitStep ==
  ASSUME IInv, NEW t \in Loops, Exit(t) PROVE IInv'
<1> USE LoopsAssumption, MaxStoragesAssumption
    DEF IInv, Exit, Table, Items, NoItem, itemVars, storageVars, deleteVars
<1>1. Active' = Active \ {t} /\ t \in Active
  BY DEF Active, TypeOK
<1>2. Cardinality(Active') = Cardinality(Active) - 1
  BY <1>1, ActiveFinite, FS_RemoveElement
<1>3. Cardinality(Active) # 0
  BY <1>1, ActiveFinite, FS_EmptySet
<1>4. ActiveInv' /\ num_of_active_threads_' \in 0..NumOfThreads
  BY <1>2, <1>3, ActiveFinite DEF ActiveInv, TypeOK
<1>5. TypeOK'
  BY <1>4 DEF TypeOK
<1>6. MutexInv'
  BY DEF MutexInv, TypeOK
<1>7. ItemInv' /\ DeleteInv' /\ EntryInv'
  BY DEF ItemInv, ItemOf, DeleteInv, EntryInv
<1> QED BY <1>4, <1>5, <1>6, <1>7

LEMMA LockTableStep ==
  ASSUME IInv, NEW t \in Loops, LockTable(t) PROVE IInv'
<1> USE LoopsAssumption, MaxStoragesAssumption
    DEF IInv, LockTable, Table, Items, NoItem, itemVars, storageVars, deleteVars
<1>1. TypeOK'
  BY DEF TypeOK
<1>2. ActiveInv'
  <2>1. Active' = Active
    BY DEF Active, TypeOK
  <2> QED BY <2>1 DEF ActiveInv
<1>3. MutexInv'
  BY DEF MutexInv, TypeOK
<1>4. ItemInv' /\ DeleteInv' /\ EntryInv'
  BY DEF ItemInv, ItemOf, DeleteInv, EntryInv
<1> QED BY <1>1, <1>2, <1>3, <1>4

\* The pass goes on to an entry of the table, or ends.
LEMMA VisitStep ==
  ASSUME IInv, NEW t \in Loops, Visit(t) PROVE IInv'
<1> USE LoopsAssumption, MaxStoragesAssumption
    DEF IInv, Table, Items, NoItem, itemVars, storageVars, deleteVars
<1>0. /\ lpc[t] = "next"
      /\ is_occupied' \in [Items -> BOOLEAN]
      /\ UNCHANGED <<storage_table_, is_deleted, num_of_active_threads_, storageVars, deleteVars>>
      /\ \/ /\ UNCHANGED lpos
            /\ lpc' = [lpc EXCEPT ![t] = "check"] /\ mu_' = NoLoop
         \/ \E a \in DOMAIN storage_table_ :
              /\ lpos' = [lpos EXCEPT ![t] = a]
              /\ lpc' = lpc \/ lpc' = [lpc EXCEPT ![t] = "occupied"]
              /\ UNCHANGED mu_
  <2> DEFINE rest == {a \in DOMAIN storage_table_ : a > lpos[t]}
  <2>1. CASE /\ rest = {}
             /\ mu_' = NoLoop /\ lpc' = [lpc EXCEPT ![t] = "check"]
             /\ UNCHANGED <<is_occupied, lpos>>
    BY <2>1 DEF Visit, TypeOK
  <2>2. ASSUME NEW a \in rest,
               lpos' = [lpos EXCEPT ![t] = a],
               IF is_occupied[storage_table_[a]]
                 THEN UNCHANGED <<is_occupied, lpc>>
                 ELSE /\ is_occupied' = [is_occupied EXCEPT ![storage_table_[a]] = TRUE]
                      /\ lpc' = [lpc EXCEPT ![t] = "occupied"],
               UNCHANGED mu_
        PROVE  /\ is_occupied' \in [Items -> BOOLEAN]
               /\ lpc' = lpc \/ lpc' = [lpc EXCEPT ![t] = "occupied"]
    BY <2>2 DEF Visit, TypeOK
  <2> QED BY <2>1, <2>2 DEF Visit
<1>1. TypeOK'
  BY <1>0 DEF TypeOK
<1>2. ActiveInv'
  <2>1. Active' = Active
    BY <1>0 DEF Active, TypeOK
  <2> QED BY <1>0, <2>1 DEF ActiveInv
<1>3. MutexInv'
  BY <1>0 DEF MutexInv, TypeOK
<1>4. ItemInv' /\ DeleteInv' /\ EntryInv'
  BY <1>0 DEF ItemInv, ItemOf, DeleteInv, EntryInv
<1> QED BY <1>1, <1>2, <1>3, <1>4

LEMMA EnterOrLeaveStorageStep ==
  ASSUME IInv, NEW t \in Loops, EnterStorage(t) \/ LeaveStorage(t) PROVE IInv'
<1> USE LoopsAssumption, MaxStoragesAssumption
    DEF IInv, EnterStorage, LeaveStorage, Table, Items, NoItem, storageVars, deleteVars
<1>1. TypeOK'
  BY DEF TypeOK
<1>2. ActiveInv'
  <2>1. Active' = Active
    BY DEF Active, TypeOK
  <2> QED BY <2>1 DEF ActiveInv
<1>3. MutexInv'
  BY DEF MutexInv, TypeOK
<1>4. ItemInv' /\ DeleteInv' /\ EntryInv'
  BY DEF ItemInv, ItemOf, DeleteInv, EntryInv
<1> QED BY <1>1, <1>2, <1>3, <1>4

LEMMA NextStep == IInv /\ [Next]_vars => IInv'
<1> SUFFICES ASSUME IInv, [Next]_vars PROVE IInv'
  OBVIOUS
<1>1. ASSUME NEW a \in Addresses, NEW t \in Loops, AddStorage(a, t) PROVE IInv'
  BY <1>1, AddStorageStep
<1>2. ASSUME NEW a \in Addresses, DeleteStorage(a) \/ DeleteStep(a) PROVE IInv'
  BY <1>2, DeleteStorageStep, DeleteCompareAndSwapStep, DeleteMarkStep, DeleteClearFlagStep
  DEF DeleteStep
<1>3. ASSUME NEW t \in Loops, LoopStep(t) PROVE IInv'
  BY <1>3, CheckStoragesStep, ExitStep, LockTableStep, VisitStep, EnterOrLeaveStorageStep
  DEF LoopStep
<1>4. CASE UNCHANGED vars
  BY <1>4 DEF vars, itemVars, storageVars, deleteVars, loopVars, IInv, TypeOK, ActiveInv, Active,
              MutexInv, ItemInv, ItemOf, DeleteInv, EntryInv, Table
<1> QED BY <1>1, <1>2, <1>3, <1>4 DEF Next

\* The invariant that ties entries, items and flags to the life of the storages.
THEOREM InductiveInvariant == Spec => []IInv
  BY InitIInv, NextStep, PTL DEF Spec

\* Type correctness; at most num_of_threads_ loops run at any time.
THEOREM TypeCorrect == Spec => []TypeOK
<1>1. IInv => TypeOK
  BY DEF IInv
<1> QED BY InductiveInvariant, <1>1, PTL

\* The entry AddStorage made for a storage stays as long as the storage lives.
THEOREM EntriesAreKept == Spec => []EntryKept
<1>1. IInv => EntryKept
  BY DEF IInv, EntryInv, EntryKept
<1> QED BY InductiveInvariant, <1>1, PTL

\* EvictionLoop enters BatchEviction only of storages whose destructor is not
\* past DeleteStorage.
THEOREM NoLateEviction == Spec => NoEvictionStartsAfterDelete
<1> DEFINE A == \A t \in Loops :
       lpc[t] = "occupied" /\ lpc'[t] = "evict" => life[lpos[t]] # "free"
<1>1. IInv /\ [Next]_vars => [A]_vars
  <2> SUFFICES ASSUME IInv, Next, NEW t \in Loops, lpc[t] = "occupied", lpc'[t] = "evict"
               PROVE  life[lpos[t]] # "free"
    OBVIOUS
  <2>1. EnterStorage(t)
    <3>1. ASSUME NEW a \in Addresses, NEW u \in Loops, AddStorage(a, u) PROVE FALSE
      BY <3>1 DEF AddStorage, StartThread, IInv, TypeOK
    <3>2. ASSUME NEW a \in Addresses, DeleteStorage(a) \/ DeleteStep(a) PROVE FALSE
      BY <3>2 DEF DeleteStorage, DeleteStep, DeleteCompareAndSwap, DeleteMark, DeleteClearFlag,
                  loopVars
    <3>3. ASSUME NEW u \in Loops, LoopStep(u), ~EnterStorage(t) PROVE FALSE
      BY <3>3 DEF LoopStep, CheckStorages, Exit, LockTable, Visit, EnterStorage, LeaveStorage,
                  IInv, TypeOK
    <3> QED BY <3>1, <3>2, <3>3 DEF Next
  <2>2. lpos[t] \in Table /\ ~is_deleted[storage_table_[lpos[t]]]
    BY <2>1 DEF IInv, MutexInv, EnterStorage, TypeOK
  <2> QED BY <2>2 DEF IInv, EntryInv, TypeOK
<1> QED BY InductiveInvariant, <1>1, PTL DEF Spec, NoEvictionStartsAfterDelete
=============================================================================
