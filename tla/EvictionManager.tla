--------------------------- MODULE EvictionManager ---------------------------
(***************************************************************************)
(* The EvictionManager (framework/embedding/eviction_manager.h): a         *)
(* process-wide table of the multi-tier storages and the background loops  *)
(* that call BatchEviction on each of them in turn.                        *)
(*                                                                         *)
(* Storages come and go.  The table is keyed by the ADDRESS of a storage,  *)
(* and the address of a destroyed storage may be given to the next one.    *)
(* AddStorage, CheckStorages and a pass of EvictionLoop hold mu_;          *)
(* DeleteStorage does not, it relies on the flags of the StorageItem.      *)
(***************************************************************************)
EXTENDS Naturals, FiniteSets

CONSTANTS Addresses,     \* addresses of storages, in the order of std::map
          Loops,         \* pool threads that can run EvictionLoop
          NoLoop,        \* nobody holds mu_
          NumOfThreads,  \* num_of_threads_
          MaxStorages    \* bound: storages created

ASSUME AddressesAssumption == Addresses \subseteq Nat \ {0} /\ IsFiniteSet(Addresses)
ASSUME LoopsAssumption ==
  /\ NoLoop \notin Loops /\ IsFiniteSet(Loops)
  /\ NumOfThreads \in Nat /\ Cardinality(Loops) >= NumOfThreads
ASSUME MaxStoragesAssumption == MaxStorages \in Nat

VARIABLES
  storage_table_,          \* address -> StorageItem
  is_occupied, is_deleted, \* the fields of the StorageItems
  num_of_active_threads_,
  mu_,                     \* the loop that holds mu_ across several steps
  created,                 \* storages created so far; the n-th gets item n
  life,                    \* address -> "free", "live" or "deleting"
  own,                     \* address -> the item made for its storage
  dpc, ditem,              \* address -> where its DeleteStorage is, its item
  lpc, lpos,               \* loop -> where it is, the address it visits
  aborted                  \* DeleteStorage dereferenced a null item

itemVars == <<is_occupied, is_deleted>>
storageVars == <<created, life, own>>
deleteVars == <<dpc, ditem, aborted>>
loopVars == <<lpc, lpos>>
vars == <<storage_table_, itemVars, num_of_active_threads_, mu_, storageVars,
          deleteVars, loopVars>>

Items == 1..MaxStorages
NoItem == 0

Init ==
  /\ storage_table_ = [a \in {} |-> NoItem]
  /\ is_occupied = [i \in Items |-> FALSE]
  /\ is_deleted = [i \in Items |-> FALSE]
  /\ num_of_active_threads_ = 0
  /\ mu_ = NoLoop
  /\ created = 0
  /\ life = [a \in Addresses |-> "free"]
  /\ own = [a \in Addresses |-> NoItem]
  /\ dpc = [a \in Addresses |-> "none"]
  /\ ditem = [a \in Addresses |-> NoItem]
  /\ lpc = [t \in Loops |-> "none"]
  /\ lpos = [t \in Loops |-> 0]
  /\ aborted = FALSE

Table == DOMAIN storage_table_

-----------------------------------------------------------------------------
(* AddStorage and DeleteStorage, on the thread that owns the storage.      *)

\* Faulty variant: one loop too many.
StartThreadLate(t) ==
  IF num_of_active_threads_ <= NumOfThreads
    THEN /\ lpc[t] = "none"
         /\ num_of_active_threads_' = num_of_active_threads_ + 1
         /\ lpc' = [lpc EXCEPT ![t] = "check"]
    ELSE UNCHANGED <<num_of_active_threads_, lpc>>

\* StartThread, and the same test in AddStorage: the number of loops can only
\* have gone down between the two.
StartThread(t) ==
  IF num_of_active_threads_ < NumOfThreads
    THEN /\ lpc[t] = "none"
         /\ num_of_active_threads_' = num_of_active_threads_ + 1
         /\ lpc' = [lpc EXCEPT ![t] = "check"]
    ELSE UNCHANGED <<num_of_active_threads_, lpc>>

\* A storage is constructed at address a; std::map::emplace keeps an entry that
\* is there.
AddStorage(a, t) ==
  /\ ~aborted
  /\ mu_ = NoLoop
  /\ life[a] = "free"
  /\ created < MaxStorages
  /\ created' = created + 1
  /\ life' = [life EXCEPT ![a] = "live"]
  /\ IF a \notin Table
       THEN /\ storage_table_' = [b \in Table \cup {a} |->
                 IF b = a THEN created + 1 ELSE storage_table_[b]]
            /\ own' = [own EXCEPT ![a] = created + 1]
            /\ StartThread(t)
       ELSE /\ own' = [own EXCEPT ![a] = NoItem]
            /\ UNCHANGED <<storage_table_, num_of_active_threads_, lpc>>
  /\ UNCHANGED <<itemVars, mu_, deleteVars, lpos>>

\* DeleteStorage: storage_table_[storage], without mu_.  A missing entry yields
\* a null item, whose first use ends the process.
DeleteStorage(a) ==
  /\ ~aborted
  /\ life[a] = "live"
  /\ IF a \in Table
       THEN /\ ditem' = [ditem EXCEPT ![a] = storage_table_[a]]
            /\ dpc' = [dpc EXCEPT ![a] = "cas"]
            /\ life' = [life EXCEPT ![a] = "deleting"]
            /\ UNCHANGED aborted
       ELSE aborted' = TRUE /\ UNCHANGED <<ditem, dpc, life>>
  /\ UNCHANGED <<storage_table_, itemVars, num_of_active_threads_, mu_,
                 created, own, loopVars>>

DeleteCompareAndSwap(a) ==
  /\ ~aborted
  /\ dpc[a] = "cas"
  /\ IF is_occupied[ditem[a]]
       THEN dpc' = [dpc EXCEPT ![a] = "retry"] /\ UNCHANGED is_occupied
       ELSE /\ is_occupied' = [is_occupied EXCEPT ![ditem[a]] = TRUE]
            /\ dpc' = [dpc EXCEPT ![a] = "mark"]
  /\ UNCHANGED <<storage_table_, is_deleted, num_of_active_threads_, mu_,
                 storageVars, ditem, aborted, loopVars>>

DeleteMark(a) ==
  /\ ~aborted
  /\ dpc[a] = "mark"
  /\ is_deleted' = [is_deleted EXCEPT ![ditem[a]] = TRUE]
  /\ dpc' = [dpc EXCEPT ![a] = "return"]
  /\ UNCHANGED <<storage_table_, is_occupied, num_of_active_threads_, mu_,
                 storageVars, ditem, aborted, loopVars>>

\* *occupy_flag = false, whoever had set it; then another round, or the return
\* to the destructor, which frees the storage.
DeleteClearFlag(a) ==
  /\ ~aborted
  /\ dpc[a] \in {"retry", "return"}
  /\ is_occupied' = [is_occupied EXCEPT ![ditem[a]] = FALSE]
  /\ IF dpc[a] = "retry"
       THEN /\ dpc' = [dpc EXCEPT ![a] = "cas"]
            /\ UNCHANGED <<ditem, life, own>>
       ELSE /\ dpc' = [dpc EXCEPT ![a] = "none"]
            /\ ditem' = [ditem EXCEPT ![a] = NoItem]
            /\ life' = [life EXCEPT ![a] = "free"]
            /\ own' = [own EXCEPT ![a] = NoItem]
  /\ UNCHANGED <<storage_table_, is_deleted, num_of_active_threads_, mu_,
                 created, aborted, loopVars>>

DeleteStep(a) == DeleteCompareAndSwap(a) \/ DeleteMark(a) \/ DeleteClearFlag(a)

-----------------------------------------------------------------------------
(* EvictionLoop.                                                           *)

Undeleted == {a \in Table : ~is_deleted[storage_table_[a]]}

\* Faulty variant: the entry the walk stops at is erased too.
ErasedByCheckInclusive == {a \in Table : \A b \in Undeleted : a <= b}

\* The entries CheckStorages erases: it stops at the first undeleted one.
ErasedByCheck == {a \in Table : \A b \in Undeleted : a < b}

CheckStorages(t) ==
  /\ ~aborted
  /\ lpc[t] = "check"
  /\ mu_ = NoLoop
  /\ storage_table_' = [a \in Table \ ErasedByCheck |-> storage_table_[a]]
  /\ lpc' = [lpc EXCEPT ![t] = IF Undeleted # {} THEN "lock" ELSE "exit"]
  /\ UNCHANGED <<itemVars, num_of_active_threads_, mu_, storageVars,
                 deleteVars, lpos>>

\* The loop ends, some time after CheckStorages has returned false.
Exit(t) ==
  /\ ~aborted
  /\ lpc[t] = "exit"
  /\ num_of_active_threads_' = num_of_active_threads_ - 1
  /\ lpc' = [lpc EXCEPT ![t] = "none"]
  /\ UNCHANGED <<storage_table_, itemVars, mu_, storageVars, deleteVars, lpos>>

LockTable(t) ==
  /\ ~aborted
  /\ lpc[t] = "lock"
  /\ mu_ = NoLoop
  /\ mu_' = t
  /\ lpos' = [lpos EXCEPT ![t] = 0]
  /\ lpc' = [lpc EXCEPT ![t] = "next"]
  /\ UNCHANGED <<storage_table_, itemVars, num_of_active_threads_, storageVars,
                 deleteVars>>

\* The next entry, whose flag is tried; or the end of the pass.
Visit(t) ==
  LET rest == {a \in Table : a > lpos[t]} IN
  /\ ~aborted
  /\ lpc[t] = "next"
  /\ \/ /\ rest = {}
        /\ mu_' = NoLoop
        /\ lpc' = [lpc EXCEPT ![t] = "check"]
        /\ UNCHANGED <<is_occupied, lpos>>
     \/ \E a \in rest :
          /\ \A b \in rest : a <= b
          /\ lpos' = [lpos EXCEPT ![t] = a]
          /\ IF is_occupied[storage_table_[a]]
               THEN UNCHANGED <<is_occupied, lpc>>
               ELSE /\ is_occupied' =
                         [is_occupied EXCEPT ![storage_table_[a]] = TRUE]
                    /\ lpc' = [lpc EXCEPT ![t] = "occupied"]
          /\ UNCHANGED mu_
  /\ UNCHANGED <<storage_table_, is_deleted, num_of_active_threads_,
                 storageVars, deleteVars>>

\* Faulty variant: is_deleted is not looked at again under the flag.
EnterStorageUnchecked(t) ==
  /\ ~aborted
  /\ lpc[t] = "occupied"
  /\ lpc' = [lpc EXCEPT ![t] = "evict"]
  /\ UNCHANGED <<storage_table_, itemVars, num_of_active_threads_, mu_,
                 storageVars, deleteVars, lpos>>

\* A deleted storage is skipped; otherwise BatchEviction is called.
EnterStorage(t) ==
  LET i == storage_table_[lpos[t]] IN
  /\ ~aborted
  /\ lpc[t] = "occupied"
  /\ IF is_deleted[i]
       THEN /\ is_occupied' = [is_occupied EXCEPT ![i] = FALSE]
            /\ lpc' = [lpc EXCEPT ![t] = "next"]
       ELSE lpc' = [lpc EXCEPT ![t] = "evict"] /\ UNCHANGED is_occupied
  /\ UNCHANGED <<storage_table_, is_deleted, num_of_active_threads_, mu_,
                 storageVars, deleteVars, lpos>>

\* Faulty variant: the storage stays occupied after BatchEviction.
LeaveStorageOccupied(t) ==
  /\ ~aborted
  /\ lpc[t] = "evict"
  /\ lpc' = [lpc EXCEPT ![t] = "next"]
  /\ UNCHANGED <<storage_table_, itemVars, num_of_active_threads_, mu_,
                 storageVars, deleteVars, lpos>>

\* BatchEviction returns.
LeaveStorage(t) ==
  /\ ~aborted
  /\ lpc[t] = "evict"
  /\ is_occupied' = [is_occupied EXCEPT ![storage_table_[lpos[t]]] = FALSE]
  /\ lpc' = [lpc EXCEPT ![t] = "next"]
  /\ UNCHANGED <<storage_table_, is_deleted, num_of_active_threads_, mu_,
                 storageVars, deleteVars, lpos>>

LoopStep(t) ==
  \/ CheckStorages(t) \/ Exit(t) \/ LockTable(t)
  \/ Visit(t) \/ EnterStorage(t) \/ LeaveStorage(t)

Next ==
  \/ \E a \in Addresses, t \in Loops : AddStorage(a, t)
  \/ \E a \in Addresses : DeleteStorage(a) \/ DeleteStep(a)
  \/ \E t \in Loops : LoopStep(t)

\* A pool thread keeps running, and so does a thread inside DeleteStorage.
\* Nothing makes the program create or destroy a storage.
Fairness ==
  /\ \A t \in Loops : WF_vars(LoopStep(t))
  /\ \A a \in Addresses : WF_vars(DeleteStep(a))

Spec == Init /\ [][Next]_vars /\ Fairness

-----------------------------------------------------------------------------
(* Properties.                                                             *)

\* Type correctness; at most num_of_threads_ loops run.
TypeOK ==
  /\ Table \subseteq Addresses
  /\ \A a \in Table : storage_table_[a] \in Items
  /\ is_occupied \in [Items -> BOOLEAN]
  /\ is_deleted \in [Items -> BOOLEAN]
  /\ num_of_active_threads_ \in 0..NumOfThreads
  /\ mu_ \in Loops \cup {NoLoop}
  /\ created \in 0..MaxStorages
  /\ life \in [Addresses -> {"free", "live", "deleting"}]
  /\ own \in [Addresses -> Items \cup {NoItem}]
  /\ dpc \in [Addresses -> {"none", "cas", "retry", "mark", "return"}]
  /\ ditem \in [Addresses -> Items \cup {NoItem}]
  /\ lpc \in [Loops -> {"none", "check", "exit", "lock", "next", "occupied",
                        "evict"}]
  /\ lpos \in [Loops -> Addresses \cup {0}]
  /\ aborted \in BOOLEAN

\* The entry AddStorage made for a storage stays in the table as long as the
\* storage lives: CheckStorages erases only what DeleteStorage has marked.
EntryKept ==
  \A a \in Addresses :
    life[a] = "live" /\ own[a] # NoItem =>
      a \in Table /\ storage_table_[a] = own[a]

\* No BatchEviction begins on a storage whose destructor is past DeleteStorage,
\* although DeleteStorage clears the flag a loop has set (the second look at
\* is_deleted in EvictionLoop).  One that has begun before may still run.
NoEvictionStartsAfterDelete ==
  [][\A t \in Loops :
       lpc[t] = "occupied" /\ lpc'[t] = "evict" => life[lpos[t]] # "free"]_vars

Evicting(a) == \E t \in Loops : lpc[t] = "evict" /\ lpos[t] = a

\* As long as some loop runs that has not decided to end, a storage with its
\* own entry gets its turn: the flags DeleteStorage and the loops exchange
\* never leave it locked out (EvictionLoop, DeleteStorage).
ServedStorageIsEvicted ==
  \A a \in Addresses :
    (/\ life[a] = "live" /\ own[a] # NoItem
     /\ \E t \in Loops : lpc[t] \notin {"none", "exit"})
    ~> (Evicting(a) \/ life[a] # "live" \/ aborted)
=============================================================================
