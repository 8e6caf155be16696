--------------------------- MODULE DramSsdStorage ---------------------------
(***************************************************************************)
(* DramSsdHashStorage (framework/embedding/dram_ssd_storage.h) with the    *)
(* parts of MultiTierStorage, SingleTierStorage and EmbeddingVar it works  *)
(* with: embeddings live in DRAM, cold ones are evicted to SSD and copied  *)
(* back when they are used.                                                *)
(*                                                                         *)
(* Four kinds of threads meet here.  Trainers look keys up without a lock  *)
(* and keep the ValuePtr for the rest of their step.  The cache thread     *)
(* applies what they schedule to the LRU list.  The evicting thread moves  *)
(* keys from the tail of that list to SSD under the mutexes of both tiers. *)
(* The saver takes both mutexes one after the other, and shrinks.          *)
(*                                                                         *)
(* An embedding is the number of updates applied to it.  The SSD tier is   *)
(* the map SSDHashKV was shown to implement (KVStore).  A ValuePtr is a    *)
(* number that is not used again, so a use after free stays visible.       *)
(***************************************************************************)
EXTENDS LRUCache, FiniteSets

CONSTANTS NoKey, Trainers, Saver,
          CacheCapacity,   \* cache_capacity_
          CapInvalid,      \* CAP_INVALID_VALUEPTR, 65536 in the code
          CacheThreads,    \* TF_MULTI_TIER_EV_CACHE_THREADS, 1 by default
          Stored,          \* keys of the checkpoint the process starts from
          MaxSteps,        \* bound: training steps, each on one key
          MaxSaves         \* bound: checkpoints

ASSUME CapacityAssumption == CacheCapacity \in Nat /\ CapInvalid \in Nat
ASSUME CacheThreadsAssumption == CacheThreads \in Nat \ {0}
ASSUME MaxStepsAssumption == MaxSteps \in Nat
ASSUME SetsAssumption ==
  /\ IsFiniteSet(Keys) /\ NoKey \notin Keys
  /\ IsFiniteSet(Trainers) /\ Saver \notin Trainers

NoPtr == 0
NoValue == MaxSteps + 1
Nothing == [k \in Keys |-> NoValue]

VARIABLES
  dram,       \* key -> its ValuePtr
  val,        \* ValuePtr -> the embedding, for those created so far
  ssd,        \* key -> the embedding in the SSD tier
  value_ptr_out_of_date_, \* evicted ValuePtrs, oldest first
  to_delete_, \* ValuePtrs of shrunk keys, freed by the next Shrink
  tasks,      \* scheduled on cache_thread_pool_: <<operation, key>>
  tr,         \* trainer -> [pc, key, ptr, step]
  ev,         \* the evicting thread: [pc, ids]
  sv,         \* the saver and its snapshot: [pc, ptrs, dram, ssd, floor]
  saves,
  up,         \* the process runs
  begun,      \* training steps begun
  \* history
  truth,      \* key -> updates made since it was created, NoValue if never
  torn,       \* keys evicted, shrunk or created while a trainer was on them
  overtaken   \* thread -> what happened since it took its pointers

storeVars == <<dram, val, ssd>>
retiredVars == <<value_ptr_out_of_date_, to_delete_>>
saveVars == <<sv, saves>>
historyVars == <<truth, overtaken>>
vars == <<storeVars, retiredVars, cacheVars, tasks, tr, ev, saveVars, up, begun, historyVars, torn>>

Idle == [pc |-> "idle", key |-> NoKey, ptr |-> NoPtr, step |-> "none"]
Resting == [pc |-> "idle", ids |-> <<>>]
NotSaving == [pc |-> "idle", ptrs |-> [k \in Keys |-> NoPtr], dram |-> Nothing, ssd |-> Nothing,
              floor |-> Nothing]   \* history: what the checkpoint has to hold

JustTaken == [evictions |-> 0, shrinks |-> 0, late |-> FALSE]

\* The process starts from a checkpoint that holds some keys, all of them on SSD.
Init ==
  /\ ssd = [k \in Keys |-> IF k \in Stored THEN 0 ELSE NoValue]
  /\ dram = [k \in Keys |-> NoPtr]
  /\ val = <<>>
  /\ value_ptr_out_of_date_ = <<>>
  /\ to_delete_ = {}
  /\ tasks = <<>>
  /\ CacheInit
  /\ tr = [t \in Trainers |-> Idle]
  /\ ev = Resting
  /\ sv = NotSaving
  /\ saves = 0
  /\ up = TRUE
  /\ begun = 0
  /\ truth = ssd
  /\ torn = {}
  /\ overtaken = [t \in Trainers \cup {Saver} |-> JustTaken]

\* The embedding a lookup of k finds.
Visible(k) == IF dram[k] # NoPtr THEN val[dram[k]] ELSE ssd[k]

\* The thread keeps ValuePtrs it took from DRAM.
Holds(t) == IF t = Saver THEN sv.pc \in {"dram", "ssd"}
                         ELSE tr[t].pc \in {"hold", "prefetched", "collected"}

\* History: what happened to a thread while it kept them.
Overtake(Event(_)) ==
  overtaken' = [t \in Trainers \cup {Saver} |-> IF Holds(t) THEN Event(overtaken[t]) ELSE JustTaken]

\* The thread still has its pointers: no eviction began after more than
\* CAP_INVALID_VALUEPTR others were done, nor a second Shrink, since it took them.
InTime(t) == ~overtaken[t].late /\ overtaken[t].shrinks <= 1

\* The ValuePtr has not been freed.
Alive(p) ==
  \/ p \in ToSet(value_ptr_out_of_date_) \cup to_delete_
  \/ \E k \in Keys : dram[k] = p

\* The evicting thread does not hold the mutexes of the tiers.
MutexesFree == ev.pc \in {"idle", "chosen"}

-----------------------------------------------------------------------------
(* A training step on one key.  A plain step looks the key up, computes,   *)
(* looks it up again to apply the gradient, and creates it if it is new.   *)
(* A prefetched step looks it up once and passes the pointer on.           *)

Goto(t, pc) == tr' = [tr EXCEPT ![t].pc = pc]

\* The ValuePtr p is found: the forward pass of a plain step copies the embedding
\* and is done, the other steps keep the pointer.
Hold(t, p) ==
  /\ tr' = [tr EXCEPT ![t].pc = IF tr[t].step = "lookup" THEN "forward_done" ELSE "hold",
                      ![t].ptr = IF tr[t].step = "lookup" THEN NoPtr ELSE p]
  /\ overtaken' = [overtaken EXCEPT ![t] = JustTaken]

\* Get and GetOrCreate: DRAM first.  A step begins with it, and so does the
\* second half of a plain step.
DramGet(t, k, step) ==
  LET p == dram[k] IN
  /\ up
  /\ \/ tr[t].pc = "idle" /\ step # "apply" /\ begun < MaxSteps /\ begun' = begun + 1
     \/ tr[t].pc = "forward_done" /\ tr[t].key = k /\ step = "apply" /\ UNCHANGED begun
  /\ tr' = [tr EXCEPT ![t] =
              CASE p = NoPtr -> [pc |-> "ssd", key |-> k, ptr |-> NoPtr, step |-> step]
                [] p # NoPtr /\ step = "lookup" ->
                     [pc |-> "forward_done", key |-> k, ptr |-> NoPtr, step |-> step]
                [] OTHER -> [pc |-> "hold", key |-> k, ptr |-> p, step |-> step]]
  /\ overtaken' = [overtaken EXCEPT ![t] = JustTaken]
  /\ UNCHANGED <<storeVars, retiredVars, cacheVars, tasks, ev, saveVars, up, truth>>

\* SSD next: the record is copied into a new ValuePtr.  Get of a key that is in
\* neither tier answers the default value, GetOrCreate goes on to create it.
SsdGet(t) ==
  LET k == tr[t].key IN
  /\ up
  /\ tr[t].pc = "ssd"
  /\ IF ssd[k] # NoValue
       THEN /\ val' = Append(val, ssd[k])
            /\ tr' = [tr EXCEPT ![t].pc = "tryinsert", ![t].ptr = Len(val) + 1]
       ELSE /\ Goto(t, IF tr[t].step = "lookup" THEN "forward_done" ELSE "create")
            /\ UNCHANGED val
  /\ UNCHANGED <<begun, dram, ssd, retiredVars, cacheVars, tasks, ev, saveVars, up, historyVars>>

\* Faulty variant: the copy from SSD replaces what another trainer inserted.
TryInsertReplaces(t) ==
  /\ up
  /\ tr[t].pc = "tryinsert"
  /\ dram' = [dram EXCEPT ![tr[t].key] = tr[t].ptr]
  /\ Hold(t, tr[t].ptr)
  /\ UNCHANGED <<begun, val, ssd, retiredVars, cacheVars, tasks, ev, saveVars, up, truth>>

\* TryInsert, and when another trainer was faster its own copy is destroyed.
TryInsert(t) ==
  LET k == tr[t].key IN
  /\ up
  /\ tr[t].pc = "tryinsert"
  /\ IF dram[k] = NoPtr
       THEN dram' = [dram EXCEPT ![k] = tr[t].ptr] /\ Hold(t, tr[t].ptr)
       ELSE Goto(t, "reget") /\ UNCHANGED <<dram, overtaken>>
  /\ UNCHANGED <<begun, val, ssd, retiredVars, cacheVars, tasks, ev, saveVars, up, truth>>

\* A second look at DRAM.  If the key was evicted meanwhile Get answers the
\* default value, and GetOrCreate fails: TF_CHECK_OK ends the process.
ReGet(t) ==
  LET p == dram[tr[t].key] IN
  /\ up
  /\ tr[t].pc = "reget"
  /\ CASE p # NoPtr -> Hold(t, p) /\ UNCHANGED up
       [] p = NoPtr /\ tr[t].step = "lookup" -> Goto(t, "forward_done") /\ UNCHANGED <<overtaken, up>>
       [] OTHER -> up' = FALSE /\ UNCHANGED <<tr, overtaken>>
  /\ UNCHANGED <<begun, storeVars, retiredVars, cacheVars, tasks, ev, saveVars, truth>>

\* SingleTierStorage::Insert: create, insert, and if that fails look it up ...
Create(t) ==
  LET k == tr[t].key IN
  /\ up
  /\ tr[t].pc = "create"
  /\ IF dram[k] = NoPtr
       THEN /\ val' = Append(val, 0)
            /\ dram' = [dram EXCEPT ![k] = Len(val) + 1]
            /\ Hold(t, Len(val) + 1)
            /\ truth' = [truth EXCEPT ![k] = 0]
       ELSE Goto(t, "relook") /\ UNCHANGED <<val, dram, overtaken, truth>>
  /\ UNCHANGED <<begun, ssd, retiredVars, cacheVars, tasks, ev, saveVars, up>>

\* ... until one of the two succeeds.
ReLook(t) ==
  LET p == dram[tr[t].key] IN
  /\ up
  /\ tr[t].pc = "relook"
  /\ IF p # NoPtr THEN Hold(t, p) ELSE Goto(t, "create") /\ UNCHANGED overtaken
  /\ UNCHANGED <<begun, storeVars, retiredVars, cacheVars, tasks, ev, saveVars, up, truth>>

\* The gradient is written through the pointer.
Write(t) ==
  LET k == tr[t].key IN
  /\ val' = [val EXCEPT ![tr[t].ptr] = @ + 1]
  /\ truth' = [truth EXCEPT ![k] = IF @ = NoValue THEN @ ELSE @ + 1]
  /\ tr' = [tr EXCEPT ![t] = Idle]
  /\ overtaken' = [overtaken EXCEPT ![t] = JustTaken]

\* The apply op of a plain step, which reports the use to the cache.
Apply(t) ==
  /\ up
  /\ tr[t].pc = "hold" /\ tr[t].step = "apply"
  /\ Write(t)
  /\ tasks' = Append(tasks, <<"update", tr[t].key>>)
  /\ UNCHANGED <<begun, dram, ssd, retiredVars, cacheVars, ev, saveVars, up>>

\* LookupID of a prefetched step: the key is to leave the list of evictable keys.
LookupID(t) ==
  /\ up
  /\ tr[t].pc = "hold" /\ tr[t].step = "prefetch"
  /\ tasks' = Append(tasks, <<"prefetch", tr[t].key>>)
  /\ Goto(t, "prefetched")
  /\ UNCHANGED <<begun, storeVars, retiredVars, cacheVars, ev, saveVars, up, historyVars>>

\* CollectEmbedding: the values are gathered and the key is to come back.
Collect(t) ==
  /\ up
  /\ tr[t].pc = "prefetched"
  /\ tasks' = Append(tasks, <<"add", tr[t].key>>)
  /\ Goto(t, "collected")
  /\ UNCHANGED <<begun, storeVars, retiredVars, cacheVars, ev, saveVars, up, historyVars>>

\* The apply op of a prefetched step: the index is the pointer.
ApplyPointer(t) ==
  /\ up
  /\ tr[t].pc = "collected"
  /\ Write(t)
  /\ UNCHANGED <<begun, dram, ssd, retiredVars, cacheVars, tasks, ev, saveVars, up>>

-----------------------------------------------------------------------------
(* The cache thread and the evicting thread.                               *)

\* A thread of the pool runs a task; with several threads the oldest ones run
\* side by side.
RunTask(i) ==
  LET op == tasks[i][1]
      k == tasks[i][2] IN
  /\ up
  /\ tasks' = RemoveAt(tasks, i)
  /\ \/ op = "update" /\ update(k) /\ UNCHANGED up
     \/ op = "prefetch" /\ add_to_prefetch_list(k) /\ UNCHANGED up
     \/ /\ op = "add"
        /\ up' = IsPrefetched(k)
        /\ IF IsPrefetched(k) THEN add_to_cache(k) ELSE UNCHANGED cacheVars
  /\ UNCHANGED <<begun, storeVars, retiredVars, tr, ev, saveVars, historyVars>>

\* BatchEviction: the keys beyond the capacity, taken out of the cache.
BatchEviction ==
  /\ up
  /\ ev.pc = "idle"
  /\ Len(lru) > CacheCapacity
  /\ ev' = [pc |-> "chosen", ids |-> EvicIds(Len(lru) - CacheCapacity)]
  /\ get_evic_ids(Len(lru) - CacheCapacity)
  /\ UNCHANGED <<begun, storeVars, retiredVars, tasks, tr, saveVars, up, historyVars>>

\* ReleaseValuePtrs: the oldest ones beyond CAP_INVALID_VALUEPTR are freed.
StillKept ==
  LET n == Len(value_ptr_out_of_date_) IN
  IF n > CapInvalid THEN SubSeq(value_ptr_out_of_date_, n - CapInvalid + 1, n)
                    ELSE value_ptr_out_of_date_

\* EvictionWithDelayedDestroy takes both mutexes.
EvictionBegin ==
  /\ up
  /\ ev.pc = "chosen"
  /\ value_ptr_out_of_date_' = StillKept
  /\ ev' = [ev EXCEPT !.pc = "next"]
  /\ Overtake(LAMBDA o : [o EXCEPT !.late = @ \/ o.evictions > CapInvalid])
  /\ UNCHANGED <<begun, storeVars, to_delete_, cacheVars, tasks, tr, saveVars, up, truth>>

\* The next key, or the end, where both mutexes are released.
NextId == IF Len(ev.ids) = 1 THEN Resting ELSE [pc |-> "next", ids |-> Tail(ev.ids)]

\* Commit writes the value to the SSD tier while the key is still in DRAM.
EvictionCommit ==
  LET k == Head(ev.ids) IN
  /\ up
  /\ ev.pc = "next"
  /\ IF dram[k] # NoPtr
       THEN /\ ssd' = [ssd EXCEPT ![k] = val[dram[k]]]
            /\ ev' = [ev EXCEPT !.pc = "remove"]
       ELSE /\ ev' = NextId
            /\ UNCHANGED ssd
  /\ UNCHANGED <<begun, dram, val, retiredVars, cacheVars, tasks, tr, saveVars, up, historyVars>>

\* Faulty variant: the ValuePtr is destroyed at once, as Eviction does.
EvictionRemoveFrees ==
  /\ up
  /\ ev.pc = "remove"
  /\ dram' = [dram EXCEPT ![Head(ev.ids)] = NoPtr]
  /\ ev' = NextId
  /\ Overtake(LAMBDA o : [o EXCEPT !.evictions = @ + 1])
  /\ UNCHANGED <<begun, val, ssd, retiredVars, cacheVars, tasks, tr, saveVars, up, truth>>

\* The key leaves DRAM; KeepInvalidValuePtr delays the destruction.
EvictionRemove ==
  LET k == Head(ev.ids) IN
  /\ up
  /\ ev.pc = "remove"
  /\ dram' = [dram EXCEPT ![k] = NoPtr]
  /\ value_ptr_out_of_date_' = Append(value_ptr_out_of_date_, dram[k])
  /\ ev' = NextId
  /\ Overtake(LAMBDA o : [o EXCEPT !.evictions = @ + 1])
  /\ UNCHANGED <<begun, val, ssd, to_delete_, cacheVars, tasks, tr, saveVars, up, truth>>

-----------------------------------------------------------------------------
(* Saving, shrinking, death and restart.                                   *)

\* The policy picks the keys to eliminate (their step, or their L2 weight); they
\* leave the DRAM tier.  The SSD tier's Shrink works on an empty snapshot and
\* eliminates nothing: what it holds of them can be looked up again.
Shrink(eliminated) ==
  /\ up
  /\ MutexesFree
  /\ sv.pc = "idle"
  /\ saves < MaxSaves
  /\ \A k \in eliminated : dram[k] # NoPtr
  /\ to_delete_' = {dram[k] : k \in eliminated}
  /\ dram' = [k \in Keys |-> IF k \in eliminated THEN NoPtr ELSE dram[k]]
  /\ truth' = [k \in Keys |-> IF k \in eliminated THEN ssd[k] ELSE truth[k]]
  /\ Overtake(LAMBDA o : [o EXCEPT !.shrinks = @ + 1])
  /\ sv' = [sv EXCEPT !.pc = "shrunk"]
  /\ saves' = saves + 1
  /\ UNCHANGED <<begun, val, ssd, value_ptr_out_of_date_, cacheVars, tasks, tr, ev, up>>

\* The keys and ValuePtrs of the DRAM tier, under its mutex.
SnapshotDram ==
  /\ up
  /\ sv.pc = "shrunk"
  /\ MutexesFree
  /\ sv' = [sv EXCEPT !.pc = "dram", !.ptrs = dram, !.floor = truth]
  /\ overtaken' = [overtaken EXCEPT ![Saver] = JustTaken]
  /\ UNCHANGED <<begun, storeVars, retiredVars, cacheVars, tasks, tr, ev, saves, up, truth>>

\* The records of the SSD tier, under its own mutex, taken later.
SnapshotSsd ==
  /\ up
  /\ sv.pc = "dram"
  /\ MutexesFree
  /\ sv' = [sv EXCEPT !.pc = "ssd", !.ssd = ssd]
  /\ UNCHANGED <<begun, storeVars, retiredVars, cacheVars, tasks, tr, ev, saves, up, historyVars>>

\* What a read through a ValuePtr may find: anything, once it is freed.
Readable(p) == IF Alive(p) THEN {val[p]} ELSE 0..begun

\* Faulty variant: of a key that is in both tiers the record on SSD is saved.
SavedDramNoDuplicates(k) ==
  IF sv.ptrs[k] = NoPtr \/ sv.ssd[k] # NoValue THEN {NoValue} ELSE Readable(sv.ptrs[k])

\* What may be saved of k from the DRAM tier.
SavedDram(k) == IF sv.ptrs[k] = NoPtr THEN {NoValue} ELSE Readable(sv.ptrs[k])

\* History: what the checkpoint has to hold of k.  A key a trainer's step was torn
\* from is excepted, and one of the DRAM tier when the saver came too late for it.
Floor(k) ==
  IF k \in torn \/ (sv.ptrs[k] # NoPtr /\ ~InTime(Saver)) THEN NoValue ELSE sv.floor[k]

\* DumpEmbeddingValues reads the embeddings through the pointers of the list,
\* with no mutex held.
DumpEmbeddingValues ==
  /\ up
  /\ sv.pc = "ssd"
  /\ \E saved \in [Keys -> 0..NoValue] :
       /\ \A k \in Keys : saved[k] \in SavedDram(k)
       /\ sv' = [pc |-> "saved", ptrs |-> NotSaving.ptrs, dram |-> saved, ssd |-> sv.ssd,
                 floor |-> [k \in Keys |-> Floor(k)]]
  /\ UNCHANGED <<begun, storeVars, retiredVars, cacheVars, tasks, tr, ev, saves, up, historyVars>>

\* The process lives on.  It may die at any later time too, but then it starts
\* again in the same state as if it had died with the checkpoint just written.
SaveDone ==
  /\ up
  /\ sv.pc = "saved"
  /\ sv' = NotSaving
  /\ UNCHANGED <<begun, storeVars, retiredVars, cacheVars, tasks, tr, ev, saves, up, historyVars>>

\* The embedding of k that a restart from the checkpoint finds.
Restored(k) == IF sv.dram[k] # NoValue THEN sv.dram[k] ELSE sv.ssd[k]

\* The process dies and starts again from the checkpoint.
\* KvResourceImportV3: the records of the SSD tier first, then the keys of the
\* DRAM tier are created in DRAM, in the order of the list, and the cache evicts
\* what is beyond its capacity to SSD (Eviction, which destroys at once).
Restore(order) ==
  LET kept == SubSeq(order, 1, CacheCapacity)
      in == IF Len(order) > CacheCapacity THEN kept ELSE order IN
  /\ up
  /\ sv.pc = "saved"
  /\ dram' = [k \in Keys |-> IF Contains(in, k) THEN CHOOSE i \in 1..Len(in) : in[i] = k ELSE NoPtr]
  /\ val' = [i \in 1..Len(in) |-> sv.dram[in[i]]]
  /\ ssd' = [k \in Keys |-> IF Contains(order, k) /\ ~Contains(in, k) THEN sv.dram[k] ELSE sv.ssd[k]]
  /\ lru' = in
  /\ prefetch_id_table' = [k \in Keys |-> 0]
  /\ value_ptr_out_of_date_' = <<>> /\ to_delete_' = {} /\ tasks' = <<>>
  /\ tr' = [t \in Trainers |-> Idle]
  /\ ev' = Resting
  /\ sv' = NotSaving
  /\ truth' = [k \in Keys |-> Restored(k)]
  /\ overtaken' = [t \in Trainers \cup {Saver} |-> JustTaken]
  /\ torn' = {}
  /\ UNCHANGED <<saves, begun, up>>

-----------------------------------------------------------------------------
TrainerNext(t) ==
  \/ \E k \in Keys, step \in {"lookup", "apply", "prefetch"} : DramGet(t, k, step)
  \/ SsdGet(t) \/ TryInsert(t) \/ ReGet(t) \/ Create(t) \/ ReLook(t)
  \/ Apply(t) \/ LookupID(t) \/ Collect(t) \/ ApplyPointer(t)

EvictorNext ==
  \/ BatchEviction \/ EvictionBegin \/ EvictionCommit \/ EvictionRemove

SaverNext ==
  \/ \E eliminated \in SUBSET Keys : Shrink(eliminated)
  \/ SnapshotDram \/ SnapshotSsd \/ DumpEmbeddingValues \/ SaveDone

\* History: a trainer is between reading a tier and its last use of what it read.
Busy(k) == \E t \in Trainers :
  tr[t].key = k /\ tr[t].pc \in {"tryinsert", "create", "relook", "hold", "prefetched", "collected"}

BeingEvicted(k) == ev.pc = "remove" /\ Head(ev.ids) = k

Torn == {k \in Keys : BeingEvicted(k)' /\ Busy(k)'}
        \cup {k \in Keys : dram[k] # NoPtr /\ dram'[k] = NoPtr /\ Busy(k)}

Running ==
  /\ \/ \E t \in Trainers : TrainerNext(t)
     \/ \E i \in 1..Len(tasks) : i <= CacheThreads /\ RunTask(i)
     \/ EvictorNext
     \/ SaverNext
  /\ torn' = torn \cup Torn

Next ==
  \/ Running
  \/ \E order \in SetToSeqs({k \in Keys : sv.dram[k] # NoValue}) : Restore(order)

Spec == Init /\ [][Next]_vars

-----------------------------------------------------------------------------
\* No key is in neither tier, and an update that a trainer made is what lookups
\* find, whatever moved the key between the tiers since: unless the key was
\* evicted or eliminated in the middle of a trainer's step on it, when the trainer
\* writes to a ValuePtr that is no longer the key's, or inserts an old copy.
UpdatesSurvive ==
  up => \A k \in Keys : truth[k] # NoValue =>
          Visible(k) # NoValue /\ (k \notin torn => Visible(k) = truth[k])

\* A ValuePtr that a trainer or the saver still uses has not been freed, unless
\* an eviction began after more than CAP_INVALID_VALUEPTR others were done, or two
\* Shrinks, since it was taken.
HeldPointerAlive ==
  up => /\ \A t \in Trainers : Holds(t) /\ InTime(t) => Alive(tr[t].ptr)
        /\ \A k \in Keys : sv.ptrs[k] # NoPtr /\ InTime(Saver) => Alive(sv.ptrs[k])

\* add_to_cache never meets a key that was not prefetched, where it would end the
\* process, although the tasks are scheduled by several trainers.
PrefetchedBeforeUsed ==
  up => \A i \in 1..Len(tasks) : i <= CacheThreads /\ tasks[i][1] = "add" => IsPrefetched(tasks[i][2])

\* Whatever is in DRAM is known to the cache, or will be: in the list, prefetched,
\* scheduled, chosen for eviction, or in the hands of a trainer.  A key nobody
\* lists would stay in DRAM for ever.
DramTracked ==
  up => \A k \in Keys : dram[k] # NoPtr =>
          \/ Contains(lru, k) \/ IsPrefetched(k) \/ Contains(ev.ids, k)
          \/ \E i \in 1..Len(tasks) : tasks[i][2] = k
          \/ \E t \in Trainers : tr[t].key = k

\* A restart from the checkpoint finds every key the storage held when the
\* snapshot began, at least as trained as it was then, although keys moved between
\* the tiers while the two were listed and were evicted before they were read.
\* Excepted (Floor) are the keys torn from a trainer's step and, if evictions
\* overtook the saver by more than CAP_INVALID_VALUEPTR, those listed in DRAM: the
\* ValuePtr is freed then and what is saved comes from freed memory.
CheckpointComplete ==
  sv.pc = "saved" => \A k \in Keys : sv.floor[k] # NoValue =>
                       Restored(k) # NoValue /\ Restored(k) >= sv.floor[k]
=============================================================================
