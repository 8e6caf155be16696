# DeepRec in TLA+

DeepRec is a recommendation-model training and serving framework built on
TensorFlow 1.15. This directory models the parts of it whose correctness hangs
on the order of steps: the DRAM and SSD tiers of the embedding storage, the
manager of the eviction threads, the prefetching pipeline, the shared work queue,
incremental checkpoints and the updates of the serving processor. The modules are
checked with TLC on small instances, and their safety properties are
proved with TLAPS for every instance (section 5).

Paths below are relative to the repository; `embedding/` stands for
`tensorflow/core/framework/embedding/`.

## 1. The system

### 1.1 Components

| Component | State | Operations | Behaviour that is hard |
|---|---|---|---|
| `SSDHashKV` (`embedding/ssd_hash_kv.h`), synchronous compaction | hash map from keys to positions, write buffer, numbered files with counters, files to compact | `Commit`, `BatchCommit`, `Lookup`, and inside a commit: flush, file roll, compaction, delayed deletion | compaction reuses the write path of the commit it runs in; positions must follow records through buffer, file and moved copy |
| `SSDHashKV`, asynchronous compaction (the default of the code) | the same, a second write file for the compaction thread | `Commit`; the compaction thread's scan, read, write, swap | no lock between the two threads; they meet in compare-and-swaps and counters |
| `EmbFile` (`embedding/emb_file.h`) | content, `count_`, `invalid_count_`, mapping | write, read, map, delete | a file must fit its mapping |
| Checkpoint of the SSD tier (`ssd_hash_kv.h`, `dram_ssd_storage.h`, `core/kernels/kv_variable_ops.h`) | descriptor, files copied | descriptor under the lock, copy after it, restore in a new process | commits and deletions during the copy; a crash at any time |
| `EvictionManager` (`embedding/eviction_manager.h`) | table of storages, flags per storage, number of loops | `AddStorage`, `DeleteStorage`, `EvictionLoop` | flags instead of locks on deletion, address reuse, a loop that ends while a storage arrives |
| `DramSsdHashStorage`, `MultiTierStorage` | DRAM map, cache, SSD store, value pointers that wait for their destruction | `Get`, `GetOrCreate`, `EvictionWithDelayedDestroy`, snapshots, `Shrink`, restore | a value pointer held by a trainer while its key is evicted; two tiers listed one after the other |
| LRU/LFU caches (`embedding/cache.h`) | recency list, frequency lists, reference counts of prefetched keys | `update`, `get_evic_ids`, `add_to_prefetch_list`, `add_to_cache` | operations run on a thread pool, later than the lookups they report |
| `EmbeddingVar`, filters, shrink policies | front end over a storage; counters, Bloom filter | lookup-or-create, admission, shrink | saturation of counters |
| HBM, PMEM and LevelDB storages, GPU hash table | as their names say | as the SSD storage | ordering of CUDA copies |
| `TensorBuf` (`core/kernels/tensor_buffer_ops.h`) | bounded deque, `is_cancelled_`, `is_closed_`, two condition variables | `Put` with timeout, `Take`, `Cancel`, `Close` | lost wake-ups, timeouts, end of input |
| `PrefetchRunner`, `Coordinator`, `PrefetchRunnerMgr` (`cc/training/`) | threads, `thread_nums_`, `should_stop_`, `is_running_` | `Start`, `Run`, `Stop`, `Join`, restart | threads that end while others start; stop against resume |
| `WorkQueue` (`core/kernels/work_queue_ops.cc`, `python/ops/work_queue.py`) | queue of works on the parameter server, `is_closed_`, saved works of every worker | create, put, take, close, save, restore, local works | restarts of chief, server and workers; ops of one graph that no edge orders |
| Incremental checkpoint (`core/kernels/incr_save_restore_ops.h`, `python/training/incremental_saver.py`) | ids recorded since the full checkpoint, latest full and incremental checkpoint | record, activate, full save, incremental save, failover | training goes on during the saves; a failover between them |
| Serving processor (`serving/processor/`) | sessions with use counters, the serving one, the version | predict, full update, delta update, clearing | the session is replaced and deleted under its clients; scans and restores fail |
| Session groups | sessions, round-robin index | run | none: no state but the index |
| Memory planner, StarServer, FuseRecv, graph passes, `hash_table/` | see `PROJECT.json` | | |

### 1.2 How they interact

Training threads look embeddings up in an `EmbeddingVar`, which asks its
storage. `DramSsdHashStorage::Get` tries DRAM and then calls
`SSDHashKV::Lookup` **without a lock**. The threads of the `EvictionManager`
call `BatchEviction` of every registered storage, which takes the mutex of the
SSD store and calls `Commit`: commits are therefore serialized among themselves
and with `SetSsdRecordDescriptor`, and with nothing else. A save op makes the
descriptor under that mutex and copies the files afterwards. On the input side
`PrefetchRunner` threads run the staged subgraph, which ends in `TensorBuf::Put`;
the training step starts with `TensorBuf::Take`. Trainers report the keys they
used to the cache through a thread pool, and the evicting thread takes the oldest
ones from there. A save op lists the DRAM tier and then the SSD tier, each under
its own mutex. Errors are turned into a stop
request to the `Coordinator`, the end of the input into a `Close` of the buffer.

In a distributed job the parameter server holds the variables and the
`WorkQueue`; the chief creates or restores both when its session is created, and
its hooks save full and incremental checkpoints while the workers train. The
serving processor polls the directories these checkpoints are written to.

### 1.3 What makes each modelled component correct

* SSD store: it is a map. Flush, roll, compaction and deletion are invisible;
  no position dangles; the abort in `CheckBuffer` is unreachable; the counters
  that trigger compaction are exact.
* Lookup: it returns a value that its key had while it ran.
* Checkpoint: it is the map at the time of the descriptor; a restore starts from
  exactly that map.
* Eviction manager: a live storage is served; a destroyed one is left alone.
* Two tiers: a key is always in one of them, with its latest update; a pointer in
  use stays valid; whatever is in DRAM can be evicted; a checkpoint misses nothing.
* Prefetching: no sample twice, no early end of input, nobody blocked for ever.
* Work queue: no failure loses a work; a restarted worker first does its own works
  again; nobody waits for ever.
* Incremental checkpoint: full and incremental checkpoint together hold every step
  done when the latter was begun; an old increment never undoes a newer full one.
* Serving: a session in use is not deleted, one out of use is, and the latest
  model is served in the end.

## 2. Modules

| Module | Models | State and actions |
|---|---|---|
| `EmbFile` | `emb_file.h` | operators: `Write` appends the buffer, `Read` yields `Garbage` outside of the file, `IsNeedToBeCompacted` |
| `KVStore` | abstract | what the SSD tier promises: a map, and the batch accepted last, whose records take effect one by one, in order, and which alone changes the map |
| `SSDHashKV` | `ssd_hash_kv.h`, synchronous | the fields of the class keep their names; `pc` follows the one commit in progress. One action per step a lock-free reader can see between: `BatchCommit` (with the trigger of compaction and `DeleteInvalidFiles`), `InitializeEvictMap`, `MoveFile`/`MoveItem`/`EndOfFile`/`EndOfCompaction` (the loops of `MoveToNewFile`), `NextRecord`/`EndOfCommit`, `WriteBuffer` and `UpdateFlushStatus` (`CheckBuffer`), `AppendToWriteBuffer` and `Publish` (`SaveKV`) |
| `SSDHashKVLookup` | `Lookup` against `SSDHashKV` | `Find`, `LoadFlushed`, `CopyRecord`, `Return`: the loads of `Lookup` one by one, with the histories the properties need |
| `CheckpointStore` | abstract | what checkpoint and restore promise |
| `SSDHashKVCheckpoint` | checkpoint over `SSDHashKV` | `SetSsdRecordDescriptor` (lists, then flush), `CopyFile`, `CopyFileFails` (the `LOG(FATAL)`), `CheckpointComplete`, `Crash`, `LoadExistFile`, `EndOfLoad`, `Import` |
| `SSDHashKVAsync` | `ssd_hash_kv.h`, asynchronous | `pc` is the committer (`SaveKVAsync` cut at each access to shared data), `c_pc` the compaction thread (`CompactionAsync`, the key-by-key scan of `LookupValidItems`, `MoveToNewFileAsync`, `FlushAndUpdate`) |
| `EvictionManager` | `eviction_manager.h` | `AddStorage`, the steps of `DeleteStorage` between its accesses to the flags, and the steps of `EvictionLoop`. `mu_` is a variable because a loop holds it over a whole pass |
| `TensorBuf` | `tensor_buffer_ops.h`, `.cc` | every critical section is a step, and so is every `notify_all`, which the code issues after the unlock. A woken thread tests its predicate again; spurious wake-ups occur |
| `PrefetchRunner` | `cc/training/prefetch_runner.cc`, `coordinator.cc`, `python/ops/prefetch.py` | extends `TensorBuf` by the threads that call it: `Start`'s loop, `Run` with its error classes, `Stop` on the cancel thread, `Join`, restart |
| `LRUCache` | `LRUCache` in `cache.h` | operators and actions on `lru` and `prefetch_id_table`, one per method, each under the mutex of the cache |
| `DramSsdStorage` | `dram_ssd_storage.h`, `multi_tier_storage.h`, `single_tier_storage.h`, `embedding_var.h`, the apply and save ops | extends `LRUCache`. Trainers: `DramGet`, `SsdGet`, `TryInsert`, `ReGet`, `Create`, `ReLook`, then `Apply`, or `LookupID`, `Collect`, `ApplyPointer` of a prefetched step. Cache thread: `RunTask`. Evicting thread: `BatchEviction`, `EvictionBegin`, `EvictionCommit`, `EvictionRemove`. Saver: `Shrink`, `SnapshotDram`, `SnapshotSsd`, `DumpEmbeddingValues` (a read through a freed `ValuePtr` yields anything: `Readable`), `SaveDone`; `Restore` in a new process. The SSD tier is the map of `KVStore` |
| `WorkQueue` | `work_queue_ops.cc`, `work_queue.py` | the ops of the chief's start (`Create`, `Put`, `Close`, and `Restore` at any time between them), `Save`, the take of a worker from its local queue or from the server, `SaveLocalWork` (a work is `<<table, range>>`, its file is named by `Slice`, the range, and emptied before it is written), `OrphanTake`, and the three failures, of which `WorkerFails` may come at any point of the saving |
| `IncrementalCheckpoint` | `incr_save_restore_ops`, `incremental_saver.py`, `CheckpointSaverHook` | a step of a worker is `Begin`, `Apply` and `UpdateIndices` in either order, `CountStep`; a full save is `FullSaveBegin`, `SaveRow` and `ActivateSparseRecorder` in any order, `FullSaveEnd`; `IncrSaveBegin`, `IncrSaveEnd`; `Failover` |
| `LocalServing` | `model_session.cc`, `model_instance.cc`, `model_store.cc` | clients `ReadServing`, `Enter`, `Leave`; the updater `ScanFull`, `ScanDelta`, `CreateModelSession`, `SwapServing`, `RetireOld`, `DeltaBegin`, `DeltaEnd`, with their failures; `CleanupModelSession`; `Publish` is the training job |
| `SSDHashKVProofs`, `SSDHashKVAsyncProofs`, `EvictionManagerProofs`, `PrefetchRunnerProofs`, `DramSsdStorageProofs`, `WorkQueueProofs`, `IncrementalCheckpointProofs`, `LocalServingProofs` | | inductive invariants and proofs about the module they are named after (section 5); `SSDHashKVProofs` is also about `SSDHashKVLookup` and `SSDHashKVCheckpoint`, `PrefetchRunnerProofs` about `TensorBuf` and `DramSsdStorageProofs` about `LRUCache` |
| `MC...` | | one module per group of runs; symmetry of keys and values where all properties are safety |

The exact lines of every definition are in `PROJECT.json` (`map`). A definition
whose comment begins with "Faulty variant" is a plausible mistake in the
definition that follows it; putting it in that definition's place makes TLC
refute the property it is listed with in `PROJECT.json` (`mutants`).

### Abstractions

* A record is one value of `Values`; offsets and buffer offsets are counted in
  records (`val_len_` bytes each). `Garbage` is the content of memory and of
  file space nobody wrote.
* An `EmbPosition` is a value. In one store `<<version, offset>>` names the
  object; its mutable field `flushed_` is a set of positions. The time at which
  positions are freed is not modelled.
* The order in which a lock-free hash map is traversed is arbitrary, except
  where the code uses an ordered container.
* In the synchronous store committers are serialized by the mutex of the SSD
  storage, so one `pc` is enough.
* In `DramSsdStorage` and `IncrementalCheckpoint` an embedding is the number of
  updates made to it, so that a lost update is a smaller number. A `ValuePtr` is a
  number never used twice, so that a use after free stays visible.
* The deque of the work queue is a bag: the works are shuffled by default.
* A model being served is the directory, full step and delta step it was restored
  from.
* `AtomicInt` counters, `__sync_*` operations and writes of one word are single
  steps. Memory is sequentially consistent.

## 3. Runs

The runs of the SSD store use two keys and two values: one key to be overwritten and one to
keep its old record alive in the same file is the smallest instance in which a
file is compacted while it still holds a valid record. `MaxAppCount = 2` makes
the buffer hold a record next to the one being written, and lets one of the two
records of a file be out of date, which is above the threshold of compaction (a
third). `MaxFiles = 3` is enough for a file to be filled, compacted into another
and deleted one compaction later, with commits going on. `CapInvalidId` (10^7 in the
code) only forces compaction of a very large store; it is set out of reach.
`MaxAppended` bounds `total_app_count_` where a commit begins, in `ssd_ckpt` (5)
and `ssd_async` (6). With two keys compaction is due from 4 on, so the bound
leaves room for it to be late; beyond it the files of `MaxFiles` are nearly used
up and most behaviours end before compaction can begin a file.

| Run | Bounds | Shows |
|---|---|---|
| `ssd_sync` | batches up to 2 | `ImplementsKVStore`: refinement of `KVStore`. `NoDanglingPosition`, `FlushFindsEveryKey`, `CompactedOnce`, `FileFitsMapping`, `CountersExact`; and `IInv`, the invariant of the proofs |
| `ssd_lookup` | one reader, single commits | `DelayedDeleteProtectsReaders`: deleting files one compaction late is enough for a lookup that overlaps at most one compaction. `LookupInWindowIsCurrent`: within that window, and unless the write buffer is recycled under it, Lookup is correct |
| `ssd_ckpt` | one checkpoint, one death after it, any number before | `ImplementsCheckpointStore`: refinement of `CheckpointStore`. `NoDanglingPosition`, also after a restore |
| `ssd_async` | single commits | `ImplementsKVStore`, `NoDanglingPosition`, `InvalidCountExact` with the compaction thread at any point |
| `eviction` | 2 addresses, 3 storages, 2 active loops of 3 threads | `EntryKept`, `NoEvictionStartsAfterDelete`, and, with fairness, `ServedStorageIsEvicted` |
| `prefetch` | 2 workers, 1 client, capacity 1, 2 samples, all error classes, 2 runs | `EOFMeansDrained`, `NoSampleTakenTwice`, `ThreadNumsExact`, over a restart on the same buffer |
| `prefetch_live` | 1 run, unexpected errors | `EndOfInputReleasesTakers`, `StopRunnersReturns` |
| `dram_ssd` | 2 keys, 2 trainers, cache of 1, 3 steps, 1 save, destruction at the next eviction (`CapInvalid = 0`) | `UpdatesSurvive`, `HeldPointerAlive`, `PrefetchedBeforeUsed`, `DramTracked`, `CheckpointComplete` |
| `work_queue` | works of 2 tables with the same range, 1 epoch, 2 workers of which one saves its works, 2 failures | `NoWorkLost`, `RestoredWorksTakenFirst` and, with fairness, `TakersAnswered` |
| `incr_ckpt` | 2 rows, 2 workers, 3 steps, 3 saves, 1 failover; a normal variable | `IncrementCoversSteps`, `NeverBehindFull` |
| `incr_ckpt_ev` | 2 saves; an embedding variable | `IncrementCoversSteps` **fails**: the import of the increment leaves keys that exist at their old value |
| `serving` | 2 clients, 2 checkpoints published, 2 failures, giving up after 2 | `RunningSessionAlive` and, with fairness, `ReplacedSessionsDeleted`, `LatestServedInTheEnd` |

A capacity of 1 makes two workers block on a full buffer; two samples let one be
in the buffer while another is in a blocked `Put`; two workers are needed for
"the last one closes". Two addresses and three storages make one address be
reused while the other storage lives; two loops make them meet on one storage.
Two keys and a cache of one make every lookup of the other key an eviction; three
steps let one trainer bring a key back while the other is on it. One key is on SSD
at the start, the other is new. Two saves of either kind and a failover are the
least in which an increment is older than a full checkpoint; a third save lets an
increment follow a failover. Two published checkpoints let a scan meet a full and a
delta one half way, or a new directory. Two works
are enough for one to be handed out and one to be in the queue when the checkpoint is
taken, and for the second to overwrite the file of the first, or to empty it and die; two
failures let the server fail and the chief during the start-up that follows, or a worker
while it takes its works again. `CapInvalid = 0` lets evictions free a
pointer under the saver or a trainer, so both sides of the exception in
`CheckpointComplete` and `HeldPointerAlive` occur.
No run checks for deadlock: a store at rest, a runner that was stopped and a
program that creates no more storages legitimately do nothing, and the bounds
end a behaviour.

### Fairness

Safety runs assume none. `EvictionManager`: a pool thread that runs
`EvictionLoop` and a thread inside `DeleteStorage` keep running (weak fairness
per thread); nothing makes the program create or destroy storages.
`PrefetchRunner`: every thread, and every call into the buffer, keeps running
(weak fairness per thread; a condition variable only moves a waiter to the test
of its predicate). The deadline of `wait_for` does not move when the thread is
woken in between, so a `Put` that waits again and again does time out: strong
fairness of `PutTimeout`. Clients are not obliged to call `Take`, and nobody to
call `StopRunners`. `WorkQueue`: a failed chief is restarted and runs its ops, and
the session, barrier and take op of every worker make progress (weak fairness of
`ChiefNext` and of `TakerNext(w)`); saving is not obliged to happen, and the
orphaned takes have no fairness. `LocalServing`: the updater and the clearing
thread are loops of their own threads, and a client that began a request finishes
it (weak fairness of each); a scan or restore may fail every time until the bound
of failures, since no fairness is assumed of the good outcome. These are what the thread scheduler and the standard library
give; no fairness is assumed between the branches of a step.

## 4. Disagreements between the code and what is said of it

`incr_ckpt_ev`: `docs/docs_en/Incremental-Checkpoint.md` promises that after a
failover the parameters are restored from the full checkpoint and the increments.
For an embedding variable `Import` (`nullable_filter_policy.h:146-184`) creates
missing keys and copies a saved value only into an embedding that has none yet
(`value_ptr.h:402-423`); a key the full checkpoint restored keeps its old value.
The quotation is in `PROJECT.json` (`findings`). The serving processor restores its
deltas with the same op into the session that serves, so the finding concerns them too:
`LatestServedInTheEnd` says which checkpoints were restored, not what the import did.

Known limits, met while modelling, without a run of their own. Those of the
modelled parts are outcomes of the models; the properties name the exception they
make for them.

SSD store, eviction manager and prefetching:

* `ssd_hash_kv.h:367`: a `Lookup` that outlives two compactions, or the reuse of the
  buffer slot it reads, may return another key's record (the window of
  `LookupInWindowIsCurrent`).
* `kv_variable_ops.h:277`: a file of the descriptor may be deleted by compaction
  before the saver copies it, which ends the process (`CopyFileFails`).
* `ssd_hash_kv.h:488`: restore moves `current_version_` but not `evict_version_`, so
  the compaction thread of a restored asynchronous store appends to file 0.
* `eviction_manager.h:121`: a storage that is added while the last loop has decided
  to end is served by nobody until the next `AddStorage`.
* `prefetch_runner.cc:56`: `Start` reads `thread_nums_` while threads lower it and may
  create one thread too few; then nobody closes the buffer.
* `ssd_hash_kv.h:321`: the destructor joins the compaction thread only when the
  write buffer is not empty; `ssd_hash_kv.h:593`: replaced positions are freed after
  a queue of fixed length, however slow a reader is.
* `ssd_hash_kv.h:504`: `emb_files_` is a vector that grows while lock-free lookups, and
  the other of committer and compaction thread, index it; a growth that moves its
  elements is not modelled.
* `ssd_hash_kv.h:659`: the committer may queue a file for compaction after the compaction
  thread erased it from the queue, so a file already deleted may be taken, and deleted, again.
  It holds no valid record; `deleted` is a set, in which the second deletion does not show.
* `ssd_hash_kv.h:733`: the asynchronous compaction subtracts an invalid count that
  the committer may still raise, so `total_app_count_` drifts.
* `prefetch_runner.cc:130`: after an ignored error of the feed generator the loop
  reads the values the failed run left empty.
* `ssd_hash_kv.h:294`: a compacted file that waits for its deletion is saved in
  a checkpoint with an invalid-record count that leaves out the records that
  were moved away.
* `eviction_manager.h:61`: a storage constructed at the address of a destroyed
  one whose entry is still in the table is taken for the destroyed one and never
  evicted from (`own[a] = NoItem` in the model).
* `eviction_manager.h:76`: `DeleteStorage` clears the flag a loop has set, so a
  `BatchEviction` that has begun may outlive the storage.
* `prefetch_runner.cc:90`: a late resume op takes the cancellation of `Stop`
  back, and a client may stay in `Take` after the runners were stopped.
* `prefetch_runner.cc:62`: `is_running_` may stay true when the threads and
  `Stop` end before `Start` returns; `prefetch_runner.cc:83`: `Join` always
  returns OK.
* `tensor_buffer_ops.h:105`: resuming does not clear `is_closed_`; after a
  restart on a closed buffer EOF may be reported early. `EOFMeansDrained` is
  stated for buffers that were open when the runners started.
* `ssd_hash_kv.h:228-230` makes asynchronous compaction the default where
  `docs/docs_zh/Multi-tier-Embedding-Storage.md:146` says an unset variable
  means synchronous compaction.

Tiers of the embedding storage:

* `dram_ssd_storage.h:252`: a key evicted or shrunk between a trainer's lookup and
  its update loses the update (`torn` in the model); with two trainers `ReGet` may
  find the key gone again and `GetOrCreate` then ends the process.
* `value_ptr.h:409`: the second test of the double-checked lock reads a copy made
  before the lock, so the slower of two creators overwrites the faster one's value.
* `TF_MULTI_TIER_EV_CACHE_THREADS > 1` runs cache tasks out of order, and
  `add_to_cache` (`cache.h:245`) may end the process: `PrefetchedBeforeUsed` fails
  with `CacheThreads = 2`.
* `multi_tier_storage.h:281`: a saver that more than `CAP_INVALID_VALUEPTR` (65536)
  evictions overtake between its snapshot of DRAM and `DumpEmbeddingValues`
  (`kv_variable_ops.h:285`) reads freed memory and saves it, and at the restore this
  wins over the record on SSD: `CheckpointComplete` is about savers that were in time
  (`Floor`). A trainer that is overtaken writes to freed memory; the model lets such a
  write go nowhere, and what it does to other data is not modelled.
* The pool of cache threads (Eigen's) runs a task in the scheduling thread when its queue
  of 1024 tasks is full, which loses the order `PrefetchedBeforeUsed` rests on; the model's
  queue has no limit.
* A key that is only looked up is never reported to the cache, hence stays in DRAM.
* `Shrink` eliminates keys of the DRAM tier only: an old record on SSD comes back.

Work queue:

* `work_queue.py:252-270`: when the chief dies between create and close, or the
  restore op runs between create and put, epochs are put on top of works that are
  there already; the docstring says each work is produced `num_epochs` times.
* `work_queue_ops.cc:316`: a take op outlives its worker and pops a work for nobody.
* `work_queue_ops.cc:360`: the file of a saved work is named by its range. Works of two
  tables with equal ranges overwrite each other's file, and a worker that dies between
  the truncation and the append leaves it empty; such works are not taken again after a
  restart (`clobbered`, excepted in `RestoredWorksTakenFirst`).
* `work_queue_ops.cc:348`: a work without a "?", a missing directory or a failed write
  fails the worker's step after the work was popped: to the queue it is handed out
  (`WorkerFails`).
* `work_queue_ops.cc:316`: takes run on a pool of `num_clients` threads; the model
  gives each its own. A close wakes all that wait, so this delays takes, no more.
* `work_queue.py:521`: with more than 1024 saved works the enqueue of the local works
  waits for takers that wait for the barrier it is to lift. Saved works are never
  deleted.

Incremental checkpoint:

* `saver.py:344`: the recorder is cleared at any time during the full save; a row
  saved before and recorded before the clearing is in neither checkpoint (`torn`).
* A recorder exists only after the first training step, so the full save at the
  start of a session activates nothing, and the increments until the next full
  save are empty (`recording`).

Serving:

* `model_instance.cc:883`: `FullModelUpdate` takes the version over with its delta
  before the delta is restored; when that fails it is not tried again (`skipped`).
* `model_session.cc:396`: a client that read the pointer before the swap and counts
  itself after it may run on a deleted session (`late`).
* `model_instance.cc:668`: the instance is deleted before its updater is joined.
* `direct_session_group.h:81`: `GetServingSessionId` stores a 64-bit index in an
  `int32_t` before the remainder is taken, which is negative after 2^31 requests.

## 5. Theorems

Every theorem holds for every value of the constants: any number of keys, threads,
files, steps, failures and checkpoints. Hardly any of the properties is inductive as it stands.
Each proof module defines the invariant that is, `IInv`, as a conjunction of named
parts, and proves `Init => IInv`, a lemma per action or group of actions for
`IInv /\ [Next]_vars => IInv'`, and `Spec => []IInv`; the properties follow.
Before it was proved every `IInv` was checked with TLC on the instance of the run
(`ssd_sync` lists the one of the synchronous store).

| Module | Theorem | States |
|---|---|---|
| `SSDHashKVProofs` | `TypeCorrect`, `NeverDangling`, `FlushNeverAborts` | `[]TypeOK`, `[]NoDanglingPosition`, `[]FlushFindsEveryKey` |
| | `FilesFitTheirMapping`, `FilesCompactedOnce` | `[]FileFitsMapping`, `[]CompactedOnce` |
| | `Refinement` | `Spec => ImplementsKVStore` |
| | `CountersAreExact` | `[]CountersExact` |
| | `ReadersProtected`, `LookupsAreCurrent` | `[]DelayedDeleteProtectsReaders`, `[]LookupInWindowIsCurrent` of `SpecLookup` |
| | `CheckpointRefinement` | `SpecCheckpoint => ImplementsCheckpointStore` |
| | `NeverDanglingAfterRestore`, `StoreSoundAfterRestore` | `[]NoDanglingPosition`, `[](FileFitsMapping /\ CompactedOnce /\ FlushFindsEveryKey)` of `SpecCheckpoint` |
| `SSDHashKVAsyncProofs` | `TypeCorrect`, `NeverDangling` | `[]TypeOK`, `[]NoDanglingPosition` |
| | `CountsAreExact` | `[]InvalidCountExact` |
| | `Refinement` | `Spec => ImplementsKVStore` |
| `DramSsdStorageProofs` | `UpdatesAreKept`, `HeldPointersAlive`, `DramKeysTracked`, `CheckpointsComplete` | `[]UpdatesSurvive`, `[]HeldPointerAlive`, `[]DramTracked`, `[]CheckpointComplete` (with the exceptions of `Floor`) |
| | `PrefetchedFirst` | `[]PrefetchedBeforeUsed`, if `CacheThreads = 1` |
| `EvictionManagerProofs` | `TypeCorrect`, `EntriesAreKept` | `[]TypeOK`, `[]EntryKept` |
| | `NoLateEviction` | the action property `NoEvictionStartsAfterDelete` |
| `PrefetchRunnerProofs` | `TypeCorrect`, `ThreadNumsCorrect`, `NeverTakenTwice`, `EOFIsTheEnd` | `[]TypeOK`, `[]ThreadNumsExact`, `[]NoSampleTakenTwice`, `[]EOFMeansDrained` |
| `WorkQueueProofs` | `FailoverLosesNoWork`, `RestoredFirst` | `[]NoWorkLost`, `[]RestoredWorksTakenFirst` |
| `IncrementalCheckpointProofs` | `FailoverNeverBehindFull` | `[]NeverBehindFull`, for normal and embedding variables |
| | `IncrementIsComplete` | `[]IncrementCoversSteps`, if `~IsEV` |
| `LocalServingProofs` | `NoSessionDeletedUnderClient` | `[]RunningSessionAlive` |

Each module also has `InductiveInvariant`. `SSDHashKVProofs` has
`LookupInductiveInvariant` for the store with its readers, `CheckpointInductiveInvariant`
for the store with its checkpoints and `CountersInvariant` for the counters; those
invariants, too, were checked with TLC first.

Two theorems have a hypothesis. `PrefetchedFirst` assumes one cache thread, the
default of the code; with two the property fails (section 4). `IncrementIsComplete`
is about normal variables; for embedding variables `incr_ckpt_ev` refutes it.

The other assumptions are those of the constants, named `...Assumption` in the
module that declares them: sizes and bounds are natural numbers (a buffer, an epoch
count and a retry count positive ones), the sets that are counted are finite
(the keys of a store among them), and
`NULL`, `NoKey`, `NoRecord` and the like are not members of the set they stand outside
of (`NULL` is no position, descriptor, checkpoint or map). `LoopsAssumption` says that the thread pool has the `NumOfThreads` threads the
code gives it.

### The synchronous store

Lookups survive a flush because every buffered record is written at the offset its
position promised long before; they survive compaction because every key that
points into a file of `evict_file_map_` is still waiting to be moved, or is being
moved, with the position the hash map has now.

* `FilesInv`: the offset the next position gets is where the buffer will be
  written; compaction never touches the current file;
* `PositionInv`: a flushed position lies within its file; one that is not
  flushed is in its key's buffer slot, and its file and offset are where the
  flush will put it, or, between `WriteBuffer` and `UpdateFlushStatus`, has put
  it;
* `BufferInv`: every buffered key is in the hash map, except the one being
  published;
* `SaveInv`: what `SaveKV` carries is what it appended, and a store at rest has
  nothing left to commit;
* `MoveInv`: the bookkeeping of `MoveToNewFile` described above, which is what
  allows `DeleteInvalidFiles` to delete at the next compaction.

One lemma per action shows that it preserves each part and leaves every lookup
unchanged, or changes the one of the record being committed. The refinement maps
`pending` to the records of the batch that no lookup sees yet (`Pending`);
`StepRefines` shows that every step is a `BatchCommit` or `Commit` of the abstract
store or leaves map and batch alone.

`SizeInv`, on top of `IInv`, says that the current file is empty on disk and that
its `count_` is the number of buffered records that are published: a buffer that is
written therefore fills its file to the last record, and none outgrows its mapping.

`CountInv`, on top of `IInv`, `SizeInv` and `CompactedOnce`, is what `CountersExact`
becomes in the middle of a commit. Of every file that is live or that `MoveToNewFile`
has not turned to yet, the records minus the invalid ones are the keys that point to
it. `total_app_count_` is the number of records of those files plus what it counts ahead
of them (`CountedAhead`): the items still to be moved, the record being saved, and the
rest of the batch once `BatchCommit` has added its length. The total is the cardinality
of a set of records, not a sum, so that no induction over the files is needed:
publishing a record adds one element, opening a file for compaction takes its block
away and puts the items in its place.

`ReaderInv` adds the readers. For each it relates the file of the position found to
the number of compactions since (`RoundsInv`: none, the file is not even
taken for compaction; one, it is not deleted yet), the record that
position holds to the values its key had since the lookup began (`ValueInv`), and
the copy of `flushed_` the reader took to the flag as it is now (`FlagInv`).

`CkptInv` adds save and restore to `IInv`:

* `DescInv`: every position the descriptor lists is inside a listed file and its record
  is already in it, in the copy if the file is copied, on disk otherwise. Files only
  grow (`FilesGrow`), so commits and compactions during the copy do not change what the
  descriptor means; a listed file that is deleted before it is copied ends the process;
* `CompleteInv`: the same of a complete checkpoint, which holds every file it lists;
* `LoadInv`: until `Import` the restored store is empty but for its files
  (`StoreEmpty`), and each loaded file has the content of the file of the checkpoint
  that `file_id_map` says, at a version below the current one.

`CkptStepRefines` maps the steps: `SetSsdRecordDescriptor` begins the abstract save,
`CheckpointComplete` ends it, `Crash` and `CopyFileFails` are the crash, `Import` is the
restore; a step of a commit is one of `KVStore`, and everything else, `CopyFile` and
`LoadExistFile` above all, changes nothing abstract. `RestoreInv` carries `SizeInv` and
`CompactedOnce` over saves and restarts; it needs that the copies are no longer than a
file may be (`CopiesFit`).

### The asynchronous store

The two threads share no lock, so `IInv` says for each what the other relies on:
whose file is whose and what is in it (`EvictFileInv`, `CompactionFileInv`), what the
committer and the compaction thread carry (`SaveInv`, `ProgressInv`, `HeldInv`),
where the hash map may point (`PositionInv`, `BufferInv`), and the key argument,
`CoverInv`: a key that points into a file compaction has taken is still in
compaction's hands, at the position the hash map has now. The scan may miss a key
only by the committer's moving it away, and a failed compare-and-swap means the same.
The linearization point of a commit is its insert or compare-and-swap. `CountInv`
balances every file between any two steps: records minus invalid ones are the keys
that point to it plus those in flight (`Unsettled`).

### The two tiers

* `Basics`: types (`TypeOK`), who is on a key (`ThreadInv`), every `ValuePtr` that is
  referred to exists (`RangeInv`), and every embedding plus the steps in progress is
  within the steps begun (`BoundInv`), so that none reaches the number that stands
  for "no value".
* `TrackInv`: a key in DRAM is in the list, prefetched, scheduled, chosen, or with a
  trainer that has not handed it back yet: stronger than `DramTracked`, for the
  trainer's report comes with its hand-back.
* `KeptInv`: a pointer in use is in DRAM, or among the retired ones at a place from the
  end that the evictions since it was taken account for, or shrunk after it was
  taken. This place is what makes a queue of fixed length safe.
* `PtrInv`: a `ValuePtr` is one key's, a user of it is on that key, and a copy from SSD
  that is not inserted yet is known to its maker only: a write through a pointer
  changes no other key.
* `ValueInv`: a lookup finds the latest update of a key that is not torn. While the
  evicting thread is between commit and remove, the two tiers agree and nobody is
  on the key; a copy in a trainer's hands is still what SSD holds; who is about to
  create a key finds none on SSD.
* `SaveInv`: while the checkpoint is made each key is above its floor in the tier it
  will be saved from: through the pointer listed, which is still written through, or
  on SSD, which only evictions raise. That the pointer can still be read when the values
  are dumped is `KeptInv`, for a saver that is in time (`KeptAlive`).
* `RefInv`, with one cache thread: in no prefix of the task queue do the releases of
  a key outnumber its references and the prefetches before them; over the whole queue
  the difference is the number of trainers between `LookupID` and `Collect`.

The steps of a trainer are first brought to a few effects (`Took`, `Moved`, `Copied`,
`Inserted`, `Created`, `Scheduled`, `Wrote`, `Died`; lemma `TrainerEffect`), and each
part is shown for the effects rather than for the ten actions.

### Eviction, prefetching, work queue, incremental checkpoint, serving

* Eviction manager: `ItemInv` (an item belongs to one address, for ever) separates a
  storage from a former one at its address; `DeleteInv` and `EntryInv` tie the flags
  to the life of the storage; `MutexInv` says that a loop in a pass holds `mu_`, so that
  the entry it visits stays; `ActiveInv` counts the loops.
* Prefetching: `SampleInv` has every sample in one place (taken, buffered, carried into
  `Put`, lost to an error); `CountInv` makes `thread_nums_` the number of workers not
  ended, hence the worker that closes is the last one (`CloseInv`), hence EOF means
  drained (`EofInv`).
* Work queue: the server and the workers are independent (`ServerInv`, `WorkerInv`).
  `FillInv` follows the chief's start: the epochs put so far are accounted for in the
  queue or handed out, and a closed queue has them all; `CkptInv` says the same of the
  checkpoint. `FilesInv`: every work a worker was given is in its files, unless its file
  was lost to another work or to a death (`clobbered`); `LocalInv`: of what its earlier
  processes were given, a worker past its barrier has every work in its local queue,
  took it again or lost its file.
* Incremental checkpoint: rows only grow and a step counted is an update applied
  (`CountInv`, `RowsInv`), names follow the global step (`StepInv`), and a row that is
  not recorded since the full save is still as that one saved it (`FullSaveInv`,
  `RecordInv`).
* Serving: `CounterInv` makes the counter of a session the number of clients on it, and
  `ServingInv` keeps the serving session, and the one about to serve, out of the reach
  of both deleting threads.

### Only model-checked

All liveness properties (`ServedStorageIsEvicted`, `EndOfInputReleasesTakers`,
`StopRunnersReturns`, `TakersAnswered`, `ReplacedSessionsDeleted`,
`LatestServedInTheEnd`): the proof system handles neither fairness nor `ENABLED`.
Every safety property of a passing run, and every refinement, is stated by a theorem.

## 6. Not modelled

The reasons are listed per component in `PROJECT.json`. In short: the LFU cache
differs from the LRU cache only in which key it evicts; counter and Bloom filters
only count; storages for GPU memory depend on the ordering rules of the CUDA
runtime, the remote mode of the serving processor on an external store; the memory
planner is heuristic and has no contract to check; StarServer and FuseRecv are
transports under TensorFlow's rendezvous; graph passes have no concurrent state;
TensorFlow itself, by far the largest part of the repository, is upstream code.

Within the modelled components: `SSDHashKV::Remove` (no storage calls it), the
destructor, `SSDIterator`, and the lifetime of replaced `EmbPosition` objects; the
header bits of a `ValuePtr`; partitioned variables and `CollectSparseIndices` of the
incremental checkpoint; a change of the works between two runs of a job.

## 7. Plan

Done, in this order: the synchronous store with its proofs; lock-free lookups;
checkpoint and restore; the asynchronous store; prefetching; eviction manager; the
two tiers with the LRU cache; incremental checkpoints; serving; the work queue.

The theorems of section 5 followed in the order: synchronous store and its readers,
eviction manager, incremental checkpoint, serving, work queue, prefetching,
asynchronous store, the two tiers, the counters of the synchronous store, the
refinement of `CheckpointStore`.
