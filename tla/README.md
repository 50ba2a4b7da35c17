# A TLA+ verification of libttak

libttak is a C runtime library: memory whose lifetime is managed by epochs, shared
containers, a sharded thread pool with futures, and many sequential data structures
around them.  This project models the library's protocols and the data structures whose
bookkeeping is easy to get wrong, and the crash recovery of two of its applications, in
TLA+, and checks them with TLC on small instances.  For epochs, shared containers, the pool
and its futures, the memory tree and the dynamic mask, for owners and endpoints, and for the
recovery of both applications, TLAPS proves safety properties for any number of threads and
objects (section 4).
Paths below are relative to the repository; `PROJECT.json` maps each definition to
its lines.

## 1. The system

### Components, their state and what makes them correct

| Component | State | Operations | Correct when |
|---|---|---|---|
| Epoch-based reclamation (`src/mem/epoch.c`, `include/ttak/mem/epoch.h`) | global epoch; lock-free list of thread nodes (owner, local epoch, active); buckets of retired nodes (the OLS plane); reclaim lock | register, deregister, enter, exit, retire, reclaim | nothing is freed while a section that was open at its retirement is open; no node is lost, freed twice, or shared; what is retired is freed in the end if callers go on calling reclaim |
| Shared containers (`src/shared/shared.c`) | payload pointer, size, timestamp, status bits, owner mask, rwlock, striped timestamps | access / release, access_ebr / release_ebr, swap_ebr, sync_all, retire | a payload held in a section, or under a read lock that swaps respect, is not freed; each payload is retired by one swap; size and pointer agree; a denied access leaves no trace |
| Thread pool (`src/thread/pool.c`, `worker.c`) | shards (lock, condition, priority queue), shutdown flags, workers | create, submit, schedule, steal, timed wait, abort, force_shutdown, destroy | no task lost or run twice; accepted tasks are fetched; workers end after shutdown |
| Async (`src/async/*.c`) | promise and future with ready and released flags | async_call, future_get, future_release, set_value, shutdown | the pair is freed once, by the last of its two holders; nobody uses it after |
| Memory tree, epoch GC (`src/mem_tree/mem_tree.c`, `src/mem/epoch_gc.c`, `arena_helper.c`) | nodes with reference count, expiry and pressure; cleanup thread | add, acquire, release, cleanup, manual / automatic, rotate | a node is freed once, never while referenced; expired garbage is collected |
| Tracked allocator (`src/mem/mem.c`) | pointer map, tiers, headers | alloc, access, unuse, free | one free per allocation, also through the memory tree |
| Detachable memory (`src/mem/detachable.c`) | generation rows, small cache, quarantine | alloc, free, mark, quarantine | a pointer has one holder: user, row, cache or quarantine |
| Dynamic mask (`src/mask/dynamic_mask.c`) | capacity, bits | set, clear, test while growing | growth loses no bit; a test in a section reads no freed array and answers what its bit was |
| Sessions and endpoints (`src/net/`) | session tree with states and flags; guard, descriptor and generation of an endpoint | open, close, tick, restart, shutdown, dispatch; bind, snapshot, commit | a session is retired once; offloaded work does not revive a closed one; an endpoint closes its own descriptors only |
| I/O guards (`src/io/`) | owner, fd, TTL | init, refresh, close | a closed descriptor is not used |
| Priority queue, scheduler (`src/priority/`) | slot array, heap, free list | push, pop, adjust | order; slots and heap agree when one of them cannot grow |
| Buddy allocator (`src/phys/mem/buddy.c`) | free lists, segments | alloc, free, coalesce | blocks are disjoint and cover the pool |
| Hash tables, trees, ring buffer, object pool (`src/ht`, `src/tree`, `src/container`) | sequential data | put, get, remove | agree with a function, set or sequence |
| Owners (`src/mem/owner.c`) | map name -> pointer and pointer -> name | register, transfer, unuse | the two directions match; no resource has two names |
| Lattice (`src/net/lattice.c`, `view.c`) | list of nodes with slots and counters | write, view, read, release, compact | a slot has one worker; counters agree with slots |
| Big integers (`src/math/bigint.c`) | limbs and sign | set, add, subtract, multiply, divide, Mersenne reduction | agree with the integers |
| Range scanner (`src/apps/immature/aliquot-swipe-amicable-by-3`) | block states, requeued blocks, frontier; a journal and a checkpoint on disk | recover, dispatch, scan, record, stop | what counts as verified was scanned; no block is dispatched twice or forgotten, over restarts |
| Seed tracker (`src/apps/immature/aliquot-tracker`) | ledgers, registry, pending seeds; a log per ledger and a queue file on disk | load, warm up, hunt, run, retry, flush, stop | an accepted seed is recorded, pending or on disk; the logs are what was persisted of the ledgers |
| Other mathematics, security, accelerators, logging, statistics, timing, limits, platform shims, locks | data or wrappers | | not protocol state |

### How they interact

* Shared containers, sessions, detachable memory and the garbage collector hand dead
  memory to `ttak_epoch_retire`; readers protect themselves with enter and exit.
* A pool worker runs each task function inside an epoch section
  (`worker.c`), and `ttak_future_get` leaves that section while it blocks.
* `ttak_async_call` builds a task, a promise and a future and asks the pool to schedule
  it; if the pool is closed or gone it runs the task in the caller, in a section.
* The range scanner and the tracker run their blocks and seeds as tasks of a pool; its
  destruction drops what is queued, which their files must make up for.
* A task function may itself submit tasks and wait for them: a worker is then a client
  of its own pool.

### What is hard

Readers that come and go behind a scan; thread nodes handed over between two loads of
the scan; retire, splice and reclaim on one bucket; a counter that wraps; a swap
between a reader's load and its use; shutdown between the two checks of a submission or
between a worker's check and its wait; the last reference of a future; nested waits
that block all workers; a cleanup pass between the last release and the report it makes;
a chunk that is cached before it is untracked; a capacity published before its array;
growth that fails halfway in one of several buffers; a journal line that is written in
part, a crash between a line and the state it stands for, and files that are flushed one after
the other while their contents change.  `PROJECT.json` lists each of these at its line.

## 2. Modules

| Module | Models | Used by |
|---|---|---|
| `Reclamation` | abstract: what epoch-based reclamation promises (a retired pointer waits for the sections open at its retirement) | refined by `Epoch`; used by `DynamicMask` |
| `Epoch` | `epoch.c`, the inlines of `epoch.h` | `Shared`, `EpochProofs` |
| `Shared` | `shared.c`, composed with `Epoch` | |
| `Executor` | abstract: what the pool and its futures promise a submitter | refined by `ThreadPool` |
| `ThreadPool` | `pool.c`, `worker.c`, `promise.c`, `future.c`, `sched.c`, `function.c`, the parts of `task.c` and the queue they use | |
| `MemTree` | `mem_tree.c`, the pass of `epoch_gc.c`, `ttak_mem_free` as a pass meets it | |
| `DynamicMask` | `dynamic_mask.c` over the contract `Reclamation` | `MCComponents` |
| `Detachable` | `detachable.c` | `MCComponents` |
| `Owners` | the resource map of `owner.c` | `MCComponents` |
| `Containers` | `ringbuf.c`, `pool.c` of `src/container` | `MCComponents` |
| `Tables` | `ht/table.c` | `MCComponents` |
| `TaskQueue` | `priority/queue.c` on `heap.c` | `MCComponents` |
| `Buddy` | `phys/mem/buddy.c` | `MCComponents` |
| `SearchTrees` | `tree/btree.c`, `tree/bplus.c` | `MCComponents` |
| `Sessions` | the session tree of `net/session.c` | `MCComponents` |
| `Endpoint` | `net/endpoint.c` with the guard of `io/io.c` | `MCComponents` |
| `Lattice` | `net/lattice.c` and its use in `net/view.c` | `MCComponents` |
| `WordOps` | the operators `&` and `^`, as constants that `MCComponents` gives their values | `Containers`, `Lattice` |
| `BigInt` | the arithmetic of `math/bigint.c` | `MCComponents` |
| `Scanner` | the dispatch, journal, checkpoint and recovery of `aliquot-swipe-amicable-by-3/src/main.c` | `MCComponents` |
| `Tracker` | the job queue, ledgers, flush and restart of `aliquot-tracker/src/main.c` | `MCComponents` |
| `EpochProofs` | theorems about `Epoch`: types, slots, grace period, nodes are kept, the contract is implemented | `SharedProofs` |
| `SharedProofs` | theorems about `Shared`: types, sections, swaps, readers, its use of the manager | |
| `ThreadPoolProofs` | theorems about `ThreadPool`: types, tasks, futures, sections, the contract `Executor` | |
| `MemTreeProofs` | theorems about `MemTree`: types, references, frees | |
| `ContainerProofs` | theorems about `DynamicMask` (growth, lock-free tests), `Tables`, `Containers` and `TaskQueue` | |
| `ResourceProofs` | theorems about `Owners`, `Endpoint`, `Detachable` and `Lattice` | |
| `RestartProofs` | theorems about `Scanner`, over kills and restarts | |
| `TrackerProofs` | theorems about `Tracker`, over kills and restarts | |
| `MCEpoch`, `MCShared`, `MCThreadPool`, `MCMemTree`, `MCComponents` | instances for TLC | |

### Epoch

One step is one atomic access to shared memory.  `pc[t]` is the place inside a library
call, `ep[t]` the epoch value the call has loaded, `arg[t]` the pointer being retired.
Slot k is the k-th node ever pushed on `g_thread_list` (nodes never leave the list);
`owned`, `localEpoch` and `active` are its fields, `tls[t]` is `t_local_state`.

| Code | Actions |
|---|---|
| `ttak_epoch_register_thread` | `Register`: a released node is taken over, or a new one is pushed; a weak compare-and-swap may fail on a free node, so both are possible |
| `ttak_epoch_deregister_thread` | `Deregister` (active cleared), `ReleaseNode` (owner cleared) |
| `ttak_epoch_enter`, `_exit` | `EnterLoad`, `EnterStore`, `EnterActivate`; `Exit` |
| `ttak_epoch_retire` | `Retire` (the call), `Register` if needed, `RetireLoad`, `RetirePush` |
| `ttak_epoch_reclaim` | `ReclaimBegin` (trylock, epoch, list head), `ReclaimScan` and `ReclaimLocal` per thread, `ReclaimAdvance`, then per bucket `ReclaimTake`, `ReclaimFree`, `ReclaimSplice`; `ReclaimEnd` |

`status` and `pinned` are history variables: `pinned[p]` holds the threads that were in
a section when p was retired and have not left it.

### Shared

Adds the container to `Epoch`.  An operation of the container is a sequence of steps
(`spc[t]`) interleaved with the epoch calls it makes: `AccessEnter` starts
`EnterLoad` and the operation goes on once the epoch call is over.  Payloads are
pointers of `Epoch`; a timestamp is a reading of one clock.  `AccessLocked` takes the read lock at
every level, which the swap of NO_LEVEL ignores (`ReadLockIgnored`).  `level` is chosen
initially from `Levels`, so one run covers the unlocked exchange of NO_LEVEL and the
locked swap of the strict levels.  `size` is modelled as the payload whose size it is.

### ThreadPool

Every thread has two places: `cpc[t]` in a call (submit, future_get, release,
shutdown, destroy) and, if it executes tasks, `rpc[t]` in the worker loop.  That way a
worker's task function can call the pool.  A task stands for the task, its clones, its
promise and its future.  Locks are held between steps where the code calls something in
between (`SchedulePush`, `PopOrWait`); a critical section without another shared
access is one step.  `waiting[s]` are the workers in `pthread_cond_timedwait`; a
signal wakes one, a broadcast all, and `Timeout` is the 10 ms deadline or a spurious
wakeup.  The queue of a shard is a set, since the priority order decides only which
task of one shard comes first.

### MemTree

A node stands for its record and the block it tracks.  `step[t]` is the place of a
thread inside a release, a pass or a mode switch; `todo`, `bag`, `current`, `total` and
`old` are the locals of a pass: the nodes it has yet to walk, those it has unlinked, and
the one it is freeing.  The lists of nodes are sets, since nothing a pass decides depends on
their order.  `held[u]` is a history variable: the references that user u owns.

| Code | Actions |
|---|---|
| `ttak_mem_tree_add`, `ttak_mem_node_acquire` | `Add`, `Acquire`; only the owner of a reference hands one out |
| `ttak_mem_node_release` | `Release` (count), `Report` (pressure), `Flag` (cleanup wanted) |
| `ttak_mem_tree_remove` and the free behind it | `RemoveNode` |
| `ttak_mem_tree_perform_cleanup` | `CheckPressure`, `CheckNeeded`, `LockTree`, `Walk` (node by node), `UnlockTree`, `FreeBlock`, `FreeNode`, `LoadPressure`, `Subtract` (compare and swap), `ZeroPressure`, `Settle`, `ClearNeeded`; `Rotate` starts one for a user, `ttak_epoch_gc_rotate` does nothing else to the tree |
| the cleanup thread | `CleanerTop`, `CleanerHints`, `CleanerLook`, `CleanerSleep` and the pass |
| hints, manual and automatic mode, destroy | `Hint`, `SetManual` with `Joined`, `SetAutomatic`, `Destroy` with `FreeAll` |

`Expire` is the passing of `expires_tick`.  With `InPointerMap` the tree is the global
one, and `FreeBlock` goes through the pointer map of `ttak_mem_free`.

### DynamicMask

`at[t]` is the place in a test (`TestBits`, `TestCapacity`, `TestWord`, `TestDone`) or a
set (`SetLock`, `GrowCopy`, `GrowCapacity`, `GrowSwap`, `Put`); the setters hold the lock.
The epoch manager is present through its contract only: an outgrown array is retired
and `Collect` frees it when the contract allows.  A test enters no section, but its caller may
have (`CallerEnters`, `CallerLeaves`, around any number of tests): `access_ebr` does if it was asked for
protection, `access`, `sync_all` and an unprotected `access_ebr` do not, and what the test reads of an array
freed meanwhile is then anything (`Readable`).  The contract is
the one that `Epoch` is proved to implement.

### Detachable and Owners

`Detachable` follows a chunk through the stages of a free: `FreeChunk`, `Quarantine` or
`QuarantineFails`, `Store` into the small cache, `Untrack` from its row, each under the lock the code takes;
`Track` puts a new chunk into the active row and flushes the row when it is full.
`released` counts how often a chunk was given to `free` or to the epoch manager.
`Owners` keeps one table for both directions, as the code does.  `Register` rebinds,
and a transfer is `TransferTake` and `TransferGive`, since it holds one lock after the other.

### Containers, Tables, TaskQueue, Buddy, SearchTrees

One operation is one action where the code holds a lock throughout or leaves locking
to its caller; `Buddy` splits an allocation into `BuddyAlloc`, `Expand` and `TakeBlock`, since it takes
the lock anew for each.  Indices, probe sequences, splits, heap moves and free lists
are computed as in the code, and beside them each module keeps what a caller expects:
`line` the items in a ring, `lent` the items of a pool, `entries` of a table, `waiting` of a
queue, `inserted` and `held` of the trees.  Each growth that may fail does so in some step
(`ok`).  Bucket sizes are scaled: `MaxProbe`, `HeapCapacity`, `FirstBuffer`, `SlotSpace`, `MinGrowth`
stand for the constants of the code.

### Sessions, Endpoint, Lattice

`Sessions`: `Prepare` and `Link` are the two halves of create, `SessionClose` detaches, marks the
subtree and flushes it to the epoch manager in one critical section, `SessionsDestroy` closes all.
`Endpoint`: `ttak_net_endpoint_access` excludes nobody, so each call is several steps (`call[t]` is its
place and its locals) and calls of several threads overlap: `Connected`, `ConnectFails`, `Shut`,
`ClearGuard`, `ReadGeneration`, `WriteGeneration`, `InitRefused`, `Wipe` and `Arm` are the parts of
bind, close and restart (`generation_id++` is a read and a write, the `memset` of
`ttak_io_guard_init` a state of its own), `CopyFd`, `CopyGeneration` and `Refresh` those of a snapshot and a
commit.  `clash` notes that two calls that change the endpoint have overlapped, `torn` that one of
them overlapped a snapshot or its commit.  `OpenByCaller` and `CloseByCaller` are the kernel, which gives the
lowest free descriptor out again.  `Lattice`: a worker's write is `Find`, `Claim`, `Publish`, then a view or
its release; `Merge`, `GiveUp` and `Stub` are compaction, which runs between the steps of others.
A `recv` that brings nothing, after which a view frees the slot and sweeps on, is not modelled.

### BigInt

Limbs of `LimbBits` bits, double words of twice as many, and every operation limb by limb
with carries, borrows and Knuth's division.  `result` holds what the last operation
returned and the integer it stands for; `Keep` stores it as an operand, so operands are values
the operations can produce.

### Scanner

The disk is `journal` (the lines that parse), `ragged` (the last line has no end) and
`checkpoint`; everything else is lost when the process ends (`Forgotten`).

| Code | Actions |
|---|---|
| `journal_recover_or_init` and the start in `main` | `Start`, with `Recovered`, `Requeued`, `RecoveredFrontier`, `RecoveredNext`; `Refused` is the exit before a reset |
| the dispatch loop, `dispatch_one` | `PickRequeued`, `PickNext`, `Check`, `Reserve` (the journal line), `MarkReserved`, `Submit` |
| `worker_scan_range` | `Fetch`, `Scan`, `RecordDone` (the journal line), `MarkDone` |
| `advance_verified_frontier`, `save_checkpoint` | `Poll` |
| signal and orderly end | `Signal`, `Retirement` |
| kill, and the exit when `write_all` fails | `Crash`, `Torn` |

A block stands for the range of seeds it names by big integers.  `scanned` is a history variable: the
blocks whose scan came to its end in some life; `blurred` are the blocks whose reservation was
appended to a torn line.  The module assumes that `ALIQUOT_START_SEED` names the start of a
block and takes the dispatch back, not ahead.  A recovery that finds another script hash,
which exits, and a submission that fails, which scans in the main thread, are left out.

### Tracker

The disk is `jsonl` (a log per ledger) and `queueFile`.  `pending` and `submitted` count
how often a seed is in the application's list and in the queue of the pool: a retry puts it
there a second time while its job still runs.  `depth` is the length of that list, which scouts,
`main` and the queue's bound look at.  `batch` is where `main` is and how many seeds of its batch are left.

| Code | Actions |
|---|---|
| start, `load_queue_checkpoint` | `Boot`, `LoadSeed`, `LoadingDone` |
| `scout_main` | `Hunt`, `EnqueueHunted` |
| warm-up and hunt of `main` | `WarmUp` and `LookAtQueue`, which look at the queue once for a whole `batch`; `MainHunt`, `EnqueueHunted` |
| `worker_process_job_wrapper`, `process_job` | `TakeJob`, `Retry` or `RecordFound`, `RecordTrack`, `Settle` |
| `flush_ledgers`, `maybe_flush_ledgers` | `FlushByWorker`, `FlushByHunter`, `FlushAtStop`; `PersistLog` for each log, `SnapshotPending`, `OpenQueueFile`, `CloseQueueFile` |
| signal, join of the scouts, end | `StopSignal`, `ScoutsJoined`, the last flush |
| kill, and the exit on a scout that does not join | `Kill` |

`accepted` is a history variable: the seeds that were enqueued, or that a kill left on disk.
A seed for which a load finds the queue full is forgotten by the code (`TurnAway`): it leaves
`accepted`, and `turnedAway` notes it.  That cannot happen (`RoomForRetries`) if the room that scouts
leave covers a seed of every scout, a batch of `main`, which is up to two seeds per worker on one look at
the queue, and a retry of every worker: `Cardinality(Hunters) + 3 * Cpus <= Headroom + 1`.  With `Headroom` 8
and one scout the code satisfies this on one or two processors.  On three to eight it does not, and a
seed may be lost to a load, though only there (section 5).  The module assumes that no file
fails to open in the last flush and that lines are written whole.

### MCComponents

The components above from `DynamicMask` on keep their state to themselves.  `subject` picks
one at the start of a behaviour and only that one moves; the others stay in one of their
initial states (`Idle` chooses the simplest, so that they do not multiply).  Nothing of one is
read by another, so checking them together checks each by itself, and each property speaks
of one component.

## 3. Runs

| Run | Instance | Shows |
|---|---|---|
| `epoch_safety` | 3 threads, 2 slots, 1 pointer, 1 bucket, 3 advances | type invariant; `GraceSafe`; `SlotExclusive`; `RetiredOnce` |
| `epoch_fair` | 2 threads, 2 slots, 2 buckets, 1 pointer | `EventuallyFreed`; `RefinesContract` |
| `epoch_wrap` (violation) | counter of 4 values | the lag test does not survive the wrap |
| `shared_swap` | 1 reader, 2 writers (one reclaims), levels 0, 2, 3, 3 payloads | `NoUseAfterFree` (not for the read lock at NO_LEVEL); `SwappedOutOnce` (with size and pointer in step); `NoLeakedSection`; type invariant |
| `shared_retire` (violation) | reader, retirer, reclaimer | `retire()` retires the payload before it unlinks it |
| `pool_safety` | 2 workers, 2 shards, 2 clients, two async tasks that may abort, a nested submitted task | type invariant; `OnePlace`; `FreedByTheLast`; `FutureAlive`; `SectionPerBody` |
| `pool_fair` | 2 workers, 2 shards, 1 client, an async task that may abort, a nested task | `TaskTaken`; `WorkersStop`; `RefinesExecutor` |
| `future_get` (violation) | 1 worker, 1 client | a caller outside any section returns inside one |
| `mem_tree` | 2 users (one administers, one rotates), the background thread, 2 nodes | type invariant; `HeldAlive`; `NodeFreedOnce`; `JoinReturns` under fairness |
| `mem_tree_global` (violation) | the same, nodes in the pointer map | a pass frees a node twice |
| `components` | each of sixteen components by itself | `MaskExact`, `TestLinear`; `ChunkInOnePlace`; `OwnerBindings`; `RingFifo`; `PoolItems`; `TableFinds`; `QueueInStep`; `BlocksTile`; `TreesFind`; `SessionTree`; `EndpointFds`; `LatticeSlots`; `BigIntExact`; `FrontierSound`, `BlockInOnePlace`; `SeedKept`, `LogsInStep` |
| `bigint_divide` (violation) | limbs of 2 bits | long division can return a wrong quotient |

### Bounds

* `EpochLimit`: no reclaim starts once the epoch has reached it.  A pointer retired at
  epoch E is freed at E + 2, so three advances contain a retirement with a stale epoch,
  its grace and its free; the fair instance has room for more so that the limit does not
  stop what must happen (its clients reclaim only when something is queued).
  `EpochMod` stands for 2^32 and is larger than the limit except in `epoch_wrap`,
  whose counter of 4 values wraps the way the 32-bit one does.
* `MaxSlots` = 2 with 3 threads forces nodes to be handed over.  `Cells` = 1 puts
  every retirement into the bucket being swept; 2 are used in the fair run.
* One pointer is enough in the epoch runs: grace periods of different pointers only
  meet in the buckets, whose nodes are independent; the container run has three.
* `MaxClock` bounds allocations and `sync_all` calls together.
* Two workers and two shards are the least in which a task can be on the shard of
  another worker, be stolen, and be waited for by a worker that blocks.  A nested task
  is the least in which a worker is a client.  Two clients make submission race with
  shutdown, and release with completion.
* Two nodes and two users are the least in which a pass frees one node while another is
  referenced, and in which two passes meet at one node.  Each node has size 1.
* The components are sized so that their rare cases happen: bit 3 needs the mask to grow twice over;
  three chunks overflow a cache of two slots, a row of two entries and a quarantine of one,
  in an urgent arena, one without epochs, and one of detached chunks with quarantine;
  rings of 1, 3 and 4 slots (one, no power of two, power of two) and object pools of 3 and 5; five keys in a
  table of 4 with a collision grow it and use up a static one; a task queue with a
  heap of 1 grows every buffer and runs out of 4 slots; a zone of at most two segments
  is used up, with an initial pool and without; nine insertions make a B-tree
  of degree 2 split full children below its root, seven keys split a B+ tree of order 3 twice, and each may be
  given another of two values later; four sessions form
  a chain and siblings; two callers share the endpoint, one of them may also bind, over two descriptors, of which the number 0 of
  the memset is one; `MaxGeneration` 3 and `MaxGuards` 2 allow a bind, a close or restart and one change more; the run follows
  an endpoint up to the first two changes that clash (`EndpointOfInterest`), since nothing is claimed from there on; the lattice has
  one worker on nodes of 2 x 2 and two on 4 x 4, and `MaxPackets` fills a node of the former
  so that it extends, with one view at a time (`MaxViews`); `MaxMagnitude` 32 gives numbers of three limbs of two bits, the
  least that Knuth's division corrects.
* The scanner has two blocks, two workers and a journal of at most three lines that parse, over
  any number of starts: a line is torn in one life, the next line is glued to it in another, and a
  third recovers what is left; a block is scanned while the other is requeued.  The tracker has one seed and two workers, so that a
  job and its retry overlap, a queue of two, so that a retry may find it full, and two
  starts; a life in which main hunts on for a seed that is not there is not followed (`HuntEnds`), since main then
  only waits.  Of two workers at the same place the first goes on (`ScannerInTurn`, `TrackerInTurn`), which is sound
  because they are interchangeable there.  With one seed a load always finds room, and the instance is outside `RoomForRetries`: that a load turns nobody
  away is what the theorem `SeedsKept` shows.  A scanner with three blocks and one with five lines hold as well, and so do trackers
  with two seeds and one worker, one outside and one inside `RoomForRetries` (a queue of 4, headroom 3).
* Permuting threads, clients, pointers or async tasks is a symmetry of the safety runs only: their
  constants are otherwise alike, and no run with symmetry checks a temporal property.
* Deadlock is not checked: clients may stop calling, the bounds stop reclaims, and a
  thread may wait for a future whose task was aborted or dropped, which the code allows.

### Fairness

`EpochFairSpec`: a call in progress goes on (WF, the scheduler).  The rest is
assumed of callers: a section is left in the end (SF, which the grace period presupposes), and
somebody calls reclaim again and again while something is retired (SF).  The library does not see
to that: `ttak_epoch_gc_init` starts no rotation thread (`epoch_gc.c:101`, "Callers rotate/reclaim
explicitly"), and the tutorials, tests and benchmarks call reclaim themselves.  So `EventuallyFreed` says
what reclaim achieves for a program that keeps calling it, not that memory is reclaimed by itself.  It
also assumes that threads stop deregistering at some
point: a node handed over between the two loads of a scan shows the new owner's local
epoch 0 under the old owner's active flag, that call gives up, and nothing in the code
prevents this from happening in every call.

`PoolFairSpec`: threads run and timed waits end (WF); a task function ends unless it
blocks in `future_get`, after finitely many calls (SF).  Nobody is assumed to submit,
to get, to release or to shut down, and no lock is assumed fair beyond that.

`FairTreeSpec`: a pass goes on (WF); a thread that asks for the tree lock, which others take
again and again, gets it in the end (SF `LockTree`, a fair mutex); a release goes on to its report; the
cleanup thread runs (WF) and its sleep ends even if hints keep arriving (SF
`CleanerSleep`: the wait has a deadline).  Nobody is assumed to release, rotate, hint or destroy.

## 4. Proofs

`EpochProofs` proves, for any sets of threads and pointers and any number of slots and
buckets, from the assumption `EpochConstants` of `Epoch`:

* `TypeCorrect`: `EpochSpec => []EpochTypeOK`.  Types alone are not inductive:
  `ReclaimInv` says that the lock holder is the one thread in a reclaim and that the
  epoch it loaded is still the global one, `CallInv` that a call has its argument and
  its slot.
* `SlotsExclusive`: `EpochSpec => []SlotExclusive`.  The strengthening is that a
  thread's slot is on the list and owned; a free node has then no other holder.
* `GracePeriod`: `NoWrap => (EpochSpec => []GraceSafe)`, where `NoWrap` is
  `EpochLimit < EpochMod`: the counter never returns to 0.  `epoch_wrap` shows that the
  hypothesis is needed.  The inductive invariant `IInv` is the conjunction of the
  above with `EpochInv` (no epoch loaded or published is ahead of the global one, and
  a reclaim that still scans is below the limit) and `PinInv`: a node that is yet to
  be freed carries an epoch e such that every thread that pins its pointer `Holds` e:
  either the epoch has not moved since e, or it has moved once, the thread's local epoch
  is behind, and no scan in progress has passed the thread's slot.  A further advance
  would need a scan that misses a lagging active thread, so the node's age is at most
  one while it is pinned, and it is not freed.
* `NodesKept`: `EpochSpec => []RetiredOnce`, without any hypothesis on the counter.
  `PlaceInv` says the same as `RetiredOnce` place by place: what a call, a bucket or
  the detached list holds is retired, what is retired is held, and no two of them hold
  the same pointer.  That nodes are detached only while a bucket is swept makes the
  exchange of the next bucket lose nothing.
* `ContractKept`: `NoWrap => (EpochSpec => RefinesContract)`.  `EnterActivate` is the
  contract's Enter, `Exit` and `Deregister` its Leave, `Retire` its Retire and
  `ReclaimFree` its Free, whose guard follows from `PlaceInv` (the node is retired) and
  `PinInv` (nobody pins it any more); every other step stutters.

`SharedProofs`, with the assumptions of `Epoch` and `Shared`:

* `SharedTypes`, `SectionsLeft` (`NoLeakedSection`), `SwapsOwn` (`SwappedOutOnce`), and, with
  `NoWrap`, `ReadersSafe`: `SharedSpec => []NoUseAfterFree`.
* The first half of the argument is that a step of the container is a step of the manager, or
  leaves it alone (`ManagerNext`), so that the manager's invariant `ManagerInv` holds here as
  well and is not proved again.  `SharedUsesEpochs` says the same of its contract: the
  container implements `Reclamation` through the manager.
* `ContainerInv` adds what the container needs: `CallsInv` ties the place of an operation to
  the place of its epoch call; `LockInv` says who holds the lock and which operations exist
  without it; `PayloadInv` that a payload belongs to the container, to the swap that will
  install it, or to the swap that took it out, which is why a swap retires what nobody else
  retires; `HeldInv` that what a reader holds is live, or was retired while the reader was in
  the section it is still in, but for a read lock at NO_LEVEL, under which the payload
  may be retired and freed.  The grace period then gives `NoUseAfterFree`.

`ThreadPoolProofs`, with the assumption of `ThreadPool`, for any pool and any number of
clients, tasks and shards:

* `PoolTypes`, `TaskInOnePlace` (`OnePlace`), `FutureFreedOnce` (`FreedByTheLast`),
  `FutureNotUsedAfter` (`FutureAlive`), `SectionHeld` (`SectionPerBody`).
* `PoolInv` states without counting what the properties count.  `TaskInv`: an offered task is
  in one call, an accepted one in one queue or with one worker, a running one with one thread.
  `FutureInv`: a future that is ready and released but not freed has one thread that will
  free it, and nobody frees another.  `StopInv`: one client at a time shuts the pool down, and
  when it drains the queues the workers have gone.  `WaitInv` and `CallInv` tie the two places
  of a thread, and the waiting sets, to each other.
* `PoolKeepsContract`: `PoolSpec => RefinesExecutor`.  Each step of the pool changes the
  status of at most one task, and only as `Executor` allows.

`MemTreeProofs`, from the assumption of `MemTree` (finitely many users, since references are
counted):

* `TreeTypes` and `ReferencesHold` (`HeldAlive`), in the global tree as well.
* `NodesFreedOnce`: `~InPointerMap => (TreeSpec => []NodeFreedOnce)`.  `mem_tree_global` shows
  that the hypothesis is needed.
* `TreeInv`: the count of a node is the number of its references (`RefInv`); a reference
  is to a node on the list (`HeldInv`); a node on the list has not been freed (`ListInv`); what
  a pass has unlinked is its own and off the list (`PassInv`); who walks has the tree lock
  (`WalkInv`); after destruction begins nobody starts a pass (`StopInv`).

`ContainerProofs`, for `DynamicMask` from the contract `Reclamation`:

* `GrowthKeepsBits` (`MaskExact`) and `TestsLinear` (`TestLinear`).  `MaskInv` says what a
  half-done growth has prepared (`SetterInv`), that an array a test has loaded is live or, if its caller
  is in a section, waits for it (`TesterInv`), and that the bit under test, and what the loaded array
  holds of it, are values the bit had during the test (`AnswerInv`).
* `KeysFound`: `TableSpec => []TableFinds`, for any keys, hash function and initial capacity, with
  the assumption that a probe limit of 1 is not built (the code has 32).  `Sound` says that the
  probes of a key that is there meet no EMPTY slot before it (`Reached`), that no key has two slots
  (`Distinct`), and that slots, entries and counters agree (`Holds`, `Counts`).  One lemma each shows that
  an insert, a removal and a rehash keep it.  `Spacious` is the load limit as an insert leaves it; it
  leaves an EMPTY slot, so that a call on a dynamic table returns.  A rehash is a recursive
  function over the slots: that it exists, and what it has put after i slots, is proved from a least
  counterexample, since no induction theorem can be used.  The code fills the new table with the
  function that may itself rehash; it never does there, because the new table holds no more than
  the old one, which is below the load limit of the new capacity (`RoomyKeeps`).
* `RingOrdered`: `RingSpec => []RingFifo`, for any sizes and payloads.  `RingInv` places the
  i-th element of the queue at the tail plus i, around the buffer; what `&` is needed for is the
  assumption `RingAssumption`, that a mask of a power of two is the remainder (`Advances`).
* `ItemsLent`: `PoolSpec => []PoolItems`, for any sizes.  `PoolInv` says that the bitmap
  is the set of items lent, and that the free list of a chained pool holds the others, each once.
* `TasksInOrder`: `QueueSpec => []QueueInStep`, for any tasks, priorities and buffer sizes.  A loop
  of the heap is a function over its turns.  That it exists, and what each turn keeps, is proved
  from a least counterexample (`TurnsExist`, `StagesStay`).  The array is in order but for one
  element, which has to rise (`RisingAt`) or to sink (`SinkingAt`); the loop has stopped when
  its turns are used up, as each moves the element (`UpHeaps`, `DownHeaps`).  `QueueInv` adds that
  the stack has no slot twice and fits its buffer, so that what a failed push took is given back.

`ResourceProofs`:

* `BindingsMirror`: `OwnersSpec => []OwnerBindings`.  Registering, giving and removing keep
  the two directions of one table matched (three lemmas about one table); other owners'
  tables do not change.
* `DescriptorsOwn`: `EndpointSpec => []EndpointFds`, for any number of callers and descriptors.  As long as
  changes do not clash one call at most changes the endpoint, and its place tells which descriptors are
  the endpoint's (`HolderInv`), what is in hand (`ComingIn`) and what it knows of guard and generation
  (`CallsInv`).  `SnapshotInv`: a snapshot that no change overlapped is no newer than the endpoint, of
  the present guard if its generation is the present one and there is a guard, and older than a guard
  that is about to be armed.  One lemma about a step of the one call that changes (`OneChanger`), and one about
  steps of the others (`Bystander`), take the calls apart.
* `ChunksPlaced`: `ArenaSpec => []ChunkInOnePlace`, for any finite number of clients.  A free
  goes through four locks (row, quarantine, cache, row again), and a client may be given the cached
  chunk before the call that cached it has untracked it.  `ChunkInv` counts: a chunk has as many
  entries in the active row as clients and calls use it, so the late untrack removes an entry of its own
  and leaves that of the new user, and the destruction of the arena releases each chunk once.
  `RowInv` says that only the active row has entries, `HandInv` what a call carries at which stage,
  and `CacheInv` that the cache is a ring.
* `LatticeShared`: `LatticeSpec => []LatticeSlots`, for any number of workers, nodes and views.
  `CrewAssumption` is what the lanes have to give: no two workers that use the lattice at a time are
  in one lane of a slot (TLC evaluates it with the lane function of the code).  `Sane` says what a
  call finds in its slot at each stage (`HoldersInv`), what a view refers to (`ViewsInv`), and the
  balance of `used_slots` with the slots in use and the calls about to count (`CountsInv`).  One
  lemma about a step at one slot (`StepKeeps`) serves eight actions; `ReplaceKeeps` serves those that add or
  clear whole nodes.  A compaction clears a node only where the balance leaves no call to count,
  or it overtakes a sweep, where `LatticeSlots` makes its exception.

`RestartProofs`, from the assumption of `Scanner`, for any number of workers, blocks, lines and
lives:

* `FrontierScanned` (`FrontierSound`) and `BlocksKept` (`BlockInOnePlace`).
* `ScanInv` relates the memory of a running process to what the next one will read.
  `SoundInv`: done means scanned, wherever it is noted.  `PlaceInv`: what main has chosen, what
  is queued and what is scanned is in flight, and in one place.  `SavedInv`: what is behind the
  checkpoint's next block, behind any line of the journal, queued, scanned or reserved is
  verified or has a line; that lines are written in the order of blocks, but for the
  requeued ones, is what makes the end of the journal a safe place to go on.  `UpInv`: nothing
  between the frontier and the next block is forgotten.  `DownInv` makes a kill trivial.
* Recovery takes greatest and least elements of finite sets.  `GreatestOfFinite` and
  `LeastOfFinite` prove that they exist, from the library's theorem that the strict subsets of
  a finite set are well founded.

`TrackerProofs`, from the assumption of `Tracker`, for any number of seeds, scouts, workers,
stops and kills:

* `LogsKept`: `TrackerSpec => []LogsInStep`.  `LogInv` says it while the process is up as well: a
  log is the first part of its ledger, as long as the persisted count.  That no seed is
  found twice needs `JobInv`: a seed that is found, waits in the pool, runs or is being hunted is
  registered, and it is only one of these.
* `SeedsKept`: `TrackerSpec => []SeedKept`.  `CountInv` counts the queue: a seed is
  in it once for its waiting job and once for each worker that has not settled it, so its length is
  that of the waiting jobs and the busy workers together.  `KeptInv` is the first part of
  `SeedKept` without the list, `StopInv` says that the last flush works alone.  Under `RoomForRetries`,
  `RoomInv` bounds what is unsettled (`Unsettled`), together with what `main` has left of its batch, by the
  capacity less one place for each worker, and likewise what a flush has read and what is on
  disk: so a retry, or a seed of a checkpoint, always finds room.  What scouts and `main` add is bounded by what
  they saw of the queue when they looked (`HuntFits`, `BatchFits`).

The theorems rest on the named assumptions about constants only (each is evaluated by TLC in
the runs) and on `NoWrap` and `~InPointerMap` where they are written; `EndpointFds` and `SeedKept` name
their own conditions, `clash` and `RoomForRetries`.

Only model-checked:

* Liveness (`EventuallyFreed`, `TaskTaken`, `WorkersStop`, `JoinReturns`): fairness and
  ENABLED are outside the prover's reach.
* `BlocksTile`, `TreesFind` and `SessionTree`: `Buddy`, `SearchTrees` and `Sessions` use recursive
  operators, for which the prover has no backend; what the loops of `BigInt` compute needs induction over their
  definitions.

## 5. Where the code departs from what it says

* `epoch.c` says that a wrapped counter still ages correctly.  Ageing does; the lag
  test `local_epoch < current` does not (`epoch_wrap`).
* `shared.h` says that retire is safe with EBR; the payload is retired before
  `self->shared` is cleared, so a later reader can still take it (`shared_retire`).
* `future.c` says that `ttak_future_get` temporarily exits the section; it enters one
  on the way out even if there was none (`future_get`).
* `mem.c` says that releasing the GC reference lets the memory tree collect an expired
  block; for a block of the global tree the pass frees the node that `ttak_mem_free`, called by
  it, has freed already (`mem_tree_global`).
* `bigint.c` documents division; the loop that corrects an estimated digit goes on after its
  rest has reached the base, and the quotient can be too small (`bigint_divide`).

Other departures were met while modelling.  The models contain or exclude them explicitly, so that the
properties say what holds beside them:

| Where | What the code does | In the model |
|---|---|---|
| `dynamic_mask.c:44` | growth publishes the capacity before the array, so a lock-free test may index past the array it loaded, against `dynamic_mask.h:18` ("Thread-safe dynamic bitmap") | `TestWord` then reads anything; `TestLinear` excepts tests of such a bit |
| `dynamic_mask.c:99` | the test enters no section, although the header says "Optimized for lock-free reads via EBR": under `access`, `sync_all` and an unprotected `access_ebr` the array may be freed before it is read | `CallerEnters` is the caller's choice; `TestLinear` claims a live array for callers in a section only |
| `shared.c:417` | the swap of NO_LEVEL takes no lock and retires the payload that `access()` has handed out under the read lock of `set_atomic_read`, which may be freed before `release()`, against `shared.h:82` ("R/W lock for metadata (swap, status)") | `ReadLockIgnored`; `NoUseAfterFree` excepts it |
| `detachable.c:531` | a full generation row is flushed and releases chunks their owners still use | `Track`; `ChunkInOnePlace` excepts flushed chunks |
| `container/pool.c:201` | the lane walk may miss the free item of a pool that is not full, and alloc returns NULL, against `pool.h:91` | `denied` |
| `ht/table.c:153` | a static table without empty slots never returns | `endless` |
| `btree.c:146` | "Insert or update" never updates: a key the tree has gets a second entry, and a search may go on returning the old value | `BTreeInsert` does so; `TreesFind` claims nothing of such a key, only that the others are not disturbed |
| `session.c` | a session prepared while its parent is closed is linked below a retired one and lost | `orphans` |
| `endpoint.c:107` | access gives no exclusion, whatever `endpoint.c:6` says of "epoch-safe access": two of bind, close and restart that overlap may close a descriptor twice, lose a change of generation or leak a socket; a snapshot that one of them overlaps may be torn | the calls overlap in the model; `EndpointFds` claims nothing once two changes have clashed, nor of a torn snapshot: that is left to the callers |
| `endpoint.c:149` | binding over a live descriptor leaves it open; a snapshot may name a descriptor that was reused | `lapsed`; the snapshot's descriptor is only compared when it is committed |
| `lattice.c:312` | compaction may turn a node into a stub while a worker has a slot of it | `struck` |
| `bigint.c` | `div_u64` wraps for large divisors; reduction modulo 2^p - 1 leaves the modulus itself | the `unsound` flag of a result |
| `mem_tree.c:190` | release reads the node after its count is zero, when a pass may have freed it | the steps are apart; `HeldAlive` speaks of held references |
| `mem_tree.c:363` | pressure that is reported between a failed subtraction and the reset is dropped | `ZeroPressure` |
| `aliquot-swipe-amicable-by-3/src/main.c:1093` | recovery skips a line that does not parse, against line 8 ("Any parsing failure is fatal"); a reservation appended to a torn line is forgotten, its block may never be dispatched and the frontier stops before it | `blurred`; `BlockInOnePlace` excepts these blocks |
| `aliquot-tracker/src/main.c:1868`, `1961`, `1991` | scouts stop 8 short of the queue's capacity, each for itself, and `main` enqueues up to two seeds per worker after one look: with the retries of three and more workers they can overfill the queue.  When the checkpoint of such a queue is loaded a retry may take the room of its last seed, which is then in no queue | `TurnAway`; `SeedKept` excepts it, and says when it cannot happen |
| `aliquot-tracker/src/main.c:1593` | the logs are written before the pending seeds are read, and the queue file is cut to nothing (line 1574) before it is written anew: a kill in between forgets seeds | `Kill`; `SeedKept` starts again from what is on disk |

## 6. Not modelled

* Out of memory, except where it would only drop the call.
* Weak memory: steps are sequentially consistent.  The relaxed and acquire / release
  orders of the code may allow more.
* Nested sections: enter is not reentrant; each model has one section per thread.
* Shared: `set_atomic_read` toggled during use, `set_ro` and `set_rw`, access without
  the read lock, adding owners during use, a container used after its own retirement.
* Pool: create and its failures, the burst heuristics (any shard they may pick is
  allowed), priorities, a promise fulfilled twice by user code, faults other than
  `ttak_worker_abort`, replacing a live pool with `ttak_async_init`.
* Memory tree: tuning of intervals and thresholds, `find_node`, the row plane of `arena_helper.c`.
* Tracked allocator: tiers, headers and pockets are address arithmetic over system calls.
* Dynamic mask: bits from 2^31 on, for which the doubling of the capacity (`dynamic_mask.c:34`)
  wraps to 0 and does not end.
* Detachable memory: signals and hard-kill exit.  Owners: functions and their execution.
* Buddy: alignment, request tags, pools whose length is no multiple of the smallest block.
* Sessions: tick, fault dispatch, restart and shutdown work.  Only immortal sessions are collected by
  tick and their due time is never reached, so this path does not run.
* Endpoints: socket options, ports, ICMP, the poller: system calls.
* Big integers: text conversion, capacities and allocation failures; the rest of the mathematics is
  arithmetic over doubles or transforms without protocol.
* Generic queues, the smart scheduler and the rate limiter: heuristics over floating point.
* Security, accelerators, platform layers, locks, timing, logging: wrappers, fixed data
  transformations or shims; the models take the primitives they imitate as correct.
* The two modelled applications: their arithmetic, scripts, catalogues, status output and accelerator
  path.  Their cross-verification programs, the examples, benchmarks and tutorials use the library
  without a protocol of their own.

## 7. Plan

What is left, most important first:

1. An abstract `Lifetime` that `MemTree` and `Shared` both implement: a reference, then a
   retirement, then one free.
