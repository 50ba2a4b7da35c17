----------------------------- MODULE ThreadPool ------------------------------
(***************************************************************************)
(* The sharded thread pool (src/thread/pool.c, worker.c), the futures its     *)
(* tasks fulfil (src/async/promise.c, future.c) and the calls that feed it:    *)
(* ttak_thread_pool_submit_task and ttak_async_call (src/async/function.c,     *)
(* sched.c).  Every thread has a place in the call it makes (cpc) and, while    *)
(* it executes tasks, a place in the executing loop (rpc): a task function may  *)
(* itself submit tasks and wait for them.                                     *)
(*                                                                          *)
(* A task stands for the ttak_task_t, its clones, its promise and its future.  *)
(* The worker's should_stop is set by pool_force_shutdown after is_shutdown     *)
(* and only read in a disjunction with it, so isShutdown stands for both.      *)
(* The priority queue of a shard is a set: which task of a shard is popped     *)
(* first depends on priorities, which are abstracted.                         *)
(***************************************************************************)
EXTENDS Integers, FiniteSets

CONSTANTS
  NumThreads,   \* pool->num_threads
  ShardCount,   \* TTAK_THREAD_POOL_SHARDS
  Clients,      \* threads outside the pool
  Tasks,
  Async,        \* the tasks made by ttak_async_call; the others by submit_task
  Nested,       \* the tasks submitted by the function of another task
  Aborting,     \* the tasks whose function may call ttak_worker_abort
  None

ASSUME PoolConstants ==
  /\ NumThreads \in Nat \ {0} /\ ShardCount \in Nat \ {0}
  /\ Async \subseteq Tasks /\ Nested \subseteq Tasks /\ Aborting \subseteq Tasks
  /\ Nested \cap Async = {}
  /\ None \notin Tasks \cup Clients \cup Nat
  /\ Clients \cap Nat = {}

Workers == 0 .. NumThreads - 1
Threads == Workers \cup Clients
Shards  == 0 .. ShardCount - 1

\* ttak_shard_for_worker: the shard a worker drains first and waits on.
Preferred(w) == w % ShardCount

\* Mutant: the modulo is taken of one shard too many.
ActiveShardsMutant == 0 .. NumThreads

\* The shards ttak_pool_select_shard_with_burst can return.
ActiveShards == IF NumThreads > ShardCount THEN Shards ELSE 0 .. NumThreads - 1

VARIABLES
  pool,        \* "open", "destroying" or "gone": the life of the pool object
  isShutdown,  \* pool->is_shutdown
  lock,        \* shard -> the thread that holds its lock
  queue,       \* shard -> its tasks
  waiting,     \* shard -> the workers in pthread_cond_timedwait on it
  cpc,         \* thread -> where it is in a call: "idle" outside of one
  cur,         \* thread -> the task its call is about
  at,          \* thread -> the shard its call or its steal is at
  rpc,         \* thread -> where it is in the executing loop
  task,        \* thread -> the task it executes
  active,      \* thread -> inside an epoch critical section
  ready,       \* futures whose ready flag is set
  released,    \* futures whose released flag is set
  freed,       \* task -> how often its promise was destroyed
  owner,       \* task -> the consumer that holds its future
  status       \* history: task -> what became of it

poolVars   == <<pool, isShutdown, lock, queue, waiting>>
futureVars == <<ready, released, freed, owner>>
callVars   == <<cpc, cur, at>>
runVars    == <<rpc, task, active>>
vars == <<poolVars, callVars, runVars, futureVars, status>>

PoolInit ==
  /\ pool = "open" /\ isShutdown = FALSE
  /\ lock = [s \in Shards |-> None]
  /\ queue = [s \in Shards |-> {}] /\ waiting = [s \in Shards |-> {}]
  /\ cpc = [t \in Threads |-> "idle"] /\ cur = [t \in Threads |-> None]
  /\ at = [t \in Threads |-> 0]
  /\ rpc = [t \in Threads |-> IF t \in Workers THEN "loop" ELSE "none"]
  /\ task = [t \in Threads |-> None] /\ active = [t \in Threads |-> FALSE]
  /\ ready = {} /\ released = {}
  /\ freed = [k \in Tasks |-> 0] /\ owner = [k \in Tasks |-> None]
  /\ status = [k \in Tasks |-> "new"]

CGoto(t, to) == cpc' = [cpc EXCEPT ![t] = to]
Call(t, to, k, s) ==
  /\ CGoto(t, to) /\ cur' = [cur EXCEPT ![t] = k] /\ at' = [at EXCEPT ![t] = s]
CallEnds(t) == Call(t, "idle", None, 0)
RGoto(t, to) == rpc' = [rpc EXCEPT ![t] = to]
Mark(k, what) == status' = [status EXCEPT ![k] = what]
Destroyed(k) == freed' = [freed EXCEPT ![k] = @ + 1]    \* ttak_promise_destroy

Lock(s, t) == lock[s] = None /\ lock' = [lock EXCEPT ![s] = t]
Unlock(s)  == lock' = [lock EXCEPT ![s] = None]

\* A thread outside the pool, or a worker inside a task function, may make a call.
MayCall(t) == cpc[t] = "idle" /\ (t \in Clients \/ rpc[t] = "body")

\* The tasks a thread may submit.
Submits(t) ==
  IF t \in Clients THEN Tasks \ Nested ELSE IF task[t] \in Nested THEN {} ELSE Nested

-----------------------------------------------------------------------------
(* Submission: submit_task and async_call around schedule_task.             *)

\* A submitted task that is not accepted dies with its promise.
Refuse(t, k) ==
  /\ k \notin Async
  /\ Destroyed(k) /\ Mark(k, "refused") /\ CallEnds(t)
  /\ UNCHANGED <<runVars, ready, released, owner>>

\* An async task that is not accepted is executed by the caller, in a section.
RunInline(t, k) ==
  /\ k \in Async
  /\ Call(t, "inline", None, 0) /\ RGoto(t, "body")
  /\ task' = [task EXCEPT ![t] = k] /\ active' = [active EXCEPT ![t] = TRUE]
  /\ owner' = [owner EXCEPT ![k] = t] /\ Mark(k, "running")
  /\ UNCHANGED <<ready, released, freed>>

NotAccepted(t, k) == Refuse(t, k) \/ RunInline(t, k)

\* schedule_task looks at is_shutdown before it touches a lock; after
\* ttak_async_shutdown there is no pool to ask.
Submit(t, k) ==
  /\ MayCall(t) /\ k \in Submits(t) /\ status[k] = "new"
  /\ \/ /\ pool = "open" \/ (pool = "destroying" /\ t \in Workers)
        /\ \/ /\ ~isShutdown /\ \E s \in ActiveShards : Call(t, "lock", k, s)
              /\ Mark(k, "offered")
              /\ UNCHANGED <<runVars, futureVars>>
           \/ isShutdown /\ NotAccepted(t, k)
     \/ pool = "gone" /\ t \in Clients /\ RunInline(t, k)
  /\ UNCHANGED poolVars

\* ... and again under the lock of the shard.
ScheduleLock(t) ==
  /\ cpc[t] = "lock" /\ lock[at[t]] = None
  /\ \/ /\ ~isShutdown /\ Lock(at[t], t) /\ CGoto(t, "push")
        /\ UNCHANGED <<cur, at, runVars, futureVars, status>>
     \/ isShutdown /\ NotAccepted(t, cur[t]) /\ UNCHANGED lock
  /\ UNCHANGED <<pool, isShutdown, queue, waiting>>

\* pthread_cond_signal wakes one of the waiters, if there is one.
Signal(s) ==
  \/ waiting[s] = {} /\ UNCHANGED <<waiting, rpc>>
  \/ \E w \in waiting[s] :
       waiting' = [waiting EXCEPT ![s] = @ \ {w}] /\ RGoto(w, "woken")

SchedulePush(t) ==
  /\ cpc[t] = "push" /\ CallEnds(t)
  /\ queue' = [queue EXCEPT ![at[t]] = @ \cup {cur[t]}]
  /\ Signal(at[t]) /\ Unlock(at[t])
  /\ owner' = [owner EXCEPT ![cur[t]] = t] /\ Mark(cur[t], "accepted")
  /\ UNCHANGED <<pool, isShutdown, task, active, ready, released, freed>>

-----------------------------------------------------------------------------
(* Futures.                                                                *)

\* future_get leaves the caller's epoch section ...
FutureGet(t, k) ==
  /\ MayCall(t) /\ owner[k] = t
  /\ Call(t, "get", k, 0)
  /\ active' = [active EXCEPT ![t] = FALSE]
  /\ UNCHANGED <<poolVars, rpc, task, futureVars, status>>

\* Mutant: the section is not entered again.
FutureGotMutant(t) ==
  /\ cpc[t] = "get" /\ cur[t] \in ready /\ CallEnds(t)
  /\ UNCHANGED <<poolVars, runVars, futureVars, status>>

\* ... and enters one when the future is ready, whether or not there was one.
FutureGot(t) ==
  /\ cpc[t] = "get" /\ cur[t] \in ready /\ CallEnds(t)
  /\ active' = [active EXCEPT ![t] = TRUE]
  /\ UNCHANGED <<poolVars, rpc, task, futureVars, status>>

\* Mutants: release leaves the pair to set_value; release destroys it at once.
LastReleaseNever(k) == FALSE
LastReleaseAlways(k) == TRUE

\* Whoever comes last, release or set_value, destroys the pair.
LastRelease(k) == k \in ready

FutureRelease(t, k) ==
  /\ MayCall(t) /\ owner[k] = t
  /\ owner' = [owner EXCEPT ![k] = None] /\ released' = released \cup {k}
  /\ IF LastRelease(k) THEN Call(t, "free", k, 0) ELSE CallEnds(t)
  /\ UNCHANGED <<poolVars, runVars, ready, freed, status>>

FutureFree(t) ==
  /\ cpc[t] = "free" /\ CallEnds(t) /\ Destroyed(cur[t])
  /\ UNCHANGED <<poolVars, runVars, ready, released, owner, status>>

-----------------------------------------------------------------------------
(* Executing a task: ttak_task_execute inside an epoch section.             *)

Begin(w) ==
  /\ rpc[w] = "run" /\ RGoto(w, "body")
  /\ active' = [active EXCEPT ![w] = TRUE] /\ Mark(task[w], "running")
  /\ UNCHANGED <<poolVars, callVars, task, futureVars>>

\* The last reference is set_value's if the consumer already let go.
LastSet(k) == k \notin ready /\ k \in released

\* The function returned: set_value publishes the result.
Return(t) ==
  /\ rpc[t] = "body" /\ cpc[t] \in {"idle", "inline"}
  /\ ready' = ready \cup {task[t]} /\ Mark(task[t], "fulfilled")
  /\ RGoto(t, IF LastSet(task[t]) THEN "reclaim" ELSE "leave")
  /\ UNCHANGED <<poolVars, callVars, task, active, released, freed, owner>>

SetValueFree(t) ==
  /\ rpc[t] = "reclaim" /\ RGoto(t, "leave") /\ Destroyed(task[t])
  /\ UNCHANGED <<poolVars, callVars, task, active, ready, released, owner, status>>

\* Leave the section, destroy the task, and go back to the loop or the caller.
Leave(t) ==
  /\ rpc[t] = "leave" /\ active' = [active EXCEPT ![t] = FALSE]
  /\ task' = [task EXCEPT ![t] = None]
  /\ RGoto(t, IF t \in Workers THEN "loop" ELSE "none") /\ CallEnds(t)
  /\ UNCHANGED <<poolVars, futureVars, status>>

\* ttak_worker_abort jumps past set_value to the worker's recovery point.
Abort(w) ==
  /\ rpc[w] = "body" /\ cpc[w] = "idle" /\ task[w] \in Aborting
  /\ RGoto(w, "leave") /\ Mark(task[w], "aborted")
  /\ UNCHANGED <<poolVars, callVars, task, active, futureVars>>

-----------------------------------------------------------------------------
(* Workers: ttak_worker_routine.                                           *)

Idle == <<callVars, active, futureVars, status>>

\* Mutant: the task stays in the queue.
TakeMutant(w, s, k) ==
  /\ k \in queue[s] /\ UNCHANGED queue
  /\ task' = [task EXCEPT ![w] = k] /\ RGoto(w, "run")

\* pop and unlock.
Take(w, s, k) ==
  /\ k \in queue[s]
  /\ queue' = [queue EXCEPT ![s] = @ \ {k}] /\ task' = [task EXCEPT ![w] = k]
  /\ RGoto(w, "run")

Loop(w) ==
  /\ rpc[w] = "loop" /\ RGoto(w, IF isShutdown THEN "gone" ELSE "fetch")
  /\ UNCHANGED <<poolVars, task, Idle>>

\* 1. The preferred shard.
Fetch(w) ==
  LET s == Preferred(w) IN
  /\ rpc[w] = "fetch" /\ lock[s] = None
  /\ \/ \E k \in queue[s] : Take(w, s, k)
     \/ queue[s] = {} /\ RGoto(w, "steal") /\ UNCHANGED <<queue, task>>
  /\ UNCHANGED <<pool, isShutdown, lock, waiting, Idle>>

\* Mutant: nothing is stolen.
StealableMutant(w, s) == {}

\* What worker_steal_task may pop from a shard: nothing when the trylock fails.
Stealable(w, s) == IF s = Preferred(w) \/ lock[s] # None THEN {} ELSE queue[s]

\* 2. The others, in index order.
Steal(w) ==
  /\ rpc[w] = "steal"
  /\ \/ /\ \E k \in Stealable(w, at[w]) : Take(w, at[w], k)
        /\ at' = [at EXCEPT ![w] = 0]
     \/ /\ Stealable(w, at[w]) = {}
        /\ IF at[w] + 1 \in Shards
           THEN at' = [at EXCEPT ![w] = @ + 1] /\ UNCHANGED rpc
           ELSE RGoto(w, "recheck") /\ at' = [at EXCEPT ![w] = 0]
        /\ UNCHANGED <<queue, task>>
  /\ UNCHANGED <<pool, isShutdown, lock, waiting, cpc, cur, active, futureVars, status>>

\* 3. Lock the preferred shard and look at the flags ...
Recheck(w) ==
  /\ rpc[w] = "recheck" /\ lock[Preferred(w)] = None
  /\ IF isShutdown THEN RGoto(w, "loop") /\ UNCHANGED lock
                   ELSE RGoto(w, "rechecked") /\ Lock(Preferred(w), w)
  /\ UNCHANGED <<pool, isShutdown, queue, waiting, task, Idle>>

\* ... then pop, or wait for the condition.
PopOrWait(w) ==
  LET s == Preferred(w) IN
  /\ rpc[w] = "rechecked" /\ Unlock(s)
  /\ \/ /\ \E k \in queue[s] : Take(w, s, k)
        /\ UNCHANGED waiting
     \/ /\ queue[s] = {} /\ RGoto(w, "wait")
        /\ waiting' = [waiting EXCEPT ![s] = @ \cup {w}]
        /\ UNCHANGED <<queue, task>>
  /\ UNCHANGED <<pool, isShutdown, Idle>>

\* Mutant: pthread_cond_wait in place of pthread_cond_timedwait.
TimesOutMutant(w) == FALSE

\* The wait ends on its own: the 10 ms are over, or the wakeup is spurious.
TimesOut(w) == rpc[w] = "wait"

Timeout(w) ==
  /\ TimesOut(w) /\ RGoto(w, "woken")
  /\ waiting' = [waiting EXCEPT ![Preferred(w)] = @ \ {w}]
  /\ UNCHANGED <<pool, isShutdown, lock, queue, task, Idle>>

\* timedwait returns with the lock, which is then released.
Woken(w) ==
  /\ rpc[w] = "woken" /\ lock[Preferred(w)] = None /\ RGoto(w, "loop")
  /\ UNCHANGED <<poolVars, task, Idle>>

-----------------------------------------------------------------------------
(* Shutdown.                                                               *)

\* pool_force_shutdown, called by itself or as the first step of destroy, sets
\* the flags under pool_lock ...
Shutdown(c) ==
  /\ cpc[c] = "idle" /\ pool = "open"
  /\ \A d \in Clients : cpc[d] # "broadcast"
  /\ isShutdown' = TRUE /\ CGoto(c, "broadcast")
  /\ \/ UNCHANGED pool
     \/ /\ \A d \in Clients : cpc[d] \notin {"lock", "push", "inline"}
        /\ pool' = "destroying"
  /\ UNCHANGED <<lock, queue, waiting, cur, at, runVars, futureVars, status>>

\* ... and broadcasts on every shard without taking the lock of the shard.
Broadcast(c) ==
  LET woken == waiting[at[c]] IN
  /\ cpc[c] = "broadcast"
  /\ waiting' = [waiting EXCEPT ![at[c]] = {}]
  /\ rpc' = [t \in Threads |-> IF t \in woken THEN "woken" ELSE rpc[t]]
  /\ IF at[c] + 1 \in Shards
     THEN at' = [at EXCEPT ![c] = @ + 1] /\ UNCHANGED cpc
          /\ UNCHANGED cur
     ELSE Call(c, IF pool = "destroying" THEN "join" ELSE "idle", None, 0)
  /\ UNCHANGED <<pool, isShutdown, lock, queue, task, active, futureVars, status>>

\* Mutant: destroy goes on as soon as no worker sleeps.
JoinedMutant == \A w \in Workers : rpc[w] # "wait"

\* destroy joins every worker ...
Joined == \A w \in Workers : rpc[w] = "gone"

Join(c) ==
  /\ cpc[c] = "join" /\ Joined /\ CGoto(c, "drain")
  /\ UNCHANGED <<poolVars, cur, at, runVars, futureVars, status>>

\* ... and destroys the tasks that are left, but not their promises.
Drain(c) ==
  /\ cpc[c] = "drain"
  /\ \/ \E s \in Shards, k \in Tasks :
          /\ k \in queue[s] /\ \A r \in 0 .. s - 1 : queue[r] = {}
          /\ queue' = [queue EXCEPT ![s] = @ \ {k}] /\ Mark(k, "dropped")
          /\ UNCHANGED <<pool, cpc>>
     \/ /\ \A s \in Shards : queue[s] = {}
        /\ pool' = "gone" /\ CGoto(c, "idle")
        /\ UNCHANGED <<queue, status>>
  /\ UNCHANGED <<isShutdown, lock, waiting, cur, at, runVars, futureVars>>

-----------------------------------------------------------------------------
RunStep(t) == Begin(t) \/ SetValueFree(t) \/ Leave(t)
BodyEnd(t) == Return(t) \/ Abort(t)
WorkerStep(w) ==
  \/ Loop(w) \/ Fetch(w) \/ Steal(w) \/ Recheck(w) \/ PopOrWait(w)
  \/ Timeout(w) \/ Woken(w)
CallStep(t) == ScheduleLock(t) \/ SchedulePush(t) \/ FutureGot(t) \/ FutureFree(t)
ShutdownStep(c) == Broadcast(c) \/ Join(c) \/ Drain(c)

PoolNext ==
  \/ \E t \in Threads :
       \/ CallStep(t) \/ RunStep(t) \/ Return(t)
       \/ \E k \in Tasks : Submit(t, k) \/ FutureGet(t, k) \/ FutureRelease(t, k)
  \/ \E w \in Workers : WorkerStep(w) \/ Abort(w)
  \/ \E c \in Clients : Shutdown(c) \/ ShutdownStep(c)

PoolSpec == PoolInit /\ [][PoolNext]_vars

\* Threads are scheduled, waits time out, and a task function ends unless it
\* blocks: it makes finitely many calls (SF).  Nobody has to submit, to get, to
\* release or to shut down.
PoolFairSpec ==
  /\ PoolSpec
  /\ \A w \in Workers : WF_vars(WorkerStep(w)) /\ SF_vars(BodyEnd(w))
  /\ \A t \in Threads : WF_vars(RunStep(t)) /\ WF_vars(CallStep(t))
  /\ \A c \in Clients : SF_vars(Return(c)) /\ WF_vars(ShutdownStep(c))

-----------------------------------------------------------------------------
(* Properties.                                                             *)

PoolTypeOK ==
  /\ pool \in {"open", "destroying", "gone"} /\ isShutdown \in BOOLEAN
  /\ lock \in [Shards -> Threads \cup {None}]
  /\ queue \in [Shards -> SUBSET Tasks]
  /\ waiting \in [Shards -> SUBSET Workers]
  /\ cpc \in [Threads -> {"idle", "lock", "push", "inline", "get", "free",
                         "broadcast", "join", "drain"}]
  /\ cur \in [Threads -> Tasks \cup {None}] /\ at \in [Threads -> Shards]
  /\ rpc \in [Threads -> {"none", "loop", "fetch", "steal", "recheck", "rechecked", "wait",
                         "woken", "run", "body", "reclaim", "leave", "gone"}]
  /\ task \in [Threads -> Tasks \cup {None}] /\ active \in [Threads -> BOOLEAN]
  /\ ready \subseteq Tasks /\ released \subseteq Tasks
  /\ freed \in [Tasks -> 0 .. 2] /\ owner \in [Tasks -> Threads \cup {None}]
  /\ status \in [Tasks -> {"new", "offered", "refused", "accepted", "running",
                          "fulfilled", "aborted", "dropped"}]

\* Who has a task before it is settled.
QueuedIn(k)   == {s \in Shards : k \in queue[s]}
ExecutedBy(k) == {t \in Threads : task[t] = k /\ rpc[t] \in {"run", "body"}}

\* An accepted task is in one queue or with one thread, and a settled one in
\* none: pushes, pops, steals, aborts and the drain of destroy neither lose a
\* task nor run it twice, although shutdown races with all of them.
OnePlace ==
  \A k \in Tasks :
    Cardinality(QueuedIn(k)) + Cardinality(ExecutedBy(k)) =
      IF status[k] \in {"accepted", "running"} THEN 1 ELSE 0

\* Threads that have decided to destroy the promise and have not done so yet.
Freeing(k) ==
  {t \in Threads : \/ cpc[t] = "free" /\ cur[t] = k
                   \/ rpc[t] = "reclaim" /\ task[t] = k}

\* Release and set_value race for the last reference: exactly one of them
\* destroys a future that is both ready and released, and neither does before.
FreedByTheLast ==
  \A k \in Tasks :
    freed[k] + Cardinality(Freeing(k)) =
      IF status[k] = "refused" \/ k \in ready \cap released THEN 1 ELSE 0

\* Nobody who will still use a future - its consumer, a waiter, the thread that
\* will set its value - finds it destroyed.
FutureAlive ==
  \A k \in Tasks : freed[k] > 0 =>
    /\ owner[k] = None /\ QueuedIn(k) = {} /\ ExecutedBy(k) = {}
    /\ \A t \in Threads : cur[t] = k => cpc[t] \notin {"lock", "push", "get", "free"}

\* A worker runs a task function inside an epoch section except while it blocks
\* in future_get, and has left its section when it looks for work, waits or ends,
\* whether the function returned, waited for a nested task or aborted.
SectionPerBody ==
  \A w \in Workers :
    active[w] = (rpc[w] \in {"body", "reclaim", "leave"} /\ cpc[w] # "get")

\* Every worker is blocked on a future.
AllBlocked == \A w \in Workers : cpc[w] = "get"

\* An accepted task is fetched, whichever shard it was routed to, unless the
\* pool is shut down or every worker waits for a future.
TaskTaken ==
  \A k \in Tasks : status[k] = "accepted" ~> status[k] # "accepted" \/ isShutdown \/ AllBlocked

\* After force_shutdown every worker ends, or is blocked on a future that no one
\* will fulfil: no wakeup is lost for good although the broadcast does not hold
\* the locks of the shards.
WorkersStop ==
  \A w \in Workers : isShutdown ~> rpc[w] = "gone" \/ (cpc[w] = "get" /\ cur[w] \notin ready)

\* The promise of module Executor.
Contract == INSTANCE Executor WITH
  closed <- isShutdown,
  status <- [k \in Tasks |-> IF status[k] = "offered" THEN "new" ELSE status[k]]

RefinesExecutor == Contract!Spec

\* "this function temporarily exits the epoch critical section during the wait
\* period" (future.c:10): a thread that is in no section when it calls future_get
\* is in none when it has returned.
TemporaryExit == \A c \in Clients : cpc[c] = "idle" => ~active[c]
=============================================================================
