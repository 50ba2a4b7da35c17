--------------------------- MODULE ThreadPoolProofs ---------------------------
(***************************************************************************)
(* The thread pool of src/thread/pool.c and its futures, for any number of   *)
(* workers, shards, clients and tasks: no task is lost or run twice, no      *)
(* future is destroyed early or twice, and the pool keeps the promise of     *)
(* module Executor.                                                        *)
(***************************************************************************)
EXTENDS ThreadPool, FiniteSetTheorems, TLAPS

Working  == {"run", "body", "reclaim", "leave"}      \* rpc with a task
Stopping == {"broadcast", "join", "drain"}           \* cpc of a shutdown

\* Workers make calls only from a task function, clients run a task only as the
\* call that could not hand it over; a call that needs a task has one.
CallInv ==
  \A t \in Threads :
    /\ t \in Workers =>
         /\ cpc[t] \in {"idle", "lock", "push", "get", "free"} /\ rpc[t] # "none"
         /\ cpc[t] # "idle" => rpc[t] = "body"
    /\ t \in Clients =>
         /\ rpc[t] \in {"none", "body", "reclaim", "leave"}
         /\ rpc[t] # "none" <=> cpc[t] = "inline"
    /\ cpc[t] \in {"lock", "push", "get", "free"} => cur[t] \in Tasks
    /\ cpc[t] \in {"lock", "push"} /\ t \in Workers => cur[t] \notin Async
    /\ rpc[t] \in Working <=> task[t] # None

\* A worker waits on the condition of its own shard, and nowhere else.
WaitInv ==
  \A w \in Workers, s \in Shards : w \in waiting[s] <=> rpc[w] = "wait" /\ s = Preferred(w)

\* One client at a time shuts down; destroy waits for the workers.
StopInv ==
  /\ pool # "open" => isShutdown
  /\ \A c, d \in Clients : cpc[c] \in Stopping /\ cpc[d] \in Stopping => c = d
  /\ \A c \in Clients :
       /\ cpc[c] \in {"join", "drain"} => pool = "destroying"
       /\ cpc[c] = "drain" => Joined
       /\ pool = "destroying" => cpc[c] \notin {"lock", "push", "inline"}

\* Where a task is, without counting: what is offered is in one call, what is
\* accepted in one queue or with one thread, what runs with one thread.
Offering(t) == cpc[t] \in {"lock", "push"}
Executes(t, k) == task[t] = k /\ rpc[t] \in {"run", "body"}

TaskStatus ==
  /\ \A t \in Threads :
       /\ Offering(t) => status[cur[t]] = "offered"
       /\ rpc[t] = "run" => status[task[t]] = "accepted"
       /\ rpc[t] = "body" => status[task[t]] = "running"
  /\ \A s \in Shards : \A k \in queue[s] : status[k] = "accepted"

TaskApart ==
  /\ \A t, u \in Threads : Offering(t) /\ Offering(u) /\ cur[t] = cur[u] => t = u
  /\ \A t, u \in Threads : \A k \in Tasks : Executes(t, k) /\ Executes(u, k) => t = u
  /\ \A s, r \in Shards : \A k \in queue[s] : k \in queue[r] => s = r
  /\ \A t \in Threads, s \in Shards : rpc[t] = "run" => task[t] \notin queue[s]

TaskPlaced ==
  \A k \in Tasks :
    /\ status[k] = "accepted" => \/ \E s \in Shards : k \in queue[s]
                                 \/ \E t \in Threads : task[t] = k /\ rpc[t] = "run"
    /\ status[k] = "running" => \E t \in Threads : task[t] = k /\ rpc[t] = "body"

TaskInv == TaskStatus /\ TaskApart /\ TaskPlaced

\* What the sets and counters of a future say about each other.
FutureStatus ==
  /\ \A k \in Tasks :
       /\ k \in ready <=> status[k] = "fulfilled"
       /\ owner[k] # None \/ k \in released => status[k] \notin {"new", "offered", "refused"}
       /\ owner[k] # None => k \notin released
       /\ freed[k] \in {0, 1}
       /\ freed[k] = 1 => status[k] = "refused" \/ k \in ready \cap released
       /\ status[k] = "refused" => freed[k] = 1
  /\ \A t \in Threads : cpc[t] = "get" => owner[cur[t]] = t

\* Who destroys a future: nobody before it is ready and released, and then one
\* thread until it has done so.
Frees(t, k) ==
  \/ cpc[t] = "free" /\ cur[t] = k
  \/ rpc[t] = "reclaim" /\ task[t] = k

FutureFreeing ==
  /\ \A k \in Tasks :
       k \in ready \cap released /\ freed[k] = 0 => \E t \in Threads : Frees(t, k)
  /\ \A t \in Threads, k \in Tasks : Frees(t, k) => k \in ready \cap released /\ freed[k] = 0
  /\ \A t, u \in Threads, k \in Tasks : Frees(t, k) /\ Frees(u, k) => t = u

FutureInv == FutureStatus /\ FutureFreeing

PoolInv ==
  /\ PoolTypeOK /\ CallInv /\ WaitInv /\ StopInv /\ TaskInv /\ FutureInv /\ SectionPerBody

-----------------------------------------------------------------------------
(* Types.                                                                  *)

LEMMA ShardTypes ==
  /\ 0 \in Shards /\ ActiveShards \subseteq Shards
  /\ \A w \in Workers : Preferred(w) \in Shards
  BY PoolConstants DEF Shards, ActiveShards, Workers, Preferred

LEMMA PoolTypeInit == PoolInit => PoolTypeOK
  <1> SUFFICES ASSUME PoolInit PROVE PoolTypeOK
    OBVIOUS
  <1>1. at \in [Threads -> Shards] /\ freed \in [Tasks -> 0 .. 2]
    BY ShardTypes DEF PoolInit
  <1> QED
    BY <1>1 DEF PoolInit, PoolTypeOK

\* A refused task and one its caller executes.
LEMMA NotAcceptedTypes ==
  ASSUME PoolTypeOK, NEW t \in Threads, NEW k \in Tasks, freed[k] \in {0, 1},
         NotAccepted(t, k), UNCHANGED poolVars
  PROVE  PoolTypeOK'
  <1> USE ShardTypes DEF PoolTypeOK, poolVars, runVars, Call, CallEnds, CGoto, RGoto, Mark,
          Destroyed
  <1>1. CASE Refuse(t, k)
    BY <1>1 DEF Refuse
  <1>2. CASE RunInline(t, k)
    BY <1>2 DEF RunInline
  <1> QED
    BY <1>1, <1>2 DEF NotAccepted

LEMMA TakeTypes ==
  ASSUME PoolTypeOK, NEW w \in Workers, NEW s \in Shards, NEW k \in queue[s], Take(w, s, k)
  PROVE  /\ queue' \in [Shards -> SUBSET Tasks] /\ task' \in [Threads -> Tasks \cup {None}]
         /\ rpc' = [rpc EXCEPT ![w] = "run"]
  BY DEF PoolTypeOK, Take, RGoto, Threads

LEMMA PoolTypeNext == PoolInv /\ [PoolNext]_vars => PoolTypeOK'
  <1> SUFFICES ASSUME PoolInv, [PoolNext]_vars PROVE PoolTypeOK'
    OBVIOUS
  <1> USE PoolConstants, ShardTypes DEF PoolInv, PoolTypeOK, Threads, poolVars, callVars,
          runVars, futureVars, Idle, Call, CallEnds, CGoto, RGoto, Mark, Destroyed, Lock,
          Unlock
  <1>F. \A k \in Tasks : freed[k] \in {0, 1}
    BY DEF FutureInv, FutureStatus
  <1>0. CASE UNCHANGED vars
    BY <1>0 DEF vars
  <1>1. ASSUME NEW t \in Threads, NEW k \in Tasks, Submit(t, k) PROVE PoolTypeOK'
    <2>1. CASE NotAccepted(t, k)
      BY <1>1, <1>F, <2>1, NotAcceptedTypes DEF Submit
    <2>2. CASE /\ \E s \in ActiveShards : Call(t, "lock", k, s)
               /\ UNCHANGED <<runVars, futureVars>> /\ Mark(k, "offered")
      BY <1>1, <2>2 DEF Submit
    <2> QED
      BY <1>1, <2>1, <2>2 DEF Submit, NotAccepted
  <1>2. ASSUME NEW t \in Threads, ScheduleLock(t) PROVE PoolTypeOK'
    <2>1. CASE isShutdown
      BY <1>2, <1>F, <2>1, NotAcceptedTypes DEF ScheduleLock, CallInv
    <2>2. CASE ~isShutdown
      BY <1>2, <2>2 DEF ScheduleLock
    <2> QED
      BY <2>1, <2>2
  <1>3. ASSUME NEW t \in Threads, SchedulePush(t) PROVE PoolTypeOK'
    <2>1. waiting' \in [Shards -> SUBSET Workers] /\ rpc' \in [Threads -> {"none", "loop", "fetch", "steal", "recheck", "rechecked", "wait",
                         "woken", "run", "body", "reclaim", "leave", "gone"}]
      BY <1>3 DEF SchedulePush, Signal
    <2>2. cur[t] \in Tasks /\ cpc[t] = "push"
      BY <1>3 DEF SchedulePush, CallInv
    <2>3. queue' \in [Shards -> SUBSET Tasks] /\ owner' \in [Tasks -> Threads \cup {None}]
      BY <1>3, <2>2 DEF SchedulePush
    <2> QED
      BY <1>3, <2>1, <2>2, <2>3 DEF SchedulePush
  <1>4. ASSUME NEW t \in Threads, FutureGot(t) PROVE PoolTypeOK'
    BY <1>4 DEF FutureGot
  <1>5. ASSUME NEW t \in Threads, FutureFree(t) PROVE PoolTypeOK'
    BY <1>5, <1>F DEF FutureFree, CallInv
  <1>6. ASSUME NEW t \in Threads, Begin(t) PROVE PoolTypeOK'
    BY <1>6 DEF Begin
  <1>7. ASSUME NEW t \in Threads, SetValueFree(t) PROVE PoolTypeOK'
    BY <1>7, <1>F DEF SetValueFree, CallInv, Working
  <1>8. ASSUME NEW t \in Threads, Leave(t) PROVE PoolTypeOK'
    BY <1>8 DEF Leave
  <1>9. ASSUME NEW t \in Threads, Return(t) PROVE PoolTypeOK'
    BY <1>9 DEF Return, CallInv, Working
  <1>10. ASSUME NEW t \in Threads, NEW k \in Tasks, FutureGet(t, k) PROVE PoolTypeOK'
    BY <1>10 DEF FutureGet
  <1>11. ASSUME NEW t \in Threads, NEW k \in Tasks, FutureRelease(t, k) PROVE PoolTypeOK'
    BY <1>11 DEF FutureRelease
  <1>12. ASSUME NEW w \in Workers, Loop(w) PROVE PoolTypeOK'
    BY <1>12 DEF Loop
  <1>13. ASSUME NEW w \in Workers, Fetch(w) PROVE PoolTypeOK'
    <2>1. Preferred(w) \in Shards
      BY DEF Workers
    <2>2. CASE \E k \in queue[Preferred(w)] : Take(w, Preferred(w), k)
      <3>1. /\ queue' \in [Shards -> SUBSET Tasks] /\ task' \in [Threads -> Tasks \cup {None}]
            /\ rpc' = [rpc EXCEPT ![w] = "run"]
        BY <2>1, <2>2, TakeTypes
      <3> QED
        BY <1>13, <3>1 DEF Fetch
    <2>3. CASE RGoto(w, "steal") /\ UNCHANGED <<queue, task>>
      BY <1>13, <2>3 DEF Fetch
    <2> QED
      BY <1>13, <2>2, <2>3 DEF Fetch
  <1>14. ASSUME NEW w \in Workers, Steal(w) PROVE PoolTypeOK'
    <2>1. CASE \E k \in Stealable(w, at[w]) : Take(w, at[w], k) /\ at' = [at EXCEPT ![w] = 0]
      <3>1. at[w] \in Shards /\ Stealable(w, at[w]) \subseteq queue[at[w]]
        BY DEF Stealable
      <3>2. /\ queue' \in [Shards -> SUBSET Tasks] /\ task' \in [Threads -> Tasks \cup {None}]
            /\ rpc' = [rpc EXCEPT ![w] = "run"]
        BY <2>1, <3>1, TakeTypes
      <3> QED
        BY <1>14, <2>1, <3>2 DEF Steal
    <2>2. CASE Stealable(w, at[w]) = {} /\ at[w] + 1 \in Shards
      BY <1>14, <2>2 DEF Steal
    <2>3. CASE Stealable(w, at[w]) = {} /\ at[w] + 1 \notin Shards
      BY <1>14, <2>3 DEF Steal
    <2> QED
      BY <1>14, <2>1, <2>2, <2>3 DEF Steal
  <1>15. ASSUME NEW w \in Workers, Recheck(w) PROVE PoolTypeOK'
    BY <1>15 DEF Recheck
  <1>16. ASSUME NEW w \in Workers, PopOrWait(w) PROVE PoolTypeOK'
    BY <1>16, TakeTypes DEF PopOrWait
  <1>17. ASSUME NEW w \in Workers, Timeout(w) PROVE PoolTypeOK'
    BY <1>17 DEF Timeout
  <1>18. ASSUME NEW w \in Workers, Woken(w) PROVE PoolTypeOK'
    BY <1>18 DEF Woken
  <1>19. ASSUME NEW w \in Workers, Abort(w) PROVE PoolTypeOK'
    BY <1>19 DEF Abort
  <1>20. ASSUME NEW c \in Clients, Shutdown(c) PROVE PoolTypeOK'
    BY <1>20 DEF Shutdown
  <1>21. ASSUME NEW c \in Clients, Broadcast(c) PROVE PoolTypeOK'
    <2>1. CASE at[c] + 1 \in Shards
      BY <1>21, <2>1, SMTT(30) DEF Broadcast
    <2>2. CASE at[c] + 1 \notin Shards
      BY <1>21, <2>2 DEF Broadcast
    <2> QED
      BY <2>1, <2>2
  <1>22. ASSUME NEW c \in Clients, Join(c) PROVE PoolTypeOK'
    BY <1>22 DEF Join
  <1>23. ASSUME NEW c \in Clients, Drain(c) PROVE PoolTypeOK'
    BY <1>23 DEF Drain
  <1> QED
    BY <1>0, <1>1, <1>2, <1>3, <1>4, <1>5, <1>6, <1>7, <1>8, <1>9, <1>10, <1>11, <1>12,
       <1>13, <1>14, <1>15, <1>16, <1>17, <1>18, <1>19, <1>20, <1>21, <1>22, <1>23
       DEF PoolNext, CallStep, RunStep, WorkerStep, ShutdownStep

-----------------------------------------------------------------------------
(* The actions by what they do to the state the invariant is about.  The     *)
(* locks, the order in which a worker visits shards and the waits of a        *)
(* shutdown only move threads about (Roams).                               *)

\* schedule_task turns the task away, before or under the lock.
Turned(t, k) ==
  /\ NotAccepted(t, k) /\ isShutdown /\ UNCHANGED poolVars
  /\ \/ MayCall(t) /\ status[k] = "new"
     \/ cpc[t] = "lock" /\ cur[t] = k
  /\ t \in Workers => k \notin Async
  /\ pool = "destroying" => t \in Workers

Offered(t, k) ==
  /\ MayCall(t) /\ status[k] = "new" /\ Mark(k, "offered")
  /\ t \in Workers => k \notin Async
  /\ pool = "destroying" => t \in Workers
  /\ \E s \in Shards : Call(t, "lock", k, s)
  /\ UNCHANGED <<poolVars, runVars, futureVars>>

Locked(t) ==
  /\ cpc[t] = "lock" /\ CGoto(t, "push")
  /\ UNCHANGED <<pool, isShutdown, queue, waiting, cur, runVars, futureVars, status>>

Takes(w, s, k) ==
  /\ rpc[w] \notin Working \cup {"gone"} /\ Take(w, s, k)
  /\ UNCHANGED <<pool, isShutdown, waiting, cpc, cur, active, futureVars, status>>

\* No thread takes up or gives up a task.
Wanders ==
  \A t \in Threads :
    \/ rpc'[t] = rpc[t]
    \/ /\ t \in Workers /\ rpc[t] \notin Working \cup {"gone"}
       /\ rpc'[t] \notin Working \cup {"none"}

Roams ==
  /\ Wanders
  /\ \A t \in Threads :
       \/ cpc'[t] = cpc[t] /\ cur'[t] = cur[t]
       \/ /\ t \in Clients /\ cpc[t] \in Stopping \cup {"idle"}
          /\ cpc'[t] \in Stopping \cup {"idle"}
  /\ isShutdown' \in {isShutdown, TRUE}
  /\ UNCHANGED <<queue, task, active, futureVars, status>>

Pushes(t, s) ==
  /\ cpc[t] = "push" /\ CGoto(t, "idle") /\ cur' = [cur EXCEPT ![t] = None]
  /\ queue' = [queue EXCEPT ![s] = @ \cup {cur[t]}]
  /\ owner' = [owner EXCEPT ![cur[t]] = t] /\ Mark(cur[t], "accepted")
  /\ Wanders /\ UNCHANGED <<pool, isShutdown, task, active, ready, released, freed>>

Drops(s, k) ==
  /\ k \in queue[s] /\ queue' = [queue EXCEPT ![s] = @ \ {k}] /\ Mark(k, "dropped")
  /\ UNCHANGED <<pool, isShutdown, waiting, cpc, cur, runVars, futureVars>>

LEMMA Apart == Workers \cap Clients = {} /\ None \notin Threads \cup Tasks
  BY PoolConstants DEF Workers, Threads

LEMMA SubmitKinds ==
  ASSUME PoolInv, NEW t \in Threads, NEW k \in Tasks, Submit(t, k)
  PROVE  Turned(t, k) \/ Offered(t, k)
  <1>1. t \in Workers => k \notin Async
    BY Apart, PoolConstants DEF Submit, Submits
  <1>2. pool = "gone" => isShutdown
    BY DEF PoolInv, StopInv
  <1> QED
    BY <1>1, <1>2, ShardTypes DEF Submit, Turned, Offered, NotAccepted

LEMMA LockKinds ==
  ASSUME PoolInv, NEW t \in Threads, ScheduleLock(t)
  PROVE  Locked(t) \/ (cur[t] \in Tasks /\ Turned(t, cur[t]))
  BY DEF PoolInv, CallInv, StopInv, ScheduleLock, Turned, Locked, poolVars, Threads

LEMMA PushKinds ==
  ASSUME PoolInv, NEW t \in Threads, SchedulePush(t)
  PROVE  \E s \in Shards : Pushes(t, s)
  <1>1. Wanders
    BY DEF SchedulePush, Signal, Wanders, RGoto, Working, PoolInv, PoolTypeOK, WaitInv, Threads
  <1> QED
    BY <1>1 DEF SchedulePush, Pushes, CallEnds, Call, CGoto, PoolInv, PoolTypeOK

LEMMA WorkerKinds ==
  ASSUME PoolInv, NEW w \in Workers, WorkerStep(w)
  PROVE  Roams \/ \E s \in Shards : \E k \in queue[s] : Takes(w, s, k)
  <1> USE ShardTypes, Apart DEF PoolInv, PoolTypeOK, Roams, Wanders, Takes, Working,
          Threads, RGoto, Idle, callVars
  <1>1. CASE Loop(w) \/ Recheck(w) \/ Timeout(w) \/ Woken(w)
    <2>1. CASE Loop(w)
      BY <2>1 DEF Loop, poolVars
    <2>2. CASE Recheck(w)
      BY <2>2 DEF Recheck, poolVars
    <2>3. CASE Timeout(w)
      BY <2>3 DEF Timeout, TimesOut, poolVars
    <2>4. CASE Woken(w)
      BY <2>4 DEF Woken, poolVars
    <2> QED
      BY <1>1, <2>1, <2>2, <2>3, <2>4
  <1>2. CASE Fetch(w)
    BY <1>2 DEF Fetch
  <1>3. CASE Steal(w)
    <2>1. CASE \E k \in Stealable(w, at[w]) : Take(w, at[w], k)
      BY <1>3, <2>1 DEF Steal, Stealable
    <2>2. CASE Stealable(w, at[w]) = {}
      BY <1>3, <2>2 DEF Steal
    <2> QED
      BY <1>3, <2>1, <2>2 DEF Steal
  <1>4. CASE PopOrWait(w)
    BY <1>4 DEF PopOrWait
  <1> QED
    BY <1>1, <1>2, <1>3, <1>4 DEF WorkerStep

LEMMA ShutdownKinds ==
  ASSUME PoolInv, NEW c \in Clients, Shutdown(c) \/ ShutdownStep(c)
  PROVE  \/ Roams
         \/ cpc[c] = "drain" /\ \E s \in Shards, k \in Tasks : Drops(s, k)
  <1> USE Apart DEF PoolInv, PoolTypeOK, Roams, Wanders, Working, Stopping, Threads, CGoto,
          Call,
          callVars, runVars
  <1>1. CASE Shutdown(c) \/ Join(c)
    BY <1>1 DEF Shutdown, Join, poolVars
  <1>2. CASE Broadcast(c)
    BY <1>2 DEF Broadcast, WaitInv
  <1>3. CASE Drain(c)
    BY <1>3 DEF Drain, Drops
  <1> QED
    BY <1>1, <1>2, <1>3 DEF ShutdownStep

LEMMA StepKinds ==
  ASSUME PoolInv, [PoolNext]_vars
  PROVE  \/ UNCHANGED vars \/ Roams
         \/ \E t \in Threads :
              \/ Locked(t) \/ FutureGot(t) \/ FutureFree(t)
              \/ Begin(t) \/ SetValueFree(t) \/ Leave(t) \/ Return(t)
              \/ \E k \in Tasks : \/ Turned(t, k) \/ Offered(t, k)
                                  \/ FutureGet(t, k) \/ FutureRelease(t, k)
              \/ \E s \in Shards : Pushes(t, s)
         \/ \E w \in Workers :
              Abort(w) \/ \E s \in Shards : \E k \in queue[s] : Takes(w, s, k)
         \/ /\ \E c \in Clients : cpc[c] = "drain"
            /\ \E s \in Shards, k \in Tasks : Drops(s, k)
  BY SubmitKinds, LockKinds, PushKinds, WorkerKinds, ShutdownKinds
     DEF PoolNext, CallStep, RunStep

LEMMA CallNext == PoolInv /\ [PoolNext]_vars => CallInv'
  <1> SUFFICES ASSUME PoolInv, [PoolNext]_vars PROVE CallInv'
    OBVIOUS
  <1> USE Apart DEF PoolInv, CallInv, MayCall, Working, Stopping, PoolTypeOK, Threads,
          poolVars, callVars, runVars, futureVars, Call, CallEnds, CGoto, RGoto, Mark, Destroyed
  <1>0. CASE UNCHANGED vars
    BY <1>0 DEF vars
  <1>1. ASSUME NEW t \in Threads, NEW k \in Tasks, Turned(t, k) PROVE CallInv'
    BY <1>1 DEF Turned, NotAccepted, Refuse, RunInline
  <1>2. ASSUME NEW t \in Threads, NEW k \in Tasks, Offered(t, k) PROVE CallInv'
    BY <1>2 DEF Offered
  <1>3. ASSUME NEW t \in Threads, Locked(t) PROVE CallInv'
    BY <1>3 DEF Locked
  <1>4. ASSUME NEW t \in Threads, NEW s \in Shards, Pushes(t, s) PROVE CallInv'
    BY <1>4 DEF Pushes, Wanders
  <1>5. ASSUME NEW t \in Threads, FutureGot(t) PROVE CallInv'
    BY <1>5 DEF FutureGot
  <1>6. ASSUME NEW t \in Threads, FutureFree(t) PROVE CallInv'
    BY <1>6 DEF FutureFree
  <1>7. ASSUME NEW t \in Threads, Begin(t) PROVE CallInv'
    BY <1>7 DEF Begin
  <1>8. ASSUME NEW t \in Threads, SetValueFree(t) PROVE CallInv'
    BY <1>8 DEF SetValueFree
  <1>9. ASSUME NEW t \in Threads, Leave(t) PROVE CallInv'
    BY <1>9 DEF Leave
  <1>10. ASSUME NEW t \in Threads, Return(t) PROVE CallInv'
    BY <1>10 DEF Return
  <1>11. ASSUME NEW t \in Threads, NEW k \in Tasks, FutureGet(t, k) PROVE CallInv'
    BY <1>11 DEF FutureGet
  <1>12. ASSUME NEW t \in Threads, NEW k \in Tasks, FutureRelease(t, k) PROVE CallInv'
    BY <1>12 DEF FutureRelease
  <1>13. ASSUME NEW w \in Workers, Abort(w) PROVE CallInv'
    BY <1>13 DEF Abort
  <1>14. ASSUME NEW w \in Workers, NEW s \in Shards, NEW k \in queue[s], Takes(w, s, k)
         PROVE  CallInv'
    BY <1>14 DEF Takes, Take
  <1>15. ASSUME NEW s \in Shards, NEW k \in Tasks, Drops(s, k) PROVE CallInv'
    BY <1>15 DEF Drops
  <1>16. CASE Roams
    BY <1>16 DEF Roams, Wanders
  <1> QED
    BY <1>0, <1>1, <1>2, <1>3, <1>4, <1>5, <1>6, <1>7, <1>8, <1>9, <1>10, <1>11, <1>12,
       <1>13, <1>14, <1>15, <1>16, StepKinds

LEMMA SectionNext == PoolInv /\ [PoolNext]_vars => SectionPerBody'
  <1> SUFFICES ASSUME PoolInv, [PoolNext]_vars PROVE SectionPerBody'
    OBVIOUS
  <1> USE Apart DEF PoolInv, CallInv, SectionPerBody, MayCall, Working, Stopping,
          PoolTypeOK, Threads, poolVars, callVars, runVars, futureVars, Call, CallEnds,
          CGoto, RGoto, Mark, Destroyed
  <1>0. CASE UNCHANGED vars
    BY <1>0 DEF vars
  <1>1. ASSUME NEW t \in Threads, NEW k \in Tasks, Turned(t, k) PROVE SectionPerBody'
    BY <1>1 DEF Turned, NotAccepted, Refuse, RunInline
  <1>2. ASSUME NEW t \in Threads, NEW k \in Tasks, Offered(t, k) PROVE SectionPerBody'
    BY <1>2 DEF Offered
  <1>3. ASSUME NEW t \in Threads, Locked(t) PROVE SectionPerBody'
    BY <1>3 DEF Locked
  <1>4. ASSUME NEW t \in Threads, NEW s \in Shards, Pushes(t, s) PROVE SectionPerBody'
    BY <1>4 DEF Pushes, Wanders
  <1>5. ASSUME NEW t \in Threads, FutureGot(t) PROVE SectionPerBody'
    BY <1>5 DEF FutureGot
  <1>6. ASSUME NEW t \in Threads, FutureFree(t) PROVE SectionPerBody'
    BY <1>6 DEF FutureFree
  <1>7. ASSUME NEW t \in Threads, Begin(t) PROVE SectionPerBody'
    BY <1>7 DEF Begin
  <1>8. ASSUME NEW t \in Threads, SetValueFree(t) PROVE SectionPerBody'
    BY <1>8 DEF SetValueFree
  <1>9. ASSUME NEW t \in Threads, Leave(t) PROVE SectionPerBody'
    BY <1>9 DEF Leave
  <1>10. ASSUME NEW t \in Threads, Return(t) PROVE SectionPerBody'
    BY <1>10 DEF Return
  <1>11. ASSUME NEW t \in Threads, NEW k \in Tasks, FutureGet(t, k) PROVE SectionPerBody'
    BY <1>11 DEF FutureGet
  <1>12. ASSUME NEW t \in Threads, NEW k \in Tasks, FutureRelease(t, k) PROVE SectionPerBody'
    BY <1>12 DEF FutureRelease
  <1>13. ASSUME NEW w \in Workers, Abort(w) PROVE SectionPerBody'
    BY <1>13 DEF Abort
  <1>14. ASSUME NEW w \in Workers, NEW s \in Shards, NEW k \in queue[s], Takes(w, s, k)
         PROVE  SectionPerBody'
    BY <1>14 DEF Takes, Take
  <1>15. ASSUME NEW s \in Shards, NEW k \in Tasks, Drops(s, k) PROVE SectionPerBody'
    BY <1>15 DEF Drops
  <1>16. CASE Roams
    BY <1>16 DEF Roams, Wanders
  <1> QED
    BY <1>0, <1>1, <1>2, <1>3, <1>4, <1>5, <1>6, <1>7, <1>8, <1>9, <1>10, <1>11, <1>12,
       <1>13, <1>14, <1>15, <1>16, StepKinds

LEMMA TaskStatusNext == PoolInv /\ [PoolNext]_vars => TaskStatus'
  <1> SUFFICES ASSUME PoolInv, [PoolNext]_vars PROVE TaskStatus'
    OBVIOUS
  <1> USE Apart DEF PoolInv, CallInv, TaskInv, TaskStatus, MayCall, Working, Stopping,
          Offering, PoolTypeOK, Threads, poolVars, callVars, runVars, futureVars, Call,
          CallEnds, CGoto, RGoto, Mark, Destroyed
  <1>0. CASE UNCHANGED vars
    BY <1>0 DEF vars
  <1>1. ASSUME NEW t \in Threads, NEW k \in Tasks, Turned(t, k) PROVE TaskStatus'
    <2>1. CASE Refuse(t, k)
      BY <1>1, <2>1 DEF Turned, Refuse, TaskApart
    <2>2. CASE RunInline(t, k)
      BY <1>1, <2>2 DEF Turned, RunInline, TaskApart
    <2> QED
      BY <1>1, <2>1, <2>2 DEF Turned, NotAccepted
  <1>2. ASSUME NEW t \in Threads, NEW k \in Tasks, Offered(t, k) PROVE TaskStatus'
    BY <1>2 DEF Offered
  <1>3. ASSUME NEW t \in Threads, Locked(t) PROVE TaskStatus'
    BY <1>3 DEF Locked
  <1>4. ASSUME NEW t \in Threads, NEW s \in Shards, Pushes(t, s) PROVE TaskStatus'
    BY <1>4 DEF Pushes, Wanders, TaskApart, Executes
  <1>5. ASSUME NEW t \in Threads, FutureGot(t) PROVE TaskStatus'
    BY <1>5 DEF FutureGot
  <1>6. ASSUME NEW t \in Threads, FutureFree(t) PROVE TaskStatus'
    BY <1>6 DEF FutureFree
  <1>7. ASSUME NEW t \in Threads, Begin(t) PROVE TaskStatus'
    BY <1>7 DEF Begin, TaskApart, Executes
  <1>8. ASSUME NEW t \in Threads, SetValueFree(t) PROVE TaskStatus'
    BY <1>8 DEF SetValueFree
  <1>9. ASSUME NEW t \in Threads, Leave(t) PROVE TaskStatus'
    BY <1>9 DEF Leave
  <1>10. ASSUME NEW t \in Threads, Return(t) PROVE TaskStatus'
    BY <1>10 DEF Return, TaskApart, Executes
  <1>11. ASSUME NEW t \in Threads, NEW k \in Tasks, FutureGet(t, k) PROVE TaskStatus'
    BY <1>11 DEF FutureGet
  <1>12. ASSUME NEW t \in Threads, NEW k \in Tasks, FutureRelease(t, k) PROVE TaskStatus'
    BY <1>12 DEF FutureRelease
  <1>13. ASSUME NEW w \in Workers, Abort(w) PROVE TaskStatus'
    BY <1>13 DEF Abort, TaskApart, Executes
  <1>14. ASSUME NEW w \in Workers, NEW s \in Shards, NEW k \in queue[s], Takes(w, s, k)
         PROVE  TaskStatus'
    BY <1>14 DEF Takes, Take
  <1>15. ASSUME NEW s \in Shards, NEW k \in Tasks, Drops(s, k) PROVE TaskStatus'
    BY <1>15 DEF Drops, TaskApart, Executes
  <1>16. CASE Roams
    BY <1>16 DEF Roams, Wanders
  <1> QED
    BY <1>0, <1>1, <1>2, <1>3, <1>4, <1>5, <1>6, <1>7, <1>8, <1>9, <1>10, <1>11, <1>12,
       <1>13, <1>14, <1>15, <1>16, StepKinds

LEMMA TaskApartNext == PoolInv /\ [PoolNext]_vars => TaskApart'
  <1> SUFFICES ASSUME PoolInv, [PoolNext]_vars PROVE TaskApart'
    OBVIOUS
  <1> USE Apart DEF PoolInv, CallInv, TaskInv, TaskStatus, MayCall, Working, Stopping,
          Offering, TaskApart, Executes, PoolTypeOK, Threads, poolVars, callVars, runVars,
          futureVars, Call, CallEnds, CGoto, RGoto, Mark, Destroyed
  <1>0. CASE UNCHANGED vars
    BY <1>0 DEF vars
  <1>1. ASSUME NEW t \in Threads, NEW k \in Tasks, Turned(t, k) PROVE TaskApart'
    <2>1. CASE Refuse(t, k)
      BY <1>1, <2>1 DEF Turned, Refuse
    <2>2. CASE RunInline(t, k)
      BY <1>1, <2>2 DEF Turned, RunInline
    <2> QED
      BY <1>1, <2>1, <2>2 DEF Turned, NotAccepted
  <1>2. ASSUME NEW t \in Threads, NEW k \in Tasks, Offered(t, k) PROVE TaskApart'
    BY <1>2 DEF Offered
  <1>3. ASSUME NEW t \in Threads, Locked(t) PROVE TaskApart'
    BY <1>3 DEF Locked
  <1>4. ASSUME NEW t \in Threads, NEW s \in Shards, Pushes(t, s) PROVE TaskApart'
    BY <1>4 DEF Pushes, Wanders
  <1>5. ASSUME NEW t \in Threads, FutureGot(t) PROVE TaskApart'
    BY <1>5 DEF FutureGot
  <1>6. ASSUME NEW t \in Threads, FutureFree(t) PROVE TaskApart'
    BY <1>6 DEF FutureFree
  <1>7. ASSUME NEW t \in Threads, Begin(t) PROVE TaskApart'
    BY <1>7 DEF Begin
  <1>8. ASSUME NEW t \in Threads, SetValueFree(t) PROVE TaskApart'
    BY <1>8 DEF SetValueFree
  <1>9. ASSUME NEW t \in Threads, Leave(t) PROVE TaskApart'
    BY <1>9 DEF Leave
  <1>10. ASSUME NEW t \in Threads, Return(t) PROVE TaskApart'
    BY <1>10 DEF Return
  <1>11. ASSUME NEW t \in Threads, NEW k \in Tasks, FutureGet(t, k) PROVE TaskApart'
    BY <1>11 DEF FutureGet
  <1>12. ASSUME NEW t \in Threads, NEW k \in Tasks, FutureRelease(t, k) PROVE TaskApart'
    BY <1>12 DEF FutureRelease
  <1>13. ASSUME NEW w \in Workers, Abort(w) PROVE TaskApart'
    BY <1>13 DEF Abort
  <1>14. ASSUME NEW w \in Workers, NEW s \in Shards, NEW k \in queue[s], Takes(w, s, k)
         PROVE  TaskApart'
    BY <1>14 DEF Takes, Take
  <1>15. ASSUME NEW s \in Shards, NEW k \in Tasks, Drops(s, k) PROVE TaskApart'
    BY <1>15 DEF Drops
  <1>16. CASE Roams
    BY <1>16 DEF Roams, Wanders
  <1> QED
    BY <1>0, <1>1, <1>2, <1>3, <1>4, <1>5, <1>6, <1>7, <1>8, <1>9, <1>10, <1>11, <1>12,
       <1>13, <1>14, <1>15, <1>16, StepKinds

LEMMA TaskPlacedNext == PoolInv /\ [PoolNext]_vars => TaskPlaced'
  <1> SUFFICES ASSUME PoolInv, [PoolNext]_vars PROVE TaskPlaced'
    OBVIOUS
  <1> USE Apart DEF PoolInv, CallInv, TaskInv, TaskStatus, MayCall, Working, Stopping,
          Offering, TaskPlaced, PoolTypeOK, Threads, poolVars, callVars, runVars,
          futureVars, Call, CallEnds, CGoto, RGoto, Mark, Destroyed
  <1>0. CASE UNCHANGED vars
    BY <1>0 DEF vars
  <1>1. ASSUME NEW t \in Threads, NEW k \in Tasks, Turned(t, k) PROVE TaskPlaced'
    <2>1. CASE Refuse(t, k)
      BY <1>1, <2>1 DEF Turned, Refuse
    <2>2. CASE RunInline(t, k)
      BY <1>1, <2>2 DEF Turned, RunInline
    <2> QED
      BY <1>1, <2>1, <2>2 DEF Turned, NotAccepted
  <1>2. ASSUME NEW t \in Threads, NEW k \in Tasks, Offered(t, k) PROVE TaskPlaced'
    BY <1>2 DEF Offered
  <1>3. ASSUME NEW t \in Threads, Locked(t) PROVE TaskPlaced'
    BY <1>3 DEF Locked
  <1>4. ASSUME NEW t \in Threads, NEW s \in Shards, Pushes(t, s) PROVE TaskPlaced'
    <2>1. /\ cur[t] \in queue'[s] /\ UNCHANGED task
          /\ \A j \in Tasks : j # cur[t] => status'[j] = status[j]
          /\ \A r \in Shards : queue[r] \subseteq queue'[r]
      BY <1>4 DEF Pushes
    <2>2. \A u \in Threads : rpc[u] \in {"run", "body"} => rpc'[u] = rpc[u]
      BY <1>4 DEF Pushes, Wanders
    <2>3. status'[cur[t]] = "accepted"
      BY <1>4 DEF Pushes
    <2>4. ASSUME NEW k \in Tasks, status'[k] = "accepted"
          PROVE  \/ \E r \in Shards : k \in queue'[r]
                 \/ \E u \in Threads : task'[u] = k /\ rpc'[u] = "run"
      <3>1. CASE k = cur[t]
        BY <2>1, <3>1
      <3>2. CASE k # cur[t]
        BY <2>1, <2>2, <2>4, <3>2
      <3> QED
        BY <3>1, <3>2
    <2>5. ASSUME NEW k \in Tasks, status'[k] = "running"
          PROVE  \E u \in Threads : task'[u] = k /\ rpc'[u] = "body"
      BY <2>1, <2>2, <2>3, <2>5
    <2> QED
      BY <2>4, <2>5 DEF TaskPlaced
  <1>5. ASSUME NEW t \in Threads, FutureGot(t) PROVE TaskPlaced'
    BY <1>5 DEF FutureGot
  <1>6. ASSUME NEW t \in Threads, FutureFree(t) PROVE TaskPlaced'
    BY <1>6 DEF FutureFree
  <1>7. ASSUME NEW t \in Threads, Begin(t) PROVE TaskPlaced'
    BY <1>7 DEF Begin
  <1>8. ASSUME NEW t \in Threads, SetValueFree(t) PROVE TaskPlaced'
    BY <1>8 DEF SetValueFree
  <1>9. ASSUME NEW t \in Threads, Leave(t) PROVE TaskPlaced'
    BY <1>9 DEF Leave
  <1>10. ASSUME NEW t \in Threads, Return(t) PROVE TaskPlaced'
    BY <1>10 DEF Return
  <1>11. ASSUME NEW t \in Threads, NEW k \in Tasks, FutureGet(t, k) PROVE TaskPlaced'
    BY <1>11 DEF FutureGet
  <1>12. ASSUME NEW t \in Threads, NEW k \in Tasks, FutureRelease(t, k) PROVE TaskPlaced'
    BY <1>12 DEF FutureRelease
  <1>13. ASSUME NEW w \in Workers, Abort(w) PROVE TaskPlaced'
    BY <1>13 DEF Abort
  <1>14. ASSUME NEW w \in Workers, NEW s \in Shards, NEW k \in queue[s], Takes(w, s, k)
         PROVE  TaskPlaced'
    BY <1>14 DEF Takes, Take
  <1>15. ASSUME NEW s \in Shards, NEW k \in Tasks, Drops(s, k) PROVE TaskPlaced'
    BY <1>15 DEF Drops
  <1>16. CASE Roams
    BY <1>16 DEF Roams, Wanders
  <1> QED
    BY <1>0, <1>1, <1>2, <1>3, <1>4, <1>5, <1>6, <1>7, <1>8, <1>9, <1>10, <1>11, <1>12,
       <1>13, <1>14, <1>15, <1>16, StepKinds

LEMMA FutureStatusNext == PoolInv /\ [PoolNext]_vars => FutureStatus'
  <1> SUFFICES ASSUME PoolInv, [PoolNext]_vars PROVE FutureStatus'
    OBVIOUS
  <1> USE Apart DEF PoolInv, CallInv, TaskInv, TaskStatus, MayCall, Working, Stopping,
          Offering, FutureInv, FutureStatus, LastRelease, LastSet, PoolTypeOK, Threads,
          poolVars, callVars, runVars, futureVars, Call, CallEnds, CGoto, RGoto, Mark, Destroyed
  <1>0. CASE UNCHANGED vars
    BY <1>0 DEF vars
  <1>1. ASSUME NEW t \in Threads, NEW k \in Tasks, Turned(t, k) PROVE FutureStatus'
    BY <1>1 DEF Turned, NotAccepted, Refuse, RunInline
  <1>2. ASSUME NEW t \in Threads, NEW k \in Tasks, Offered(t, k) PROVE FutureStatus'
    BY <1>2 DEF Offered
  <1>3. ASSUME NEW t \in Threads, Locked(t) PROVE FutureStatus'
    BY <1>3 DEF Locked
  <1>4. ASSUME NEW t \in Threads, NEW s \in Shards, Pushes(t, s) PROVE FutureStatus'
    BY <1>4 DEF Pushes, Wanders
  <1>5. ASSUME NEW t \in Threads, FutureGot(t) PROVE FutureStatus'
    BY <1>5 DEF FutureGot
  <1>6. ASSUME NEW t \in Threads, FutureFree(t) PROVE FutureStatus'
    BY <1>6 DEF FutureFree, FutureFreeing, Frees
  <1>7. ASSUME NEW t \in Threads, Begin(t) PROVE FutureStatus'
    BY <1>7 DEF Begin
  <1>8. ASSUME NEW t \in Threads, SetValueFree(t) PROVE FutureStatus'
    BY <1>8 DEF SetValueFree, FutureFreeing, Frees
  <1>9. ASSUME NEW t \in Threads, Leave(t) PROVE FutureStatus'
    BY <1>9 DEF Leave
  <1>10. ASSUME NEW t \in Threads, Return(t) PROVE FutureStatus'
    BY <1>10 DEF Return
  <1>11. ASSUME NEW t \in Threads, NEW k \in Tasks, FutureGet(t, k) PROVE FutureStatus'
    BY <1>11 DEF FutureGet
  <1>12. ASSUME NEW t \in Threads, NEW k \in Tasks, FutureRelease(t, k) PROVE FutureStatus'
    BY <1>12 DEF FutureRelease
  <1>13. ASSUME NEW w \in Workers, Abort(w) PROVE FutureStatus'
    BY <1>13 DEF Abort
  <1>14. ASSUME NEW w \in Workers, NEW s \in Shards, NEW k \in queue[s], Takes(w, s, k)
         PROVE  FutureStatus'
    BY <1>14 DEF Takes, Take
  <1>15. ASSUME NEW s \in Shards, NEW k \in Tasks, Drops(s, k) PROVE FutureStatus'
    BY <1>15 DEF Drops
  <1>16. CASE Roams
    BY <1>16 DEF Roams, Wanders
  <1> QED
    BY <1>0, <1>1, <1>2, <1>3, <1>4, <1>5, <1>6, <1>7, <1>8, <1>9, <1>10, <1>11, <1>12,
       <1>13, <1>14, <1>15, <1>16, StepKinds

\* Steps that neither decide to destroy a future nor destroy one.
LEMMA FreeingStutter ==
  ASSUME FutureFreeing, UNCHANGED <<ready, released, freed>>,
         \A t \in Threads, k \in Tasks : Frees(t, k)' <=> Frees(t, k)
  PROVE  FutureFreeing'
  BY DEF FutureFreeing

LEMMA FutureFreeingNext == PoolInv /\ [PoolNext]_vars => FutureFreeing'
  <1> SUFFICES ASSUME PoolInv, [PoolNext]_vars PROVE FutureFreeing'
    OBVIOUS
  <1> USE Apart DEF PoolInv, CallInv, TaskInv, TaskStatus, MayCall, Working, Stopping,
          Offering, FutureInv, FutureStatus, PoolTypeOK, Threads, poolVars, callVars,
          runVars, futureVars, Call, CallEnds, CGoto, RGoto, Mark, Destroyed
  <1>0. CASE UNCHANGED vars
    BY <1>0, FreeingStutter DEF vars, Frees
  <1>1. ASSUME NEW t \in Threads, NEW k \in Tasks, Turned(t, k) PROVE FutureFreeing'
    <2>1. CASE Refuse(t, k)
      <3>1. \A u \in Threads, j \in Tasks : Frees(u, j)' <=> Frees(u, j)
        BY <1>1, <2>1 DEF Turned, Refuse, Frees
      <3>2. k \notin ready /\ UNCHANGED <<ready, released>>
        BY <1>1, <2>1 DEF Turned, Refuse
      <3>3. \A j \in Tasks : j # k => freed'[j] = freed[j]
        BY <1>1, <2>1 DEF Turned, Refuse
      <3> QED
        BY <3>1, <3>2, <3>3 DEF FutureFreeing
    <2>2. CASE RunInline(t, k)
      BY <1>1, <2>2, FreeingStutter DEF Turned, RunInline, Frees
    <2> QED
      BY <1>1, <2>1, <2>2 DEF Turned, NotAccepted
  <1>2. ASSUME NEW t \in Threads, NEW k \in Tasks, Offered(t, k) PROVE FutureFreeing'
    BY <1>2, FreeingStutter DEF Offered, Frees
  <1>3. ASSUME NEW t \in Threads, Locked(t) PROVE FutureFreeing'
    BY <1>3, FreeingStutter DEF Locked, Frees
  <1>4. ASSUME NEW t \in Threads, NEW s \in Shards, Pushes(t, s) PROVE FutureFreeing'
    BY <1>4, FreeingStutter DEF Pushes, Wanders, Frees
  <1>5. ASSUME NEW t \in Threads, FutureGot(t) PROVE FutureFreeing'
    BY <1>5, FreeingStutter DEF FutureGot, Frees
  <1>6. ASSUME NEW t \in Threads, FutureFree(t) PROVE FutureFreeing'
    <2>1. /\ cpc[t] = "free" /\ cur[t] \in Tasks /\ UNCHANGED <<rpc, task, ready, released>>
          /\ freed' = [freed EXCEPT ![cur[t]] = @ + 1]
          /\ cpc' = [cpc EXCEPT ![t] = "idle"] /\ cur' = [cur EXCEPT ![t] = None]
      BY <1>6 DEF FutureFree
    <2>5. ASSUME NEW u \in Threads, NEW k \in Tasks
          PROVE  Frees(u, k)' <=> Frees(u, k) /\ k # cur[t]
      <3>1. Frees(t, cur[t])
        BY <2>1 DEF Frees
      <3>2. Frees(u, cur[t]) => u = t
        BY <2>1, <3>1 DEF FutureFreeing
      <3>3. CASE u = t
        BY <2>1, <3>3 DEF Frees
      <3>4. CASE u # t
        <4>1. Frees(u, k)' <=> Frees(u, k)
          BY <2>1, <3>4 DEF Frees
        <4> QED
          BY <3>2, <3>4, <4>1
      <3> QED
        BY <3>3, <3>4
    <2>2. \A u \in Threads, k \in Tasks : Frees(u, k)' <=> Frees(u, k) /\ k # cur[t]
      BY <2>5
    <2>3. \A k \in Tasks : k # cur[t] => freed'[k] = freed[k]
      BY <2>1
    <2>4. freed'[cur[t]] # 0
      BY <2>1 DEF FutureFreeing, Frees
    <2> QED
      BY <2>1, <2>2, <2>3, <2>4 DEF FutureFreeing
  <1>7. ASSUME NEW t \in Threads, Begin(t) PROVE FutureFreeing'
    BY <1>7, FreeingStutter DEF Begin, Frees
  <1>8. ASSUME NEW t \in Threads, SetValueFree(t) PROVE FutureFreeing'
    BY <1>8 DEF SetValueFree, FutureFreeing, Frees, LastRelease, LastSet
  <1>9. ASSUME NEW t \in Threads, Leave(t) PROVE FutureFreeing'
    BY <1>9, FreeingStutter DEF Leave, Frees
  <1>10. ASSUME NEW t \in Threads, Return(t) PROVE FutureFreeing'
    BY <1>10 DEF Return, FutureFreeing, Frees, LastRelease, LastSet
  <1>11. ASSUME NEW t \in Threads, NEW k \in Tasks, FutureGet(t, k) PROVE FutureFreeing'
    BY <1>11, FreeingStutter DEF FutureGet, Frees
  <1>12. ASSUME NEW t \in Threads, NEW k \in Tasks, FutureRelease(t, k) PROVE FutureFreeing'
    <2>1. /\ released' = released \cup {k} /\ UNCHANGED <<ready, freed>>
          /\ k \notin released /\ freed[k] = 0
          /\ cpc[t] = "idle"
      BY <1>12 DEF FutureRelease
    <2>2. CASE k \in ready
      <3>1. \A u \in Threads, j \in Tasks :
              Frees(u, j)' <=> Frees(u, j) \/ (u = t /\ j = k)
        BY <1>12, <2>2 DEF FutureRelease, LastRelease, Frees
      <3> QED
        BY <2>1, <2>2, <3>1 DEF FutureFreeing
    <2>3. CASE k \notin ready
      <3>1. \A u \in Threads, j \in Tasks : Frees(u, j)' <=> Frees(u, j)
        BY <1>12, <2>3 DEF FutureRelease, LastRelease, Frees
      <3> QED
        BY <2>1, <2>3, <3>1 DEF FutureFreeing
    <2> QED
      BY <2>2, <2>3
  <1>13. ASSUME NEW w \in Workers, Abort(w) PROVE FutureFreeing'
    BY <1>13, FreeingStutter DEF Abort, Frees
  <1>14. ASSUME NEW w \in Workers, NEW s \in Shards, NEW k \in queue[s], Takes(w, s, k)
         PROVE  FutureFreeing'
    BY <1>14, FreeingStutter DEF Takes, Take, Frees
  <1>15. ASSUME NEW s \in Shards, NEW k \in Tasks, Drops(s, k) PROVE FutureFreeing'
    BY <1>15, FreeingStutter DEF Drops, Frees
  <1>16. CASE Roams
    BY <1>16, FreeingStutter DEF Frees, Roams, Wanders
  <1> QED
    BY <1>0, <1>1, <1>2, <1>3, <1>4, <1>5, <1>6, <1>7, <1>8, <1>9, <1>10, <1>11, <1>12,
       <1>13, <1>14, <1>15, <1>16, StepKinds

LEMMA WaitStutter ==
  ASSUME PoolInv, UNCHANGED waiting,
         \A w \in Workers : rpc'[w] = "wait" <=> rpc[w] = "wait"
  PROVE  WaitInv'
  BY DEF PoolInv, WaitInv

LEMMA WaitNext == PoolInv /\ [PoolNext]_vars => WaitInv'
  <1> SUFFICES ASSUME PoolInv, [PoolNext]_vars PROVE WaitInv'
    OBVIOUS
  <1> USE Apart, ShardTypes DEF PoolInv, PoolTypeOK, CallInv, MayCall, Threads, poolVars,
          callVars,
          runVars, futureVars, Idle, Call, CallEnds, CGoto, RGoto
  <1>0. CASE UNCHANGED vars
    BY <1>0, WaitStutter DEF vars
  <1>1. ASSUME NEW t \in Threads, NEW k \in Tasks, Turned(t, k) \/ Offered(t, k) PROVE WaitInv'
    BY <1>1, WaitStutter DEF Turned, NotAccepted, Refuse, RunInline, Offered
  <1>2. ASSUME NEW t \in Threads, Locked(t) \/ FutureGot(t) \/ FutureFree(t) PROVE WaitInv'
    BY <1>2, WaitStutter DEF Locked, FutureGot, FutureFree
  <1>3. ASSUME NEW t \in Threads, SchedulePush(t) PROVE WaitInv'
    BY <1>3 DEF SchedulePush, Signal, WaitInv
  <1>4. ASSUME NEW t \in Threads,
               Begin(t) \/ SetValueFree(t) \/ Leave(t) \/ Return(t) \/ Abort(t)
        PROVE  WaitInv'
    BY <1>4, WaitStutter DEF Begin, SetValueFree, Leave, Return, Abort
  <1>5. ASSUME NEW t \in Threads, NEW k \in Tasks, FutureGet(t, k) \/ FutureRelease(t, k)
        PROVE  WaitInv'
    BY <1>5, WaitStutter DEF FutureGet, FutureRelease
  <1>6. ASSUME NEW w \in Workers, Loop(w) \/ Fetch(w) \/ Recheck(w) \/ Woken(w)
        PROVE  WaitInv'
    BY <1>6, WaitStutter DEF Loop, Fetch, Take, Recheck, Woken
  <1>7. ASSUME NEW w \in Workers, Steal(w) PROVE WaitInv'
    BY <1>7, WaitStutter DEF Steal, Take
  <1>8. ASSUME NEW w \in Workers, PopOrWait(w) PROVE WaitInv'
    BY <1>8 DEF PopOrWait, Take, WaitInv
  <1>9. ASSUME NEW w \in Workers, Timeout(w) PROVE WaitInv'
    BY <1>9 DEF Timeout, TimesOut, WaitInv
  <1>10. ASSUME NEW c \in Clients, Broadcast(c) PROVE WaitInv'
    BY <1>10 DEF Broadcast, WaitInv
  <1>11. ASSUME NEW c \in Clients, Shutdown(c) \/ Join(c) \/ Drain(c) PROVE WaitInv'
    BY <1>11, WaitStutter DEF Shutdown, Join, Drain
  <1> QED
    BY <1>0, <1>1, <1>2, <1>3, <1>4, <1>5, <1>6, <1>7, <1>8, <1>9, <1>10, <1>11,
       SubmitKinds, LockKinds
       DEF PoolNext, CallStep, RunStep, WorkerStep, ShutdownStep

\* Steps of those who neither shut down nor are joined.
LEMMA StopStutter ==
  ASSUME StopInv, UNCHANGED <<pool, isShutdown>>,
         \A c \in Clients :
           /\ cpc[c] \in Stopping \/ cpc'[c] \in Stopping => cpc'[c] = cpc[c]
           /\ cpc'[c] \in {"lock", "push", "inline"} => pool # "destroying",
         \A w \in Workers : rpc[w] = "gone" => rpc'[w] = "gone"
  PROVE  StopInv'
  BY DEF StopInv, Joined, Stopping

LEMMA StopNext == PoolInv /\ [PoolNext]_vars => StopInv'
  <1> SUFFICES ASSUME PoolInv, [PoolNext]_vars PROVE StopInv'
    OBVIOUS
  <1> USE Apart DEF PoolInv, PoolTypeOK, CallInv, MayCall, Working, Stopping, Threads,
          poolVars, callVars, runVars, futureVars, Idle, Call, CallEnds, CGoto, RGoto
  <1>S. pool = "destroying" => \A c \in Clients : cpc[c] \notin {"lock", "push", "inline"}
    BY DEF StopInv
  <1>0. CASE UNCHANGED vars
    BY <1>0 DEF vars, StopInv, Joined
  <1>1. ASSUME NEW t \in Threads, NEW k \in Tasks, Turned(t, k) \/ Offered(t, k) PROVE StopInv'
    BY <1>1, <1>S, StopStutter DEF Turned, NotAccepted, Refuse, RunInline, Offered
  <1>2. ASSUME NEW t \in Threads, Locked(t) \/ FutureGot(t) \/ FutureFree(t) PROVE StopInv'
    BY <1>2, <1>S, StopStutter DEF Locked, FutureGot, FutureFree
  <1>3. ASSUME NEW t \in Threads, NEW s \in Shards, Pushes(t, s) PROVE StopInv'
    BY <1>3, <1>S, StopStutter DEF Pushes, Wanders
  <1>4. ASSUME NEW t \in Threads,
               Begin(t) \/ SetValueFree(t) \/ Leave(t) \/ Return(t) \/ Abort(t)
        PROVE  StopInv'
    BY <1>4, <1>S, StopStutter DEF Begin, SetValueFree, Leave, Return, Abort
  <1>5. ASSUME NEW t \in Threads, NEW k \in Tasks, FutureGet(t, k) \/ FutureRelease(t, k)
        PROVE  StopInv'
    BY <1>5, <1>S, StopStutter DEF FutureGet, FutureRelease
  <1>6. ASSUME NEW w \in Workers, WorkerStep(w) PROVE StopInv'
    <2>1. UNCHANGED <<pool, isShutdown, cpc>>
      BY <1>6 DEF WorkerStep, Loop, Fetch, Steal, Recheck, PopOrWait, Timeout, Woken
    <2>2. Roams \/ \E s \in Shards : \E k \in queue[s] : Takes(w, s, k)
      BY <1>6, WorkerKinds
    <2>3. \A v \in Workers : rpc[v] = "gone" => rpc'[v] = "gone"
      BY <2>2 DEF Roams, Wanders, Takes, Take
    <2> QED
      BY <2>1, <2>3, <1>S, StopStutter
  <1>7. ASSUME NEW c \in Clients, Shutdown(c) PROVE StopInv'
    BY <1>7 DEF Shutdown, StopInv, Joined
  <1>8. ASSUME NEW c \in Clients, Broadcast(c) PROVE StopInv'
    BY <1>8 DEF Broadcast, StopInv, Joined, WaitInv
  <1>9. ASSUME NEW c \in Clients, Join(c) PROVE StopInv'
    BY <1>9 DEF Join, StopInv, Joined
  <1>10. ASSUME NEW c \in Clients, Drain(c) PROVE StopInv'
    BY <1>10 DEF Drain, StopInv, Joined
  <1> QED
    BY <1>0, <1>1, <1>2, <1>3, <1>4, <1>5, <1>6, <1>7, <1>8, <1>9, <1>10, SubmitKinds,
       LockKinds, PushKinds
       DEF PoolNext, CallStep, RunStep, ShutdownStep

LEMMA PoolInvInit == PoolInit => PoolInv
  <1> SUFFICES ASSUME PoolInit PROVE PoolInv
    OBVIOUS
  <1> USE Apart DEF PoolInit, Threads
  <1>1. CallInv /\ WaitInv /\ StopInv /\ SectionPerBody
    BY DEF CallInv, WaitInv, StopInv, SectionPerBody, Working, Stopping
  <1>2. TaskInv
    BY DEF TaskInv, TaskStatus, TaskApart, TaskPlaced, Offering, Executes
  <1>3. FutureInv
    BY DEF FutureInv, FutureStatus, FutureFreeing, Frees
  <1> QED
    BY <1>1, <1>2, <1>3, PoolTypeInit DEF PoolInv

LEMMA PoolInvNext == PoolInv /\ [PoolNext]_vars => PoolInv'
  BY PoolTypeNext, CallNext, WaitNext, StopNext, TaskStatusNext, TaskApartNext,
     TaskPlacedNext, FutureStatusNext, FutureFreeingNext, SectionNext
     DEF PoolInv, TaskInv, FutureInv

-----------------------------------------------------------------------------
(* The theorems.                                                           *)

\* The number of elements of a set that has at most one.
LEMMA AtMostOne ==
  ASSUME NEW S, \A x, y \in S : x = y
  PROVE  Cardinality(S) = IF S = {} THEN 0 ELSE 1
  <1>1. CASE S = {}
    BY <1>1, FS_EmptySet
  <1>2. CASE S # {}
    <2>1. PICK x : S = {x}
      BY <1>2
    <2> QED
      BY <1>2, <2>1, FS_Singleton
  <1> QED
    BY <1>1, <1>2

LEMMA PlaceCounted == PoolInv => OnePlace
  <1> SUFFICES ASSUME PoolInv, NEW k \in Tasks
               PROVE  Cardinality(QueuedIn(k)) + Cardinality(ExecutedBy(k)) =
                        IF status[k] \in {"accepted", "running"} THEN 1 ELSE 0
    BY DEF OnePlace
  <1> USE DEF PoolInv, PoolTypeOK, TaskInv, TaskStatus, TaskApart, TaskPlaced, Executes,
          QueuedIn, ExecutedBy
  <1>1. /\ Cardinality(QueuedIn(k)) = IF QueuedIn(k) = {} THEN 0 ELSE 1
        /\ Cardinality(ExecutedBy(k)) = IF ExecutedBy(k) = {} THEN 0 ELSE 1
    <2>1. \A x, y \in QueuedIn(k) : x = y
      OBVIOUS
    <2>2. \A x, y \in ExecutedBy(k) : x = y
      OBVIOUS
    <2> QED
      BY <2>1, <2>2, AtMostOne
  <1>2. CASE status[k] = "accepted"
    BY <1>1, <1>2
  <1>3. CASE status[k] = "running"
    BY <1>1, <1>3
  <1>4. CASE status[k] \notin {"accepted", "running"}
    BY <1>1, <1>4
  <1> QED
    BY <1>2, <1>3, <1>4

LEMMA FreeCounted == PoolInv => FreedByTheLast
  <1> SUFFICES ASSUME PoolInv, NEW k \in Tasks
               PROVE  freed[k] + Cardinality(Freeing(k)) =
                        IF status[k] = "refused" \/ k \in ready \cap released THEN 1 ELSE 0
    BY DEF FreedByTheLast
  <1> USE DEF PoolInv, FutureInv, FutureStatus, FutureFreeing
  <1>1. Freeing(k) = {t \in Threads : Frees(t, k)}
    BY DEF Freeing, Frees
  <1>2. Cardinality(Freeing(k)) = IF Freeing(k) = {} THEN 0 ELSE 1
    <2>1. \A x, y \in Freeing(k) : x = y
      BY <1>1
    <2> QED
      BY <2>1, AtMostOne
  <1> QED
    BY <1>1, <1>2

LEMMA AliveKept == PoolInv => FutureAlive
  <1> SUFFICES ASSUME PoolInv, NEW k \in Tasks, freed[k] > 0
               PROVE  /\ owner[k] = None /\ QueuedIn(k) = {} /\ ExecutedBy(k) = {}
                      /\ \A t \in Threads :
                           cur[t] = k => cpc[t] \notin {"lock", "push", "get", "free"}
    BY DEF FutureAlive
  <1> USE Apart DEF PoolInv, PoolTypeOK, FutureInv, FutureStatus
  <1>1. freed[k] = 1 /\ owner[k] = None /\ status[k] \in {"refused", "fulfilled"}
    BY SMT
  <1>2. QueuedIn(k) = {} /\ ExecutedBy(k) = {}
    BY <1>1 DEF TaskInv, TaskStatus, QueuedIn, ExecutedBy
  <1>3. ASSUME NEW t \in Threads, cur[t] = k
        PROVE  cpc[t] \notin {"lock", "push", "get", "free"}
    BY <1>1, <1>3 DEF TaskInv, TaskStatus, Offering, FutureFreeing, Frees
  <1> QED
    BY <1>1, <1>2, <1>3

\* No step of the pool, its clients or its shutdown leaves the states they can
\* be in: no shard, task or future is used that does not exist.
THEOREM PoolTypes == PoolSpec => []PoolTypeOK
  <1>1. PoolInv => PoolTypeOK
    BY DEF PoolInv
  <1> QED
    BY <1>1, PoolInvInit, PoolInvNext, PTL DEF PoolSpec

\* However many workers, shards and clients there are, and whenever shutdown
\* comes, an accepted task is in one place until it is settled.
THEOREM TaskInOnePlace == PoolSpec => []OnePlace
  BY PoolInvInit, PoolInvNext, PlaceCounted, PTL DEF PoolSpec

\* Release and set_value decide between them, once, who destroys a future.
THEOREM FutureFreedOnce == PoolSpec => []FreedByTheLast
  BY PoolInvInit, PoolInvNext, FreeCounted, PTL DEF PoolSpec

\* A destroyed future is out of reach of its consumer, its waiters and the
\* thread that fulfils it.
THEOREM FutureNotUsedAfter == PoolSpec => []FutureAlive
  BY PoolInvInit, PoolInvNext, AliveKept, PTL DEF PoolSpec

\* A worker is in an epoch section exactly while it runs a task function that
\* does not block, and in none when it looks for work, waits or ends.
THEOREM SectionHeld == PoolSpec => []SectionPerBody
  <1>1. PoolInv => SectionPerBody
    BY DEF PoolInv
  <1> QED
    BY <1>1, PoolInvInit, PoolInvNext, PTL DEF PoolSpec

-----------------------------------------------------------------------------
(* The refinement: accepting is the push, starting is the section that is    *)
(* entered for the task, finishing is set_value or the abort, releasing and   *)
(* freeing are themselves; the rest stutters.                              *)

Abstract(k) == IF status[k] = "offered" THEN "new" ELSE status[k]

LEMMA ExecutorInit == PoolInit => Contract!Init
  BY DEF PoolInit, Contract!Init

LEMMA ExecutorStutter ==
  ASSUME UNCHANGED <<isShutdown, released, freed>>,
         \A k \in Tasks : Abstract(k)' = Abstract(k)
  PROVE  UNCHANGED Contract!executor
  BY DEF Contract!executor, Abstract

LEMMA Becomes ==
  ASSUME PoolTypeOK, NEW k \in Tasks, NEW what, what # "offered", Mark(k, what)
  PROVE  Contract!Become(k, Abstract(k), what)
  <1>1. \A j \in Tasks : status'[j] = IF j = k THEN what ELSE status[j]
    BY DEF PoolTypeOK, Mark
  <1> QED
    BY <1>1 DEF Contract!Become, Abstract

LEMMA ContractSteps ==
  (\E k \in Tasks : \/ Contract!Refuse(k) \/ Contract!RunHere(k) \/ Contract!Accept(k)
                    \/ Contract!Start(k) \/ Contract!Finish(k) \/ Contract!Drop(k)
                    \/ Contract!Release(k) \/ Contract!Free(k))
    => Contract!Next
  BY DEF Contract!Next

LEMMA ExecutorNext == PoolInv /\ [PoolNext]_vars => [Contract!Next]_Contract!executor
  <1> SUFFICES ASSUME PoolInv, [PoolNext]_vars PROVE [Contract!Next]_Contract!executor
    OBVIOUS
  <1> USE Apart DEF PoolInv, PoolTypeOK, CallInv, TaskInv, TaskStatus, FutureInv, FutureStatus,
          MayCall, Working, Offering, Threads, poolVars, callVars, runVars, futureVars,
          Call, CallEnds, CGoto, RGoto, Destroyed
  <1>0. CASE UNCHANGED vars
    BY <1>0, ExecutorStutter DEF vars, Abstract
  <1>1. ASSUME NEW t \in Threads, NEW k \in Tasks, Turned(t, k)
        PROVE  Contract!Refuse(k) \/ Contract!RunHere(k)
    <2>1. status[k] \in {"new", "offered"} /\ freed[k] = 0 /\ isShutdown
      BY <1>1 DEF Turned
    <2>2. CASE Refuse(t, k)
      <3>1. Contract!Become(k, "new", "refused")
        BY <2>1, <2>2, Becomes DEF Refuse, Abstract
      <3> QED
        BY <1>1, <2>1, <2>2, <3>1 DEF Turned, Refuse, Contract!Refuse
    <2>3. CASE RunInline(t, k)
      <3>1. Contract!Become(k, "new", "running")
        BY <2>1, <2>3, Becomes DEF RunInline, Abstract
      <3> QED
        BY <1>1, <2>1, <2>3, <3>1 DEF Turned, RunInline, Contract!RunHere, Contract!Futures
    <2> QED
      BY <1>1, <2>2, <2>3 DEF Turned, NotAccepted
  <1>2. ASSUME NEW t \in Threads, NEW k \in Tasks, Offered(t, k)
        PROVE  UNCHANGED Contract!executor
    BY <1>2, ExecutorStutter DEF Offered, Mark, Abstract
  <1>3. ASSUME NEW t \in Threads, Locked(t) \/ FutureGot(t) \/ Leave(t)
        PROVE  UNCHANGED Contract!executor
    BY <1>3, ExecutorStutter DEF Locked, FutureGot, Leave, Abstract
  <1>4. ASSUME NEW t \in Threads, NEW s \in Shards, Pushes(t, s)
        PROVE  \E k \in Tasks : Contract!Accept(k)
    <2>1. PICK k \in Tasks : k = cur[t] /\ Abstract(k) = "new"
      BY <1>4 DEF Pushes, Abstract
    <2>2. Contract!Become(k, "new", "accepted")
      BY <1>4, <2>1, Becomes DEF Pushes
    <2>3. Contract!Accept(k)
      BY <1>4, <2>1, <2>2 DEF Pushes, Contract!Accept, Contract!Futures
    <2> QED
      BY <2>3
  <1>5. ASSUME NEW t \in Threads, Begin(t) PROVE \E k \in Tasks : Contract!Start(k)
    <2>1. PICK k \in Tasks : k = task[t] /\ Abstract(k) = "accepted"
      BY <1>5 DEF Begin, Abstract
    <2>2. Contract!Become(k, "accepted", "running")
      BY <1>5, <2>1, Becomes DEF Begin
    <2>3. Contract!Start(k)
      BY <1>5, <2>1, <2>2 DEF Begin, Contract!Start, Contract!Futures
    <2> QED
      BY <2>3
  <1>6. ASSUME NEW t \in Threads, Return(t) \/ Abort(t)
        PROVE  \E k \in Tasks : Contract!Finish(k)
    <2>1. PICK k \in Tasks : k = task[t] /\ Abstract(k) = "running"
      BY <1>6 DEF Return, Abort, Abstract
    <2>2. Contract!Become(k, "running", "fulfilled")
            \/ Contract!Become(k, "running", "aborted")
      BY <1>6, <2>1, Becomes DEF Return, Abort
    <2>3. Contract!Finish(k)
      BY <1>6, <2>1, <2>2 DEF Return, Abort, Contract!Finish, Contract!Futures
    <2> QED
      BY <2>3
  <1>7. ASSUME NEW t \in Threads, NEW k \in Tasks, Frees(t, k),
               Destroyed(k), UNCHANGED <<isShutdown, released, status>>
        PROVE  Contract!Free(k)
    <2>1. freed[k] = 0 /\ k \in released /\ status[k] = "fulfilled"
      BY <1>7 DEF FutureFreeing
    <2>2. freed' = [freed EXCEPT ![k] = 1]
      BY <1>7, <2>1
    <2> QED
      BY <1>7, <2>1, <2>2 DEF Contract!Free
  <1>8. ASSUME NEW t \in Threads, FutureFree(t) \/ SetValueFree(t)
        PROVE  \E k \in Tasks : Contract!Free(k)
    BY <1>7, <1>8 DEF FutureFree, SetValueFree, Frees
  <1>9. ASSUME NEW t \in Threads, NEW k \in Tasks, FutureGet(t, k)
        PROVE  UNCHANGED Contract!executor
    BY <1>9, ExecutorStutter DEF FutureGet, Abstract
  <1>10. ASSUME NEW t \in Threads, NEW k \in Tasks, FutureRelease(t, k)
         PROVE  Contract!Release(k)
    BY <1>10 DEF FutureRelease, Contract!Release
  <1>11. ASSUME NEW w \in Workers, NEW s \in Shards, NEW k \in queue[s], Takes(w, s, k)
         PROVE  UNCHANGED Contract!executor
    BY <1>11, ExecutorStutter DEF Takes, Abstract
  <1>12. ASSUME NEW c \in Clients, cpc[c] = "drain", NEW s \in Shards, NEW k \in Tasks,
                Drops(s, k)
         PROVE  Contract!Drop(k)
    <2>1. \A j \in Tasks : status[j] # "running"
      BY <1>12 DEF TaskPlaced, StopInv, Joined, Stopping
    <2>2. isShutdown /\ status[k] = "accepted"
      BY <1>12 DEF StopInv, Drops
    <2>3. Contract!Become(k, "accepted", "dropped")
      BY <1>12, <2>2, Becomes DEF Drops, Abstract
    <2> QED
      BY <1>12, <2>1, <2>2, <2>3 DEF Drops, Contract!Drop, Contract!Futures
  <1>13. CASE Roams
    <2>1. CASE isShutdown' = isShutdown
      BY <1>13, <2>1, ExecutorStutter DEF Roams, Abstract
    <2>2. CASE isShutdown' = TRUE
      BY <1>13, <2>2 DEF Roams, Contract!Next, Contract!Close
    <2> QED
      BY <1>13, <2>1, <2>2 DEF Roams
  <1> HIDE DEF PoolInv, PoolTypeOK, CallInv, TaskInv, TaskStatus, FutureInv, FutureStatus,
          MayCall, Working, Offering, poolVars, callVars, runVars, futureVars,
          Call, CallEnds, CGoto, RGoto, Destroyed
  <1>14. ASSUME NEW t \in Threads, NEW k \in Tasks,
                \/ Turned(t, k) \/ Offered(t, k) \/ FutureGet(t, k) \/ FutureRelease(t, k)
         PROVE  [Contract!Next]_Contract!executor
    BY <1>1, <1>2, <1>9, <1>10, <1>14, ContractSteps
  <1>15. ASSUME NEW t \in Threads,
                \/ Locked(t) \/ FutureGot(t) \/ FutureFree(t) \/ SetValueFree(t)
                \/ Begin(t) \/ Leave(t) \/ Return(t) \/ \E s \in Shards : Pushes(t, s)
         PROVE  [Contract!Next]_Contract!executor
    <2>1. CASE Locked(t) \/ FutureGot(t) \/ Leave(t)
      BY <1>3, <2>1
    <2>2. CASE FutureFree(t) \/ SetValueFree(t)
      BY <1>8, <2>2, ContractSteps
    <2>3. CASE \E s \in Shards : Pushes(t, s)
      BY <1>4, <2>3, ContractSteps
    <2>4. CASE Begin(t)
      BY <1>5, <2>4, ContractSteps
    <2>5. CASE Return(t)
      BY <1>6, <2>5, ContractSteps
    <2> QED
      BY <1>15, <2>1, <2>2, <2>3, <2>4, <2>5
  <1>16. ASSUME NEW w \in Workers,
                Abort(w) \/ \E s \in Shards : \E k \in queue[s] : Takes(w, s, k)
         PROVE  [Contract!Next]_Contract!executor
    <2>1. CASE Abort(w)
      <3>1. w \in Threads
        BY DEF Threads
      <3> QED
        BY <1>6, <2>1, <3>1, ContractSteps
    <2>2. CASE \E s \in Shards : \E k \in queue[s] : Takes(w, s, k)
      BY <1>11, <2>2
    <2> QED
      BY <1>16, <2>1, <2>2
  <1>17. ASSUME \E c \in Clients : cpc[c] = "drain", \E s \in Shards, k \in Tasks : Drops(s, k)
         PROVE  [Contract!Next]_Contract!executor
    BY <1>12, <1>17, ContractSteps
  <1> HIDE DEF Threads
  <1> QED
    BY <1>0, <1>13, <1>14, <1>15, <1>16, <1>17, StepKinds

\* The shards, locks, waits and shutdown of the pool and the races for a future
\* implement module Executor: a task is refused, run once or - only after
\* shutdown, when nothing runs - dropped, and its future dies once.
THEOREM PoolKeepsContract == PoolSpec => RefinesExecutor
  BY ExecutorInit, ExecutorNext, PoolInvInit, PoolInvNext, PTL
     DEF PoolSpec, RefinesExecutor, Contract!Spec
=============================================================================
