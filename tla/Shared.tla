------------------------------- MODULE Shared --------------------------------
(***************************************************************************)
(* A ttak_shared_t container (src/shared/shared.c) whose payload is swapped  *)
(* while threads read it, on top of the epoch manager of module Epoch.      *)
(*                                                                          *)
(* A payload is one of Ptrs, allocated once.  `First' is the payload        *)
(* allocate() installed and `Container' the ttak_shared_t itself, which is  *)
(* retired as a whole by retire().  Timestamps are readings of one clock.   *)
(***************************************************************************)
EXTENDS Epoch

CONSTANTS
  Levels,      \* security levels a container may have been allocated with
  Owners,      \* threads whose owner id is in owners_mask
  Readers, Writers, Reclaimers, Retirers,   \* who calls what
  First, Container,
  MaxClock     \* bound: readings of ttak_get_tick_count_ns

ASSUME SharedConstants ==
  /\ Levels \subseteq 0 .. 3 /\ Levels # {}
  /\ Owners \subseteq Threads /\ Readers \subseteq Threads /\ Writers \subseteq Threads
  /\ Reclaimers \subseteq Threads /\ Retirers \subseteq Threads
  /\ First \in Ptrs /\ Container \in Ptrs /\ First # Container
  /\ MaxClock \in Nat \ {0}

VARIABLES
  level,      \* self->level: 0 is NO_LEVEL
  shared,     \* self->shared
  size,       \* self->size, as the payload whose size it is
  ts,         \* self->ts
  dirty,      \* TTAK_SHARED_DIRTY in self->status
  header,     \* payload -> header->ts, 0 before it is allocated
  shard,      \* slot -> its striped timestamp
  clock,      \* ttak_get_tick_count_ns
  writing, reading,   \* self->rwlock: the writer, the set of readers
  spc,        \* thread -> where it is inside an operation of the container
  new, old,   \* thread -> locals of the operation
  now,        \* thread -> the time sync_all has read
  held        \* thread -> the payload it got and has not released

cellVars   == <<level, shared, size, ts, dirty, header, shard, clock>>
localVars  == <<spc, new, old, now, held>>
sharedVars == <<level, shared, size, ts, dirty, header, shard, clock,
                writing, reading, spc, new, old, now, held>>
vars == <<epochVars, sharedVars>>

SharedInit ==
  /\ EpochInit
  /\ level \in Levels /\ shared = First /\ size = First /\ ts = 1 /\ dirty = FALSE
  /\ header = [p \in Ptrs |-> IF p \in {First, Container} THEN 1 ELSE 0]
  /\ shard = [s \in Slots |-> 0] /\ clock = 1
  /\ writing = None /\ reading = {}
  /\ spc = [t \in Threads |-> "none"]
  /\ new = [t \in Threads |-> None] /\ old = [t \in Threads |-> None]
  /\ now = [t \in Threads |-> 0] /\ held = [t \in Threads |-> None]

\* Between calls of the epoch manager, at point `from' of an operation.
At(t, from) == pc[t] = "idle" /\ spc[t] = from
Step(t, from, to) == At(t, from) /\ spc' = [spc EXCEPT ![t] = to]
Locks == <<writing, reading>>

-----------------------------------------------------------------------------
(* Validation: _ttak_shared_validate_owner.                                *)

\* The time to validate against: the payload's, or the container's when empty.
CurrentTs(p) == IF p = None THEN ts ELSE header[p]

Valid(t, current) ==
  \/ level = 0
  \/ /\ level = 3 => t \in Owners
     /\ \/ ts >= current
        \/ level = 1
        \/ tls[t] # NoSlot /\ shard[tls[t]] >= current

Denied(t, p) == level = 3 /\ ~Valid(t, CurrentTs(p))

-----------------------------------------------------------------------------
(* Readers.                                                                *)

\* access_ebr enters the epoch first ...
AccessEnterMutant(t) ==                            \* mutant: the epoch is not entered
  /\ t \in Readers /\ Step(t, "none", "load")
  /\ UNCHANGED <<epochVars, cellVars, Locks, new, old, now, held>>

AccessEnter(t) ==
  /\ t \in Readers /\ Step(t, "none", "load") /\ EnterLoad(t)
  /\ UNCHANGED <<cellVars, Locks, new, old, now, held>>

\* ... then loads the pointer ...
AccessLoad(t) ==
  /\ Step(t, "load", "check")
  /\ held' = [held EXCEPT ![t] = shared]
  /\ UNCHANGED <<epochVars, cellVars, Locks, new, old, now>>

\* ... and validates the claimant; a denial leaves the epoch again.
LeaveOnDenialMutant(t) == UNCHANGED epochVars      \* mutant: no epoch_exit
LeaveOnDenial(t) == Exit(t)

AccessCheck(t) ==
  /\ At(t, "check")
  /\ IF Denied(t, held[t])
       THEN /\ LeaveOnDenial(t) /\ spc' = [spc EXCEPT ![t] = "none"]
            /\ held' = [held EXCEPT ![t] = None]
       ELSE spc' = [spc EXCEPT ![t] = "using"] /\ UNCHANGED <<epochVars, held>>
  /\ UNCHANGED <<cellVars, Locks, new, old, now>>

ReleaseEbr(t) ==
  /\ Step(t, "using", "none") /\ Exit(t)
  /\ held' = [held EXCEPT ![t] = None]
  /\ UNCHANGED <<cellVars, Locks, new, old, now>>

\* access() under set_atomic_read, at every level: the read lock is held until
\* release(), outside any epoch section.
AccessLocked(t) ==
  /\ t \in Readers /\ Step(t, "none", "lockedCheck")
  /\ writing = None
  /\ reading' = reading \cup {t}
  /\ UNCHANGED <<epochVars, cellVars, writing, new, old, now, held>>

AccessLockedCheck(t) ==
  /\ At(t, "lockedCheck")
  /\ IF Denied(t, shared)
       THEN /\ spc' = [spc EXCEPT ![t] = "none"]
            /\ reading' = reading \ {t} /\ UNCHANGED held
       ELSE /\ spc' = [spc EXCEPT ![t] = "usingLocked"]
            /\ held' = [held EXCEPT ![t] = shared] /\ UNCHANGED reading
  /\ UNCHANGED <<epochVars, cellVars, writing, new, old, now>>

Release(t) ==
  /\ Step(t, "usingLocked", "none")
  /\ reading' = reading \ {t}
  /\ held' = [held EXCEPT ![t] = None]
  /\ UNCHANGED <<epochVars, cellVars, writing, new, old, now>>

-----------------------------------------------------------------------------
(* ttak_shared_swap_ebr.                                                   *)

Tick == clock < MaxClock /\ clock' = clock + 1

\* A new payload p with its timestamp, not yet visible.
SwapAlloc(t, p) ==
  /\ t \in Writers /\ header[p] = 0 /\ Tick
  /\ Step(t, "none", IF level = 0 THEN "exchange" ELSE "lock")
  /\ header' = [header EXCEPT ![p] = clock']
  /\ new' = [new EXCEPT ![t] = p]
  /\ UNCHANGED <<epochVars, level, shared, size, ts, dirty, shard, Locks, old, now, held>>

\* NO_LEVEL: one atomic exchange, the fields after it unprotected.
SwapExchange(t) ==
  /\ Step(t, "exchange", "fields")
  /\ old' = [old EXCEPT ![t] = shared]
  /\ shared' = new[t]
  /\ UNCHANGED <<epochVars, level, size, ts, dirty, header, shard, clock, Locks,
                 new, now, held>>

SwapFields(t) ==
  /\ Step(t, "fields", "retire")
  /\ size' = new[t] /\ ts' = header[new[t]]
  /\ UNCHANGED <<epochVars, level, shared, dirty, header, shard, clock, Locks,
                 new, old, now, held>>

\* The strict levels: the same under the write lock.
MayWriteMutant == reading = {}                     \* mutant: writers not excluded
MayWriteRead   == writing = None                   \* mutant: readers not excluded
MayWrite == writing = None /\ reading = {}

SwapLock(t) ==
  /\ Step(t, "lock", "swap") /\ MayWrite
  /\ writing' = t
  /\ old' = [old EXCEPT ![t] = shared]
  /\ UNCHANGED <<epochVars, cellVars, reading, new, now, held>>

SwapStore(t) ==
  /\ Step(t, "swap", "update")
  /\ shared' = new[t]
  /\ UNCHANGED <<epochVars, level, size, ts, dirty, header, shard, clock, Locks,
                 new, old, now, held>>

SwapUpdate(t) ==
  /\ Step(t, "update", "retire")
  /\ size' = new[t] /\ ts' = header[new[t]] /\ dirty' = TRUE
  /\ writing' = None
  /\ UNCHANGED <<epochVars, level, shared, header, shard, clock, reading,
                 new, old, now, held>>

SwapRetire(t) ==
  /\ Step(t, "retire", "none")
  /\ IF old[t] = None THEN UNCHANGED epochVars ELSE Retire(t, old[t])
  /\ UNCHANGED <<cellVars, Locks, new, old, now, held>>

-----------------------------------------------------------------------------
(* sync_all: no lock is taken.                                             *)

SyncStart(t) ==
  /\ t \in Writers /\ Tick
  /\ IF Denied(t, None) THEN UNCHANGED spc ELSE Step(t, "none", "sync")
  /\ At(t, "none")
  /\ now' = [now EXCEPT ![t] = clock']
  /\ UNCHANGED <<epochVars, level, shared, size, ts, dirty, header, shard, Locks,
                 new, old, held>>

SyncStore(t) ==
  /\ Step(t, "sync", "stripe")
  /\ ts' = now[t] /\ dirty' = FALSE
  /\ UNCHANGED <<epochVars, level, shared, size, header, shard, clock, Locks,
                 new, old, now, held>>

SyncStripe(t) ==
  /\ tls[t] # NoSlot /\ Step(t, "stripe", "none")
  /\ shard' = [shard EXCEPT ![tls[t]] = now[t]]
  /\ UNCHANGED <<epochVars, level, shared, size, ts, dirty, header, clock, Locks,
                 new, old, now, held>>

-----------------------------------------------------------------------------
(* retire(): the payload is retired first and unlinked after.              *)

ContainerRetire(t) ==
  /\ t \in Retirers /\ status[Container] = "live"
  /\ IF shared = None
       THEN Step(t, "none", "container") /\ UNCHANGED epochVars
       ELSE Step(t, "none", "clear") /\ Retire(t, shared)
  /\ UNCHANGED <<cellVars, Locks, new, old, now, held>>

ContainerClear(t) ==
  /\ Step(t, "clear", "container")
  /\ shared' = None
  /\ UNCHANGED <<epochVars, level, size, ts, dirty, header, shard, clock, Locks,
                 new, old, now, held>>

ContainerRetireSelf(t) ==
  /\ Step(t, "container", "none") /\ Retire(t, Container)
  /\ UNCHANGED <<cellVars, Locks, new, old, now, held>>

-----------------------------------------------------------------------------
\* A thread registers on its first call, and otherwise runs the epoch call
\* that its operation has started.
EpochStep(t) ==
  /\ \/ Internal(t)
     \/ spc[t] \in {"none", "stripe"} /\ Register(t)
     \/ t \in Reclaimers /\ spc[t] = "none" /\ ReclaimBegin(t)
  /\ UNCHANGED sharedVars

Operation(t) ==
  \/ AccessEnter(t) \/ AccessLoad(t) \/ AccessCheck(t) \/ ReleaseEbr(t)
  \/ AccessLocked(t) \/ AccessLockedCheck(t) \/ Release(t)
  \/ (\E p \in Ptrs : SwapAlloc(t, p)) \/ SwapExchange(t) \/ SwapFields(t)
  \/ SwapLock(t) \/ SwapStore(t) \/ SwapUpdate(t) \/ SwapRetire(t)
  \/ SyncStart(t) \/ SyncStore(t) \/ SyncStripe(t)

SharedNext == \E t \in Threads : EpochStep(t) \/ Operation(t)

SharedSpec == SharedInit /\ [][SharedNext]_vars

\* ... with the container retired while others still use it.
RetireNext ==
  \/ SharedNext
  \/ \E t \in Threads : ContainerRetire(t) \/ ContainerClear(t) \/ ContainerRetireSelf(t)

RetireSpec == SharedInit /\ [][RetireNext]_vars

-----------------------------------------------------------------------------
(* Properties.                                                             *)

\* Type invariant of the container and its readers' and writers' locals.
SharedTypeOK ==
  /\ level \in Levels /\ shared \in Ptrs \cup {None} /\ size \in Ptrs
  /\ ts \in 0 .. MaxClock /\ clock \in 0 .. MaxClock /\ dirty \in BOOLEAN
  /\ header \in [Ptrs -> 0 .. MaxClock] /\ shard \in [Slots -> 0 .. MaxClock]
  /\ writing \in Threads \cup {None} /\ reading \subseteq Threads
  /\ writing = None \/ reading = {}
  /\ spc \in [Threads -> {"none", "load", "check", "using", "lockedCheck", "usingLocked",
                          "exchange", "fields", "lock", "swap", "update", "retire",
                          "sync", "stripe", "clear", "container"}]
  /\ \A f \in {new, old, held} : f \in [Threads -> Ptrs \cup {None}]
  /\ now \in [Threads -> 0 .. MaxClock]

\* The reader holds a payload under the read lock of a NO_LEVEL container: the
\* lock-free swap (shared.c:416-427) does not take that lock and retires the
\* payload, and the reader is in no epoch section, so nothing keeps it alive.
ReadLockIgnored(t) == level = 0 /\ spc[t] = "usingLocked"

\* The payload a reader holds, from the load to the release, is not freed
\* under it, whatever swaps and reclaims run meanwhile: at every level for
\* access_ebr, at the strict levels for access() under the read lock.
NoUseAfterFree ==
  \A t \in Threads : held[t] # None /\ ~ReadLockIgnored(t) => status[held[t]] # "freed"

\* A swap retires the payload it took out, which is no longer installed and
\* which no other swap retires as well: nothing is freed twice and no reader
\* can still load what is retired.  Nor do concurrent swaps mix their fields:
\* at the strict levels the recorded size is the installed payload's whenever
\* no writer holds the lock.
SwappedOutOnce ==
  /\ level > 0 /\ writing = None => size = shared
  /\ \A t \in Threads : spc[t] = "retire" /\ old[t] # None =>
       /\ status[old[t]] = "live" /\ old[t] # shared
       /\ \A u \in Threads : u # t /\ spc[u] = "retire" => old[u] # old[t]

\* A thread that is not between access_ebr and release_ebr is not inside a
\* critical section: a denied reader does not stall reclamation for good.
NoLeakedSection ==
  \A t \in Threads : InSection(t) => spc[t] \in {"load", "check", "using"}
=============================================================================
