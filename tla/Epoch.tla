-------------------------------- MODULE Epoch --------------------------------
(***************************************************************************)
(* Epoch-based reclamation: src/mem/epoch.c and the inlined enter and exit  *)
(* of include/ttak/mem/epoch.h.                                             *)
(*                                                                          *)
(* Each thread runs register, enter, exit, retire, reclaim and deregister   *)
(* in any order, one atomic access to shared memory per step.  Memory is    *)
(* sequentially consistent.  A slot is an entry of g_thread_list: the k-th  *)
(* node pushed is slot k, and nodes never leave the list.                   *)
(*                                                                          *)
(* `status' and `pinned' are history: what the client may still do with a   *)
(* pointer.  pinned[p] holds the threads that were inside a critical        *)
(* section when p was retired and have stayed inside it since.              *)
(***************************************************************************)
EXTENDS Integers

CONSTANTS
  Threads,      \* threads of the program
  Ptrs,         \* pointers the clients retire, each at most once
  MaxSlots,     \* bound: nodes ever pushed on g_thread_list
  Cells,        \* buckets of the OLS plane (OLS_ORDER * OLS_ORDER in the code)
  EpochMod,     \* the epoch counter is unsigned: values 0 .. EpochMod - 1
  EpochLimit,   \* bound: no reclaim starts once the epoch reaches EpochLimit
  IdleReclaim,  \* TRUE: clients call reclaim even when nothing is retired
  None          \* NULL

ASSUME EpochConstants ==
  /\ MaxSlots \in Nat /\ Cells \in Nat \ {0}
  /\ EpochMod \in Nat \ {0} /\ EpochLimit \in Nat
  /\ IdleReclaim \in BOOLEAN
  /\ None \notin Threads /\ None \notin Ptrs

VARIABLES
  globalEpoch,  \* g_epoch_mgr.global_epoch
  threadList,   \* length of g_thread_list
  owned,        \* slot -> node->owner # NULL
  localEpoch,   \* slot -> state->local_epoch
  active,       \* slot -> state->active
  tls,          \* thread -> t_local_state, as a slot
  pc,           \* thread -> where it is inside the library
  ep,           \* thread -> the epoch value its current call has loaded
  arg,          \* thread -> the pointer its ttak_epoch_retire call carries
  bucket,       \* cell -> retired nodes queued there
  reclaimer,    \* holder of g_reclaim_lock
  scan,         \* next slot the reclaimer examines, counting down to -1
  cell,         \* next bucket the reclaimer sweeps
  list,         \* nodes the reclaimer has detached from that bucket
  status,       \* history: pointer -> "live", "retired" or "freed"
  pinned        \* history: pointer -> sections open since before it retired

slotVars  == <<threadList, owned, localEpoch, active, tls>>
sweepVars == <<scan, cell, list>>
history   == <<status, pinned>>
epochVars == <<globalEpoch, threadList, owned, localEpoch, active, tls, pc, ep,
               arg, bucket, reclaimer, scan, cell, list, status, pinned>>

Slots  == 0 .. MaxSlots - 1
NoSlot == -1
Epochs == 0 .. EpochMod - 1
Nodes  == [ptr : Ptrs, epoch : Epochs]
\* TTAK_EPOCH_GRACE
GraceMutant == 1                    \* mutant: one epoch of grace is enough
Grace       == 2

\* Unsigned arithmetic on the epoch counter.
Inc(e)      == IF e + 1 = EpochMod THEN 0 ELSE e + 1
Age(now, e) == IF e <= now THEN now - e ELSE now + EpochMod - e
Aged(now, n) == Age(now, n.epoch) >= Grace

InSection(t)  == tls[t] # NoSlot /\ active[tls[t]]
Goto(t, from, to) == pc[t] = from /\ pc' = [pc EXCEPT ![t] = to]

EpochInit ==
  /\ globalEpoch = 0 /\ threadList = 0
  /\ owned = [s \in Slots |-> FALSE]
  /\ localEpoch = [s \in Slots |-> 0]
  /\ active = [s \in Slots |-> FALSE]
  /\ tls = [t \in Threads |-> NoSlot]
  /\ pc = [t \in Threads |-> "idle"]
  /\ ep = [t \in Threads |-> 0]
  /\ arg = [t \in Threads |-> None]
  /\ bucket = [c \in 0 .. Cells - 1 |-> {}]
  /\ reclaimer = None /\ scan = NoSlot /\ cell = 0 /\ list = {}
  /\ status = [p \in Ptrs |-> "live"]
  /\ pinned = [p \in Ptrs |-> {}]

-----------------------------------------------------------------------------
(* Registration.                                                           *)

\* The nodes a registering thread can get: a released one, or a new one.
ClaimableMutant(s) == s <= threadList         \* mutant: no look at the owner
Claimable(s)       == s <= threadList /\ ~owned[s]

\* The list after node s was claimed: a new node is pushed.
ListWithMutant(s) == threadList + 1           \* mutant: a reused node is pushed again
ListWith(s)       == IF s = threadList THEN threadList + 1 ELSE threadList

\* ttak_epoch_register_thread, called by itself or on the way into enter and
\* retire: take over a released node, or push a new one.  The weak CAS may
\* fail on any free node, so a new node is possible even beside a free one.
Register(t) ==
  /\ pc[t] \in {"idle", "retire"} /\ tls[t] = NoSlot
  /\ \E s \in Slots :
       /\ Claimable(s)
       /\ owned' = [owned EXCEPT ![s] = TRUE]
       /\ localEpoch' = [localEpoch EXCEPT ![s] = 0]
       /\ active' = [active EXCEPT ![s] = FALSE]
       /\ tls' = [tls EXCEPT ![t] = s]
       /\ threadList' = ListWith(s)
  /\ UNCHANGED <<globalEpoch, pc, ep, arg, bucket, reclaimer, sweepVars, history>>

\* active is cleared: every section of t is over.
LeaveSection(t) ==
  /\ active' = [active EXCEPT ![tls[t]] = FALSE]
  /\ pinned' = [p \in Ptrs |-> pinned[p] \ {t}]

\* ttak_epoch_deregister_thread, its first store.
Deregister(t) ==
  /\ tls[t] # NoSlot /\ Goto(t, "idle", "release")
  /\ LeaveSection(t)
  /\ UNCHANGED <<globalEpoch, threadList, owned, localEpoch, tls, ep, arg,
                 bucket, reclaimer, sweepVars, status>>

\* epoch_release_node: from here on another thread may take the node.
ReleaseNode(t) ==
  /\ Goto(t, "release", "idle")
  /\ owned' = [owned EXCEPT ![tls[t]] = FALSE]
  /\ tls' = [tls EXCEPT ![t] = NoSlot]
  /\ UNCHANGED <<globalEpoch, threadList, localEpoch, active, ep, arg, bucket,
                 reclaimer, sweepVars, history>>

-----------------------------------------------------------------------------
(* Critical sections: ttak_epoch_enter is a load and two stores.           *)

EnterLoad(t) ==
  /\ tls[t] # NoSlot /\ ~InSection(t) /\ Goto(t, "idle", "store")
  /\ ep' = [ep EXCEPT ![t] = globalEpoch]
  /\ UNCHANGED <<globalEpoch, slotVars, arg, bucket, reclaimer, sweepVars, history>>

EnterStore(t) ==
  /\ Goto(t, "store", "activate")
  /\ localEpoch' = [localEpoch EXCEPT ![tls[t]] = ep[t]]
  /\ UNCHANGED <<globalEpoch, threadList, owned, active, tls, ep, arg, bucket,
                 reclaimer, sweepVars, history>>

EnterActivate(t) ==
  /\ Goto(t, "activate", "idle")
  /\ active' = [active EXCEPT ![tls[t]] = TRUE]
  /\ UNCHANGED <<globalEpoch, threadList, owned, localEpoch, tls, ep, arg,
                 bucket, reclaimer, sweepVars, history>>

Exit(t) ==
  /\ pc[t] = "idle" /\ InSection(t)
  /\ LeaveSection(t)
  /\ UNCHANGED <<globalEpoch, threadList, owned, localEpoch, tls, pc, ep, arg,
                 bucket, reclaimer, sweepVars, status>>

-----------------------------------------------------------------------------
(* ttak_epoch_retire.                                                      *)

\* The call: the client has unlinked p and gives it up.
Retire(t, p) ==
  /\ status[p] = "live" /\ Goto(t, "idle", "retire")
  /\ arg' = [arg EXCEPT ![t] = p]
  /\ status' = [status EXCEPT ![p] = "retired"]
  /\ pinned' = [pinned EXCEPT ![p] = {u \in Threads : InSection(u)}]
  /\ UNCHANGED <<globalEpoch, slotVars, ep, bucket, reclaimer, sweepVars>>

RetireLoad(t) ==
  /\ tls[t] # NoSlot /\ Goto(t, "retire", "push")
  /\ ep' = [ep EXCEPT ![t] = globalEpoch]
  /\ UNCHANGED <<globalEpoch, slotVars, arg, bucket, reclaimer, sweepVars, history>>

\* The CAS that links the node into its bucket.  Which bucket is a mixing of
\* the thread id and the epoch (ttak_get_ols_coords); any cell will do here.
RetirePush(t) ==
  /\ Goto(t, "push", "idle")
  /\ \E c \in 0 .. Cells - 1 :
       bucket' = [bucket EXCEPT ![c] = @ \cup {[ptr |-> arg[t], epoch |-> ep[t]]}]
  /\ arg' = [arg EXCEPT ![t] = None]
  /\ UNCHANGED <<globalEpoch, slotVars, ep, reclaimer, sweepVars, history>>

-----------------------------------------------------------------------------
(* ttak_epoch_reclaim.                                                     *)

Unlock(t) == reclaimer' = None /\ pc' = [pc EXCEPT ![t] = "idle"]

WantReclaim == IdleReclaim \/ \E c \in 0 .. Cells - 1 : bucket[c] # {}

\* The trylock succeeds; `current' cannot change while the lock is held, and
\* a node pushed on the thread list after this belongs to a later reader.
ReclaimBegin(t) ==
  /\ WantReclaim /\ globalEpoch < EpochLimit
  /\ reclaimer = None /\ Goto(t, "idle", "scan")
  /\ reclaimer' = t
  /\ ep' = [ep EXCEPT ![t] = globalEpoch]
  /\ scan' = threadList - 1
  /\ UNCHANGED <<globalEpoch, slotVars, arg, bucket, cell, list, history>>

\* Load one thread's active flag ...
ReclaimScan(t) ==
  /\ pc[t] = "scan" /\ scan >= 0
  /\ IF active[scan]
       THEN pc' = [pc EXCEPT ![t] = "local"] /\ UNCHANGED scan
       ELSE scan' = scan - 1 /\ UNCHANGED pc
  /\ UNCHANGED <<globalEpoch, slotVars, ep, arg, bucket, reclaimer, cell, list,
                 history>>

\* A thread whose local epoch is lower is in the way.
LaggingMutant(local, current) == local <= current      \* mutant: off by one
LaggingByTwo(local, current)  == local + 1 < current   \* mutant: one behind is fine
Lagging(local, current) == local < current

\* ... and, if it was set, its local epoch: a lagging thread ends the call.
ReclaimLocal(t) ==
  /\ pc[t] = "local"
  /\ IF Lagging(localEpoch[scan], ep[t])
       THEN Unlock(t) /\ UNCHANGED scan
       ELSE scan' = scan - 1 /\ pc' = [pc EXCEPT ![t] = "scan"] /\ UNCHANGED reclaimer
  /\ UNCHANGED <<globalEpoch, slotVars, ep, arg, bucket, cell, list, history>>

ReclaimAdvance(t) ==
  /\ scan = NoSlot /\ Goto(t, "scan", "cell")
  /\ globalEpoch' = Inc(globalEpoch)
  /\ ep' = [ep EXCEPT ![t] = Inc(globalEpoch)]
  /\ cell' = 0
  /\ UNCHANGED <<slotVars, arg, bucket, reclaimer, scan, list, history>>

\* Exchange one bucket with NULL.
ReclaimTake(t) ==
  /\ cell < Cells /\ Goto(t, "cell", "sweep")
  /\ list' = bucket[cell]
  /\ bucket' = [bucket EXCEPT ![cell] = {}]
  /\ UNCHANGED <<globalEpoch, slotVars, ep, arg, reclaimer, scan, cell, history>>

\* Run the cleanup of one node that is old enough.
ReclaimFree(t) ==
  /\ pc[t] = "sweep"
  /\ \E n \in list :
       /\ Aged(ep[t], n)
       /\ status' = [status EXCEPT ![n.ptr] = "freed"]
       /\ list' = list \ {n}
  /\ UNCHANGED <<globalEpoch, slotVars, pc, ep, arg, bucket, reclaimer, scan,
                 cell, pinned>>

SplicedMutant(queued, young) == young         \* mutant: a store instead of the CAS
Spliced(queued, young)       == queued \cup young

\* Splice the young nodes back in front of what was retired meanwhile.
ReclaimSplice(t) ==
  /\ \A n \in list : ~Aged(ep[t], n)
  /\ Goto(t, "sweep", "cell")
  /\ bucket' = [bucket EXCEPT ![cell] = Spliced(@, list)]
  /\ list' = {}
  /\ cell' = cell + 1
  /\ UNCHANGED <<globalEpoch, slotVars, ep, arg, reclaimer, scan, history>>

ReclaimEnd(t) ==
  /\ pc[t] = "cell" /\ cell = Cells
  /\ Unlock(t)
  /\ UNCHANGED <<globalEpoch, slotVars, ep, arg, bucket, sweepVars, history>>

-----------------------------------------------------------------------------
\* What a thread does once it is inside a library call.
Internal(t) ==
  \/ ReleaseNode(t) \/ EnterStore(t) \/ EnterActivate(t)
  \/ (pc[t] = "retire" /\ Register(t)) \/ RetireLoad(t) \/ RetirePush(t)
  \/ ReclaimScan(t) \/ ReclaimLocal(t) \/ ReclaimAdvance(t) \/ ReclaimTake(t)
  \/ ReclaimFree(t) \/ ReclaimSplice(t) \/ ReclaimEnd(t)

EpochNext ==
  \E t \in Threads :
    \/ Register(t) \/ Deregister(t) \/ EnterLoad(t) \/ Exit(t)
    \/ (\E p \in Ptrs : Retire(t, p)) \/ ReclaimBegin(t) \/ Internal(t)

EpochSpec == EpochInit /\ [][EpochNext]_epochVars

\* A call in progress is never suspended for good (the scheduler).  The rest is
\* what callers owe: a section is left in the end, and some thread goes on
\* calling reclaim while something is retired.  The library itself calls reclaim
\* nowhere that runs: ttak_epoch_gc_init starts no rotation thread
\* (epoch_gc.c:101, "Callers rotate/reclaim explicitly").  Threads stop coming
\* and going at some point: a node handed over between the two loads of a scan
\* shows local epoch 0, and if that happened in every call of reclaim each one
\* would give up.
EpochFairness ==
  /\ \A t \in Threads : WF_epochVars(Internal(t)) /\ SF_epochVars(Exit(t))
  /\ SF_epochVars(\E t \in Threads : ReclaimBegin(t))
  /\ <>[][\A t \in Threads : ~Deregister(t)]_epochVars

EpochFairSpec == EpochSpec /\ EpochFairness

-----------------------------------------------------------------------------
(* Properties.                                                             *)

\* Type invariant of the epoch manager, the thread slots and the buckets.
EpochTypeOK ==
  /\ globalEpoch \in Epochs /\ threadList \in 0 .. MaxSlots
  /\ owned \in [Slots -> BOOLEAN] /\ active \in [Slots -> BOOLEAN]
  /\ localEpoch \in [Slots -> Epochs]
  /\ tls \in [Threads -> Slots \cup {NoSlot}]
  /\ pc \in [Threads -> {"idle", "release", "store", "activate", "retire", "push",
                         "scan", "local", "cell", "sweep"}]
  /\ ep \in [Threads -> Epochs]
  /\ arg \in [Threads -> Ptrs \cup {None}]
  /\ bucket \in [0 .. Cells - 1 -> SUBSET Nodes]
  /\ reclaimer \in Threads \cup {None}
  /\ scan \in Slots \cup {NoSlot} /\ cell \in 0 .. Cells /\ list \in SUBSET Nodes
  /\ status \in [Ptrs -> {"live", "retired", "freed"}]
  /\ pinned \in [Ptrs -> SUBSET Threads]

\* The grace period (epoch.h: "every active reader has then entered after the
\* node was unlinked"): when a pointer's cleanup has run, every section that
\* was open when the pointer was retired has ended.
GraceSafe == \A p \in Ptrs : status[p] = "freed" => pinned[p] = {}

\* Two live threads never share a per-thread state, whatever the races between
\* a thread that gives its node back and those that look for a free one.
SlotExclusive ==
  \A t, u \in Threads : t # u /\ tls[t] # NoSlot => tls[t] # tls[u]

\* Where a retired pointer is: in the hands of its retirer, in a bucket, or
\* in the list the reclaimer has detached.
Places(p) ==
  {<<"call", t>> : t \in {u \in Threads : arg[u] = p}}
    \cup {<<"list", n>> : n \in {m \in list : m.ptr = p}}
    \cup UNION {{<<"cell", c, n>> : n \in {m \in bucket[c] : m.ptr = p}} :
                   c \in 0 .. Cells - 1}

\* A retired node is in exactly one place until it is freed, and in none
\* after: the lock-free pushes and splices lose no node and free none twice.
RetiredOnce ==
  \A p \in Ptrs :
    IF status[p] = "retired" THEN \E x \in Places(p) : Places(p) = {x}
                             ELSE Places(p) = {}

\* A retired pointer is freed in the end, readers coming and going all along,
\* provided that callers go on calling reclaim and leave their sections: no scan,
\* lagging reader or splice holds a node back for ever.
EventuallyFreed == \A p \in Ptrs : (status[p] = "retired") ~> (status[p] = "freed")

Contract == INSTANCE Reclamation WITH inside <- {t \in Threads : InSection(t)}

\* The epochs, slots and buckets implement the contract of Reclamation: a
\* pointer is freed once, and only when the sections it waited for are over.
RefinesContract == Contract!Spec
=============================================================================
