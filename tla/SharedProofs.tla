----------------------------- MODULE SharedProofs -----------------------------
(***************************************************************************)
(* The shared container of src/shared/shared.c on top of the epoch manager,  *)
(* for any number of readers, writers, payloads and slots: a swap owns the   *)
(* payload it took out, and no reader's payload is freed under it, but for    *)
(* the readers under the lock of a NO_LEVEL container.                      *)
(***************************************************************************)
EXTENDS Shared, EpochProofs

(***************************************************************************)
(* The container never deregisters a thread, so its steps are steps of the  *)
(* epoch manager or leave it alone: what is proved of the manager holds of   *)
(* the container, and ManagerInv is available in every proof below.         *)
(***************************************************************************)
ManagerInv == TInv /\ SlotInv /\ PlaceInv

\* Where an operation stands tells where its thread is in the epoch manager,
\* and whether it is inside a critical section.
CallsInv ==
  \A t \in Threads :
    /\ pc[t] # "release"
    /\ pc[t] \in {"store", "activate"} => spc[t] = "load"
    /\ spc[t] \notin {"none", "load"} => pc[t] = "idle"
    /\ spc[t] = "load" => pc[t] \in {"store", "activate"} \/ (pc[t] = "idle" /\ InSection(t))
    /\ spc[t] \in {"check", "using"} => InSection(t)
    /\ InSection(t) => spc[t] \in {"load", "check", "using"}

\* Who holds the lock, and which operations exist at which level.
LockInv ==
  /\ writing = None \/ reading = {}
  /\ \A t \in Threads :
       /\ t \in reading <=> spc[t] \in {"lockedCheck", "usingLocked"}
       /\ writing = t <=> spc[t] \in {"swap", "update"}
       /\ spc[t] \in {"lock", "swap", "update"} => level > 0
       /\ spc[t] \in {"exchange", "fields"} => level = 0

\* A swap whose payload is not yet installed, and one that has taken out a
\* payload it has not yet retired.
Pending(t) == spc[t] \in {"exchange", "lock", "swap"}
Removing(t) == spc[t] \in {"fields", "update", "retire"}

Usable(p) == p \in Ptrs /\ header[p] # 0 /\ status[p] = "live"

\* Every payload belongs to one party: the container, the swap that will
\* install it or the swap that took it out.
PayloadInv ==
  /\ clock > 0 /\ \A p \in Ptrs : header[p] = 0 => status[p] = "live"
  /\ Usable(shared)
  /\ \A t \in Threads :
       /\ Pending(t) => Usable(new[t]) /\ new[t] # shared
       /\ Removing(t) => Usable(old[t]) /\ old[t] # shared
       /\ spc[t] = "swap" => old[t] = shared
       /\ spc[t] = "update" => new[t] = shared
       /\ spc[t] = "fields" => new[t] \in Ptrs
  /\ \A t, u \in Threads :
       /\ t # u /\ Pending(t) /\ Pending(u) => new[t] # new[u]
       /\ t # u /\ Removing(t) /\ Removing(u) => old[t] # old[u]
       /\ Pending(t) /\ Removing(u) => new[t] # old[u]
  /\ level > 0 /\ writing = None => size = shared

\* What a reader holds is live, or was retired while the reader was inside the
\* section it is still in; under the read lock of a strict level, which the
\* swap respects, it is the installed payload.
HeldInv ==
  \A t \in Threads :
    /\ spc[t] \in {"check", "using"} =>
         /\ held[t] \in Ptrs
         /\ status[held[t]] = "live" \/ t \in pinned[held[t]]
    /\ spc[t] = "usingLocked" /\ level > 0 => held[t] = shared
    /\ spc[t] \notin {"check", "using", "usingLocked"} => held[t] = None

ContainerInv == SharedTypeOK /\ CallsInv /\ LockInv /\ PayloadInv /\ HeldInv

-----------------------------------------------------------------------------
(* The steps of the epoch manager, as the container sees them.             *)

LEMMA ManagerNext == SharedTypeOK /\ [SharedNext]_vars => [EpochNext]_epochVars
  <1> SUFFICES ASSUME SharedTypeOK, [SharedNext]_vars PROVE [EpochNext]_epochVars
    OBVIOUS
  <1>1. CASE UNCHANGED vars
    BY <1>1 DEF vars
  <1>2. ASSUME NEW t \in Threads, EpochStep(t) PROVE EpochNext
    BY <1>2 DEF EpochStep, EpochNext
  <1>3. ASSUME NEW t \in Threads, Operation(t)
        PROVE  \/ UNCHANGED epochVars
               \/ EnterLoad(t) \/ Exit(t) \/ \E p \in Ptrs : Retire(t, p)
    <2>1. CASE AccessEnter(t) \/ AccessCheck(t) \/ ReleaseEbr(t)
      BY <2>1 DEF AccessEnter, AccessCheck, LeaveOnDenial, ReleaseEbr
    <2>2. CASE SwapRetire(t)
      BY <2>2 DEF SwapRetire, SharedTypeOK
    <2>3. CASE \/ AccessLoad(t) \/ AccessLocked(t) \/ AccessLockedCheck(t) \/ Release(t)
               \/ (\E p \in Ptrs : SwapAlloc(t, p)) \/ SwapExchange(t) \/ SwapFields(t)
               \/ SwapLock(t) \/ SwapStore(t) \/ SwapUpdate(t)
               \/ SyncStart(t) \/ SyncStore(t) \/ SyncStripe(t)
      BY <2>3 DEF AccessLoad, AccessLocked, AccessLockedCheck, Release, SwapAlloc,
         SwapExchange, SwapFields, SwapLock, SwapStore, SwapUpdate, SyncStart, SyncStore,
         SyncStripe
    <2> QED
      BY <1>3, <2>1, <2>2, <2>3 DEF Operation
  <1> QED
    BY <1>1, <1>2, <1>3 DEF SharedNext, EpochNext

LEMMA ManagerInit == EpochInit => ManagerInv
  BY TypeInit, PlaceInit, IInvInit DEF ManagerInv, IInv

LEMMA ManagerInvNext ==
  SharedTypeOK /\ ManagerInv /\ [SharedNext]_vars => ManagerInv'
  BY ManagerNext, TypeNext, SlotNext, PlaceNext DEF ManagerInv

LEMMA InternalBusy == \A t \in Threads : Internal(t) => pc[t] # "idle"
  BY DEF Internal, ReleaseNode, EnterStore, EnterActivate, RetireLoad, RetirePush,
     ReclaimScan, ReclaimLocal, ReclaimAdvance, ReclaimTake, ReclaimFree, ReclaimSplice,
     ReclaimEnd, Goto

\* A step inside a call retires nothing, frees nothing that is live, and opens
\* a section only at enter's last store.
LEMMA ManagerStep ==
  ASSUME ManagerInv, NEW t \in Threads, pc[t] # "release",
         Internal(t) \/ Register(t) \/ ReclaimBegin(t)
  PROVE  /\ \A p \in Ptrs : status[p] = "live" <=> status'[p] = "live"
         /\ UNCHANGED pinned
         /\ \A u \in Threads : u # t => pc'[u] = pc[u]
         /\ \A u \in Threads : InSection(u)' <=> InSection(u) \/ (u = t /\ pc[t] = "activate")
         /\ pc[t] = "store" => pc'[t] = "activate"
         /\ pc[t] = "activate" => pc'[t] = "idle"
         /\ pc[t] \notin {"store", "activate"} => pc'[t] \notin {"release", "store", "activate"}
         /\ pc[t] = "idle" => ReclaimBegin(t) \/ pc'[t] = "idle"
  <1> USE EpochConstants DEF ManagerInv, TInv, EpochTypeOK, CallInv, SlotInv, SlotExclusive,
          InSection, Slots, NoSlot, slotVars, sweepVars, history
  <1>1. CASE Register(t)
    BY <1>1 DEF Register, Claimable
  <1>2. CASE EnterStore(t)
    BY <1>2 DEF EnterStore, Goto
  <1>3. CASE EnterActivate(t)
    BY <1>3 DEF EnterActivate, Goto
  <1>4. CASE RetireLoad(t) \/ RetirePush(t) \/ ReclaimBegin(t)
    BY <1>4 DEF RetireLoad, RetirePush, ReclaimBegin, Goto
  <1>5. CASE ReclaimScan(t) \/ ReclaimLocal(t) \/ ReclaimAdvance(t)
    BY <1>5 DEF ReclaimScan, ReclaimLocal, ReclaimAdvance, Goto, Unlock
  <1>6. CASE ReclaimTake(t) \/ ReclaimSplice(t) \/ ReclaimEnd(t)
    BY <1>6 DEF ReclaimTake, ReclaimSplice, ReclaimEnd, Goto, Unlock
  <1>7. CASE ReclaimFree(t)
    BY <1>7 DEF ReclaimFree, PlaceInv, PlacedRetired, Nodes
  <1>8. CASE ReleaseNode(t)
    BY <1>8 DEF ReleaseNode, Goto
  <1> QED
    BY <1>1, <1>2, <1>3, <1>4, <1>5, <1>6, <1>7, <1>8 DEF Internal

\* What the three calls the container makes change.
LEMMA CallStep ==
  ASSUME ManagerInv, NEW t \in Threads
  PROVE  /\ EnterLoad(t) =>
              /\ UNCHANGED <<status, pinned>> /\ pc' = [pc EXCEPT ![t] = "store"]
              /\ \A u \in Threads : InSection(u)' <=> InSection(u)
         /\ Exit(t) =>
              /\ UNCHANGED <<status, pc>> /\ pinned' = [p \in Ptrs |-> pinned[p] \ {t}]
              /\ \A u \in Threads : InSection(u)' <=> InSection(u) /\ u # t
         /\ \A p \in Ptrs : Retire(t, p) =>
              /\ status' = [status EXCEPT ![p] = "retired"]
              /\ pinned' = [pinned EXCEPT ![p] = {u \in Threads : InSection(u)}]
              /\ pc' = [pc EXCEPT ![t] = "retire"]
              /\ \A u \in Threads : InSection(u)' <=> InSection(u)
         /\ UNCHANGED epochVars => UNCHANGED <<status, pinned, pc>> /\
              \A u \in Threads : InSection(u)' <=> InSection(u)
  BY DEF EnterLoad, Exit, Retire, LeaveSection, Goto, ManagerInv, TInv, EpochTypeOK, SlotInv,
     SlotExclusive, InSection, slotVars, history, epochVars

-----------------------------------------------------------------------------
(* Each part of ContainerInv is preserved.  The steps are those of          *)
(* Operation, in its order; <1>E is a step inside an epoch call.            *)

LEMMA ContainerInit == SharedInit => ContainerInv
  <1> SUFFICES ASSUME SharedInit PROVE ContainerInv
    OBVIOUS
  <1> USE SharedConstants, EpochConstants DEF SharedInit, EpochInit
  <1>1. SharedTypeOK
    <2>1. 0 \in 0 .. MaxClock /\ 1 \in 0 .. MaxClock
      BY SMT
    <2>2. header \in [Ptrs -> 0 .. MaxClock]
      BY <2>1
    <2> QED
      BY <2>1, <2>2 DEF SharedTypeOK
  <1>2. CallsInv /\ LockInv /\ HeldInv
    BY DEF CallsInv, LockInv, HeldInv, InSection
  <1>3. PayloadInv
    BY DEF PayloadInv, Pending, Removing, Usable
  <1> QED
    BY <1>1, <1>2, <1>3 DEF ContainerInv

LEMMA ContainerTypeNext ==
  ManagerInv /\ ContainerInv /\ [SharedNext]_vars => SharedTypeOK'
  <1> SUFFICES ASSUME ManagerInv, ContainerInv, [SharedNext]_vars PROVE SharedTypeOK'
    OBVIOUS
  <1> USE SharedConstants, EpochConstants DEF ContainerInv, SharedTypeOK, cellVars, Locks, At, Step
  <1>0. CASE UNCHANGED vars
    BY <1>0 DEF vars, sharedVars
  <1>E. ASSUME NEW t \in Threads, EpochStep(t) PROVE SharedTypeOK'
    BY <1>E DEF EpochStep, sharedVars
  <1>1. ASSUME NEW t \in Threads, AccessEnter(t) PROVE SharedTypeOK'
    BY <1>1 DEF AccessEnter
  <1>2. ASSUME NEW t \in Threads, AccessLoad(t) PROVE SharedTypeOK'
    BY <1>2 DEF AccessLoad
  <1>3. ASSUME NEW t \in Threads, AccessCheck(t) PROVE SharedTypeOK'
    BY <1>3 DEF AccessCheck
  <1>4. ASSUME NEW t \in Threads, ReleaseEbr(t) PROVE SharedTypeOK'
    BY <1>4 DEF ReleaseEbr
  <1>5. ASSUME NEW t \in Threads, AccessLocked(t) PROVE SharedTypeOK'
    BY <1>5 DEF AccessLocked
  <1>6. ASSUME NEW t \in Threads, AccessLockedCheck(t) PROVE SharedTypeOK'
    BY <1>6 DEF AccessLockedCheck
  <1>7. ASSUME NEW t \in Threads, Release(t) PROVE SharedTypeOK'
    BY <1>7 DEF Release
  <1>8. ASSUME NEW t \in Threads, NEW p \in Ptrs, SwapAlloc(t, p) PROVE SharedTypeOK'
    BY <1>8 DEF SwapAlloc, Tick
  <1>9. ASSUME NEW t \in Threads, SwapExchange(t) PROVE SharedTypeOK'
    BY <1>9 DEF SwapExchange
  <1>10. ASSUME NEW t \in Threads, SwapFields(t) PROVE SharedTypeOK'
    BY <1>10 DEF SwapFields, PayloadInv
  <1>11. ASSUME NEW t \in Threads, SwapLock(t) PROVE SharedTypeOK'
    BY <1>11 DEF SwapLock, MayWrite
  <1>12. ASSUME NEW t \in Threads, SwapStore(t) PROVE SharedTypeOK'
    BY <1>12 DEF SwapStore
  <1>13. ASSUME NEW t \in Threads, SwapUpdate(t) PROVE SharedTypeOK'
    BY <1>13 DEF SwapUpdate, PayloadInv, Usable
  <1>14. ASSUME NEW t \in Threads, SwapRetire(t) PROVE SharedTypeOK'
    BY <1>14 DEF SwapRetire
  <1>15. ASSUME NEW t \in Threads, SyncStart(t) PROVE SharedTypeOK'
    BY <1>15 DEF SyncStart, Tick
  <1>16. ASSUME NEW t \in Threads, SyncStore(t) PROVE SharedTypeOK'
    BY <1>16 DEF SyncStore
  <1>17. ASSUME NEW t \in Threads, SyncStripe(t) PROVE SharedTypeOK'
    BY <1>17 DEF SyncStripe, ManagerInv, TInv, EpochTypeOK
  <1> QED
    BY <1>0, <1>E, <1>1, <1>2, <1>3, <1>4, <1>5, <1>6, <1>7, <1>8, <1>9, <1>10, <1>11,
       <1>12, <1>13, <1>14, <1>15, <1>16, <1>17 DEF SharedNext, Operation

LEMMA LockNext == ContainerInv /\ [SharedNext]_vars => LockInv'
  <1> SUFFICES ASSUME ContainerInv, [SharedNext]_vars PROVE LockInv'
    OBVIOUS
  <1> USE SharedConstants, EpochConstants DEF ContainerInv, SharedTypeOK, LockInv, cellVars, Locks, At, Step
  <1>0. CASE UNCHANGED vars
    BY <1>0 DEF vars, sharedVars
  <1>E. ASSUME NEW t \in Threads, EpochStep(t) PROVE LockInv'
    BY <1>E DEF EpochStep, sharedVars
  <1>1. ASSUME NEW t \in Threads, AccessEnter(t) PROVE LockInv'
    BY <1>1 DEF AccessEnter
  <1>2. ASSUME NEW t \in Threads, AccessLoad(t) PROVE LockInv'
    BY <1>2 DEF AccessLoad
  <1>3. ASSUME NEW t \in Threads, AccessCheck(t) PROVE LockInv'
    BY <1>3 DEF AccessCheck
  <1>4. ASSUME NEW t \in Threads, ReleaseEbr(t) PROVE LockInv'
    BY <1>4 DEF ReleaseEbr
  <1>5. ASSUME NEW t \in Threads, AccessLocked(t) PROVE LockInv'
    BY <1>5 DEF AccessLocked
  <1>6. ASSUME NEW t \in Threads, AccessLockedCheck(t) PROVE LockInv'
    BY <1>6 DEF AccessLockedCheck
  <1>7. ASSUME NEW t \in Threads, Release(t) PROVE LockInv'
    BY <1>7 DEF Release
  <1>8. ASSUME NEW t \in Threads, NEW p \in Ptrs, SwapAlloc(t, p) PROVE LockInv'
    BY <1>8 DEF SwapAlloc
  <1>9. ASSUME NEW t \in Threads, SwapExchange(t) PROVE LockInv'
    BY <1>9 DEF SwapExchange
  <1>10. ASSUME NEW t \in Threads, SwapFields(t) PROVE LockInv'
    BY <1>10 DEF SwapFields
  <1>11. ASSUME NEW t \in Threads, SwapLock(t) PROVE LockInv'
    BY <1>11 DEF SwapLock, MayWrite
  <1>12. ASSUME NEW t \in Threads, SwapStore(t) PROVE LockInv'
    BY <1>12 DEF SwapStore
  <1>13. ASSUME NEW t \in Threads, SwapUpdate(t) PROVE LockInv'
    BY <1>13 DEF SwapUpdate
  <1>14. ASSUME NEW t \in Threads, SwapRetire(t) PROVE LockInv'
    BY <1>14 DEF SwapRetire
  <1>15. ASSUME NEW t \in Threads, SyncStart(t) PROVE LockInv'
    BY <1>15 DEF SyncStart
  <1>16. ASSUME NEW t \in Threads, SyncStore(t) PROVE LockInv'
    BY <1>16 DEF SyncStore
  <1>17. ASSUME NEW t \in Threads, SyncStripe(t) PROVE LockInv'
    BY <1>17 DEF SyncStripe
  <1> QED
    BY <1>0, <1>E, <1>1, <1>2, <1>3, <1>4, <1>5, <1>6, <1>7, <1>8, <1>9, <1>10, <1>11,
       <1>12, <1>13, <1>14, <1>15, <1>16, <1>17 DEF SharedNext, Operation

LEMMA CallsNext == ManagerInv /\ ContainerInv /\ [SharedNext]_vars => CallsInv'
  <1> SUFFICES ASSUME ManagerInv, ContainerInv, [SharedNext]_vars PROVE CallsInv'
    OBVIOUS
  <1> USE EpochConstants DEF ContainerInv, SharedTypeOK, CallsInv, At, Step
  <1>P. pc \in [Threads -> {"idle", "release", "store", "activate", "retire", "push",
                            "scan", "local", "cell", "sweep"}]
    BY DEF ManagerInv, TInv, EpochTypeOK
  <1>0. CASE UNCHANGED vars
    BY <1>0, CallStep DEF vars, sharedVars, epochVars, InSection
  <1>E. ASSUME NEW t \in Threads, EpochStep(t) PROVE CallsInv'
    <2>1. Internal(t) \/ Register(t) \/ ReclaimBegin(t)
      BY <1>E DEF EpochStep
    <2>2. UNCHANGED spc /\ pc[t] # "release"
      BY <1>E DEF EpochStep, sharedVars
    <2>3. /\ \A u \in Threads : u # t => pc'[u] = pc[u]
          /\ \A u \in Threads : InSection(u)' <=> InSection(u) \/ (u = t /\ pc[t] = "activate")
          /\ pc[t] = "store" => pc'[t] = "activate"
          /\ pc[t] = "activate" => pc'[t] = "idle"
          /\ pc[t] \notin {"store", "activate"} => pc'[t] \notin {"release", "store", "activate"}
          /\ pc[t] = "idle" => ReclaimBegin(t) \/ pc'[t] = "idle"
          /\ Internal(t) => pc[t] # "idle"
      BY <2>1, <2>2, ManagerStep, InternalBusy
    <2>4. pc[t] = "idle" => spc[t] = "none" \/ pc'[t] = "idle"
      BY <1>E, <2>3 DEF EpochStep, Register
    <2> QED
      BY <2>2, <2>3, <2>4
  <1>1. ASSUME NEW t \in Threads, AccessEnter(t) PROVE CallsInv'
    <2>1. /\ spc' = [spc EXCEPT ![t] = "load"] /\ pc' = [pc EXCEPT ![t] = "store"]
          /\ \A u \in Threads : InSection(u)' <=> InSection(u)
      BY <1>1, CallStep DEF AccessEnter
    <2>2. spc[t] = "none"
      BY <1>1 DEF AccessEnter
    <2> QED
      BY <1>P, <2>1, <2>2
  <1>2. ASSUME NEW t \in Threads, AccessLoad(t) PROVE CallsInv'
    BY <1>2, CallStep DEF AccessLoad
  <1>3. ASSUME NEW t \in Threads, AccessCheck(t) PROVE CallsInv'
    BY <1>3, CallStep DEF AccessCheck, LeaveOnDenial
  <1>4. ASSUME NEW t \in Threads, ReleaseEbr(t) PROVE CallsInv'
    BY <1>4, CallStep DEF ReleaseEbr
  <1>5. ASSUME NEW t \in Threads, AccessLocked(t) PROVE CallsInv'
    BY <1>5, CallStep DEF AccessLocked
  <1>6. ASSUME NEW t \in Threads, AccessLockedCheck(t) PROVE CallsInv'
    BY <1>6, CallStep DEF AccessLockedCheck
  <1>7. ASSUME NEW t \in Threads, Release(t) PROVE CallsInv'
    BY <1>7, CallStep DEF Release
  <1>8. ASSUME NEW t \in Threads, NEW p \in Ptrs, SwapAlloc(t, p) PROVE CallsInv'
    BY <1>8, CallStep DEF SwapAlloc
  <1>9. ASSUME NEW t \in Threads, SwapExchange(t) PROVE CallsInv'
    BY <1>9, CallStep DEF SwapExchange
  <1>10. ASSUME NEW t \in Threads, SwapFields(t) PROVE CallsInv'
    BY <1>10, CallStep DEF SwapFields
  <1>11. ASSUME NEW t \in Threads, SwapLock(t) PROVE CallsInv'
    BY <1>11, CallStep DEF SwapLock
  <1>12. ASSUME NEW t \in Threads, SwapStore(t) PROVE CallsInv'
    BY <1>12, CallStep DEF SwapStore
  <1>13. ASSUME NEW t \in Threads, SwapUpdate(t) PROVE CallsInv'
    BY <1>13, CallStep DEF SwapUpdate
  <1>14. ASSUME NEW t \in Threads, SwapRetire(t) PROVE CallsInv'
    <2>1. CASE old[t] = None
      BY <1>14, <2>1, CallStep DEF SwapRetire
    <2>2. CASE old[t] # None
      <3>1. /\ spc' = [spc EXCEPT ![t] = "none"] /\ pc' = [pc EXCEPT ![t] = "retire"]
            /\ \A u \in Threads : InSection(u)' <=> InSection(u)
        BY <1>14, <2>2, CallStep DEF SwapRetire
      <3>2. spc[t] = "retire"
        BY <1>14 DEF SwapRetire
      <3> QED
        BY <1>P, <3>1, <3>2
    <2> QED
      BY <2>1, <2>2
  <1>15. ASSUME NEW t \in Threads, SyncStart(t) PROVE CallsInv'
    BY <1>15, CallStep DEF SyncStart
  <1>16. ASSUME NEW t \in Threads, SyncStore(t) PROVE CallsInv'
    BY <1>16, CallStep DEF SyncStore
  <1>17. ASSUME NEW t \in Threads, SyncStripe(t) PROVE CallsInv'
    BY <1>17, CallStep DEF SyncStripe
  <1> QED
    BY <1>0, <1>E, <1>1, <1>2, <1>3, <1>4, <1>5, <1>6, <1>7, <1>8, <1>9, <1>10, <1>11,
       <1>12, <1>13, <1>14, <1>15, <1>16, <1>17 DEF SharedNext, Operation

LEMMA PayloadNext == ManagerInv /\ ContainerInv /\ [SharedNext]_vars => PayloadInv'
  <1> SUFFICES ASSUME ManagerInv, ContainerInv, [SharedNext]_vars PROVE PayloadInv'
    OBVIOUS
  <1> USE SharedConstants, EpochConstants DEF ContainerInv, SharedTypeOK, LockInv, PayloadInv,
          Pending, Removing, Usable, cellVars, Locks, At, Step
  <1>S. status \in [Ptrs -> {"live", "retired", "freed"}]
    BY DEF ManagerInv, TInv, EpochTypeOK
  <1>0. CASE UNCHANGED vars
    BY <1>0 DEF vars, sharedVars, epochVars
  <1>E. ASSUME NEW t \in Threads, EpochStep(t) PROVE PayloadInv'
    <2>1. \A p \in Ptrs : status[p] = "live" <=> status'[p] = "live"
      BY <1>E, ManagerStep DEF EpochStep, CallsInv
    <2>2. UNCHANGED sharedVars
      BY <1>E DEF EpochStep
    <2> QED
      BY <2>1, <2>2 DEF sharedVars
  <1>1. ASSUME NEW t \in Threads, AccessEnter(t) PROVE PayloadInv'
    BY <1>1, CallStep DEF AccessEnter
  <1>2. ASSUME NEW t \in Threads, AccessLoad(t) PROVE PayloadInv'
    BY <1>2, CallStep DEF AccessLoad
  <1>3. ASSUME NEW t \in Threads, AccessCheck(t) PROVE PayloadInv'
    BY <1>3, CallStep DEF AccessCheck, LeaveOnDenial
  <1>4. ASSUME NEW t \in Threads, ReleaseEbr(t) PROVE PayloadInv'
    BY <1>4, CallStep DEF ReleaseEbr
  <1>5. ASSUME NEW t \in Threads, AccessLocked(t) PROVE PayloadInv'
    BY <1>5, CallStep DEF AccessLocked
  <1>6. ASSUME NEW t \in Threads, AccessLockedCheck(t) PROVE PayloadInv'
    BY <1>6, CallStep DEF AccessLockedCheck
  <1>7. ASSUME NEW t \in Threads, Release(t) PROVE PayloadInv'
    BY <1>7, CallStep DEF Release
  <1>8. ASSUME NEW t \in Threads, NEW p \in Ptrs, SwapAlloc(t, p) PROVE PayloadInv'
    BY <1>8, CallStep DEF SwapAlloc, Tick
  <1>9. ASSUME NEW t \in Threads, SwapExchange(t) PROVE PayloadInv'
    BY <1>9, CallStep DEF SwapExchange
  <1>10. ASSUME NEW t \in Threads, SwapFields(t) PROVE PayloadInv'
    BY <1>10, CallStep DEF SwapFields
  <1>11. ASSUME NEW t \in Threads, SwapLock(t) PROVE PayloadInv'
    BY <1>11, CallStep DEF SwapLock, MayWrite
  <1>12. ASSUME NEW t \in Threads, SwapStore(t) PROVE PayloadInv'
    BY <1>12, CallStep DEF SwapStore
  <1>13. ASSUME NEW t \in Threads, SwapUpdate(t) PROVE PayloadInv'
    BY <1>13, CallStep DEF SwapUpdate
  <1>14. ASSUME NEW t \in Threads, SwapRetire(t) PROVE PayloadInv'
    <2>1. /\ spc' = [spc EXCEPT ![t] = "none"] /\ spc[t] = "retire"
          /\ UNCHANGED <<cellVars, writing, new, old>>
          /\ old[t] \in Ptrs /\ old[t] # None
      BY <1>14 DEF SwapRetire
    <2>2. status' = [status EXCEPT ![old[t]] = "retired"]
      BY <1>14, <2>1, CallStep DEF SwapRetire
    <2>3. \A p \in Ptrs : p # old[t] => status'[p] = status[p]
      BY <1>S, <2>2
    <2>4. header[old[t]] # 0 /\ old[t] # shared
      BY <2>1
    <2> QED
      BY <2>1, <2>3, <2>4
  <1>15. ASSUME NEW t \in Threads, SyncStart(t) PROVE PayloadInv'
    BY <1>15, CallStep DEF SyncStart, Tick
  <1>16. ASSUME NEW t \in Threads, SyncStore(t) PROVE PayloadInv'
    BY <1>16, CallStep DEF SyncStore
  <1>17. ASSUME NEW t \in Threads, SyncStripe(t) PROVE PayloadInv'
    BY <1>17, CallStep DEF SyncStripe
  <1> QED
    BY <1>0, <1>E, <1>1, <1>2, <1>3, <1>4, <1>5, <1>6, <1>7, <1>8, <1>9, <1>10, <1>11,
       <1>12, <1>13, <1>14, <1>15, <1>16, <1>17 DEF SharedNext, Operation

LEMMA HeldNext == ManagerInv /\ ContainerInv /\ [SharedNext]_vars => HeldInv'
  <1> SUFFICES ASSUME ManagerInv, ContainerInv, [SharedNext]_vars PROVE HeldInv'
    OBVIOUS
  <1> USE SharedConstants, EpochConstants DEF ContainerInv, SharedTypeOK, LockInv, HeldInv,
          cellVars, Locks, At, Step
  <1>S. /\ status \in [Ptrs -> {"live", "retired", "freed"}]
        /\ pinned \in [Ptrs -> SUBSET Threads] /\ Usable(shared)
    BY DEF ManagerInv, TInv, EpochTypeOK, PayloadInv
  <1>0. CASE UNCHANGED vars
    BY <1>0 DEF vars, sharedVars, epochVars
  <1>E. ASSUME NEW t \in Threads, EpochStep(t) PROVE HeldInv'
    <2>1. \A p \in Ptrs : status[p] = "live" <=> status'[p] = "live"
      BY <1>E, ManagerStep DEF EpochStep, CallsInv
    <2>2. UNCHANGED sharedVars /\ UNCHANGED pinned
      BY <1>E, ManagerStep DEF EpochStep, CallsInv
    <2> QED
      BY <2>1, <2>2 DEF sharedVars
  <1>1. ASSUME NEW t \in Threads, AccessEnter(t) PROVE HeldInv'
    BY <1>1, CallStep DEF AccessEnter
  <1>2. ASSUME NEW t \in Threads, AccessLoad(t) PROVE HeldInv'
    BY <1>2, <1>S, CallStep DEF AccessLoad, Usable
  <1>3. ASSUME NEW t \in Threads, AccessCheck(t) PROVE HeldInv'
    BY <1>3, CallStep DEF AccessCheck, LeaveOnDenial
  <1>4. ASSUME NEW t \in Threads, ReleaseEbr(t) PROVE HeldInv'
    BY <1>4, CallStep DEF ReleaseEbr
  <1>5. ASSUME NEW t \in Threads, AccessLocked(t) PROVE HeldInv'
    BY <1>5, CallStep DEF AccessLocked
  <1>6. ASSUME NEW t \in Threads, AccessLockedCheck(t) PROVE HeldInv'
    BY <1>6, CallStep DEF AccessLockedCheck
  <1>7. ASSUME NEW t \in Threads, Release(t) PROVE HeldInv'
    BY <1>7, CallStep DEF Release
  <1>8. ASSUME NEW t \in Threads, NEW p \in Ptrs, SwapAlloc(t, p) PROVE HeldInv'
    BY <1>8, CallStep DEF SwapAlloc
  <1>9. ASSUME NEW t \in Threads, SwapExchange(t) PROVE HeldInv'
    BY <1>9, CallStep DEF SwapExchange
  <1>10. ASSUME NEW t \in Threads, SwapFields(t) PROVE HeldInv'
    BY <1>10, CallStep DEF SwapFields
  <1>11. ASSUME NEW t \in Threads, SwapLock(t) PROVE HeldInv'
    BY <1>11, CallStep DEF SwapLock
  <1>12. ASSUME NEW t \in Threads, SwapStore(t) PROVE HeldInv'
    BY <1>12, CallStep DEF SwapStore
  <1>13. ASSUME NEW t \in Threads, SwapUpdate(t) PROVE HeldInv'
    BY <1>13, CallStep DEF SwapUpdate
  <1>14. ASSUME NEW t \in Threads, SwapRetire(t) PROVE HeldInv'
    <2>1. /\ spc' = [spc EXCEPT ![t] = "none"] /\ spc[t] = "retire"
          /\ UNCHANGED <<level, shared, held>> /\ old[t] \in Ptrs /\ old[t] # None
      BY <1>14 DEF SwapRetire, PayloadInv, Removing, Usable
    <2>2. /\ status' = [status EXCEPT ![old[t]] = "retired"]
          /\ pinned' = [pinned EXCEPT ![old[t]] = {u \in Threads : InSection(u)}]
      BY <1>14, <2>1, CallStep DEF SwapRetire
    <2>3. \A u \in Threads : spc[u] \in {"check", "using"} => InSection(u)
      BY DEF CallsInv
    <2> QED
      BY <1>S, <2>1, <2>2, <2>3
  <1>15. ASSUME NEW t \in Threads, SyncStart(t) PROVE HeldInv'
    BY <1>15, CallStep DEF SyncStart
  <1>16. ASSUME NEW t \in Threads, SyncStore(t) PROVE HeldInv'
    BY <1>16, CallStep DEF SyncStore
  <1>17. ASSUME NEW t \in Threads, SyncStripe(t) PROVE HeldInv'
    BY <1>17, CallStep DEF SyncStripe
  <1> QED
    BY <1>0, <1>E, <1>1, <1>2, <1>3, <1>4, <1>5, <1>6, <1>7, <1>8, <1>9, <1>10, <1>11,
       <1>12, <1>13, <1>14, <1>15, <1>16, <1>17 DEF SharedNext, Operation

-----------------------------------------------------------------------------
(* The theorems.  Only the last two need the epoch counter not to wrap.     *)

LEMMA SharedInvInit == SharedInit => ManagerInv /\ ContainerInv
  BY ManagerInit, ContainerInit DEF SharedInit

LEMMA SharedInvNext ==
  ManagerInv /\ ContainerInv /\ [SharedNext]_vars => (ManagerInv /\ ContainerInv)'
  BY ManagerInvNext, ContainerTypeNext, CallsNext, LockNext, PayloadNext, HeldNext
     DEF ContainerInv

\* No operation of the container ever stores what its fields and locals cannot
\* hold, the clock within its bound: the recorded size is always a payload's.
THEOREM SharedTypes == SharedSpec => []SharedTypeOK
  <1>1. ManagerInv /\ ContainerInv => SharedTypeOK
    BY DEF ContainerInv
  <1> QED
    BY <1>1, SharedInvInit, SharedInvNext, PTL DEF SharedSpec

\* A reader that was denied, or has released, is not inside a section: access
\* never leaves an epoch entered that nobody will exit.
THEOREM SectionsLeft == SharedSpec => []NoLeakedSection
  <1>1. ManagerInv /\ ContainerInv => NoLeakedSection
    BY DEF ContainerInv, CallsInv, NoLeakedSection
  <1> QED
    BY <1>1, SharedInvInit, SharedInvNext, PTL DEF SharedSpec

\* Swaps that race, with the exchange or under the write lock, each retire a
\* payload of their own that is live and no longer installed, and the strict
\* levels keep size and payload in step.
THEOREM SwapsOwn == SharedSpec => []SwappedOutOnce
  <1>1. ManagerInv /\ ContainerInv => SwappedOutOnce
    BY DEF ContainerInv, PayloadInv, Removing, Usable, SwappedOutOnce
  <1> QED
    BY <1>1, SharedInvInit, SharedInvNext, PTL DEF SharedSpec

\* A payload that access_ebr handed out at any level, or access() under the read
\* lock at a strict level, is not freed before its release, whatever swaps and
\* reclaims run meanwhile.  Nothing is claimed of the read lock of a NO_LEVEL
\* container, which its swap does not take.
THEOREM ReadersSafe == NoWrap => (SharedSpec => []NoUseAfterFree)
  <1> SUFFICES ASSUME NoWrap PROVE SharedSpec => []NoUseAfterFree
    OBVIOUS
  <1>1. SharedInit => IInv
    BY IInvInit DEF SharedInit
  <1>2. IInv /\ ManagerInv /\ ContainerInv /\ [SharedNext]_vars => IInv'
    BY ManagerNext, TypeNext, SlotNext, EpochInvNext, PinNext DEF IInv, ContainerInv
  <1>3. IInv /\ ContainerInv => NoUseAfterFree
    <2> SUFFICES ASSUME IInv, ContainerInv, NEW t \in Threads, held[t] # None,
                        ~ReadLockIgnored(t)
                 PROVE  status[held[t]] # "freed"
      BY DEF NoUseAfterFree
    <2>1. CASE spc[t] \in {"check", "using"}
      BY <2>1 DEF ContainerInv, HeldInv, IInv, PinInv
    <2>2. CASE spc[t] = "usingLocked"
      <3>1. level > 0
        BY <2>2, SharedConstants DEF ReadLockIgnored, ContainerInv, SharedTypeOK
      <3> QED
        BY <2>2, <3>1 DEF ContainerInv, HeldInv, PayloadInv, Usable
    <2> QED
      BY <2>1, <2>2 DEF ContainerInv, HeldInv
  <1> QED
    BY <1>1, <1>2, <1>3, SharedInvInit, SharedInvNext, PTL DEF SharedSpec

\* The container keeps to the rules of the epoch manager: what the manager
\* promises its clients, freeing once and only after the sections that were
\* open, it promises this one.
THEOREM SharedUsesEpochs == NoWrap => (SharedSpec => RefinesContract)
  <1> SUFFICES ASSUME NoWrap PROVE SharedSpec => RefinesContract
    OBVIOUS
  <1>1. SharedInit => EpochInit
    BY DEF SharedInit
  <1>2. ManagerInv /\ ContainerInv /\ [SharedNext]_vars => [EpochNext]_epochVars
    BY ManagerNext DEF ContainerInv
  <1>3. SharedSpec => EpochSpec
    BY <1>1, <1>2, SharedInvInit, SharedInvNext, PTL DEF SharedSpec, EpochSpec
  <1> QED
    BY <1>3, ContractKept
=============================================================================
