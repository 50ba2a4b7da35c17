----------------------------- MODULE EpochProofs -----------------------------
(***************************************************************************)
(* The grace period of src/mem/epoch.c, for any number of threads, pointers, *)
(* slots and buckets, as long as the epoch counter does not wrap; then that  *)
(* its buckets neither lose a retired node nor hold one twice, and that, in  *)
(* all this, the epochs implement the contract of module Reclamation.        *)
(***************************************************************************)
EXTENDS Epoch, TLAPS

Reclaiming == {"scan", "local", "cell", "sweep"}
Scanning   == {"scan", "local"}

(***************************************************************************)
(* Types.  What a call carries and where a reclaim stands must be known for *)
(* the types to be preserved, so they are proved together.                  *)
(***************************************************************************)

\* The lock holder is the one thread inside ttak_epoch_reclaim, and the epoch
\* it loaded is still the global one.
ReclaimInv ==
  /\ \A t \in Threads : pc[t] \in Reclaiming <=> reclaimer = t
  /\ \A t \in Threads : pc[t] \in Reclaiming => ep[t] = globalEpoch
  /\ \A t \in Threads : pc[t] = "local" => scan >= 0
  /\ \A t \in Threads : pc[t] = "sweep" => cell < Cells

\* A call in progress has its argument and, past registration, its slot.
CallInv ==
  /\ \A t \in Threads : pc[t] \in {"retire", "push"} => arg[t] \in Ptrs
  /\ \A t \in Threads : pc[t] \in {"release", "store", "activate"} => tls[t] # NoSlot

TInv == EpochTypeOK /\ ReclaimInv /\ CallInv

LEMMA IncType == \A e \in Epochs : Inc(e) \in Epochs
  BY EpochConstants DEF Inc, Epochs

LEMMA TypeInit == EpochInit => TInv
  BY EpochConstants DEF EpochInit, TInv, EpochTypeOK, ReclaimInv, CallInv, Slots, NoSlot,
     Epochs, Nodes, Reclaiming

LEMMA TypeNext == TInv /\ [EpochNext]_epochVars => TInv'
  <1> SUFFICES ASSUME TInv, [EpochNext]_epochVars PROVE TInv'
    OBVIOUS
  <1> USE EpochConstants
  <1>0. CASE UNCHANGED epochVars
    BY <1>0 DEF epochVars, TInv, EpochTypeOK, ReclaimInv, CallInv, Nodes
  <1>1. ASSUME NEW t \in Threads, Register(t) PROVE TInv'
    <2>1. EpochTypeOK'
      BY <1>1 DEF Register, Claimable, ListWith, TInv, EpochTypeOK, Slots, NoSlot, Epochs,
         Nodes, sweepVars, history
    <2>2. ReclaimInv' /\ CallInv'
      BY <1>1 DEF Register, Claimable, TInv, EpochTypeOK, ReclaimInv, CallInv, NoSlot, Slots,
         sweepVars, Reclaiming
    <2> QED
      BY <2>1, <2>2 DEF TInv
  <1>2. ASSUME NEW t \in Threads, Deregister(t) PROVE TInv'
    BY <1>2 DEF Deregister, LeaveSection, Goto, TInv, EpochTypeOK, ReclaimInv, CallInv,
       Nodes, Slots, NoSlot, sweepVars, Reclaiming
  <1>3. ASSUME NEW t \in Threads, ReleaseNode(t) PROVE TInv'
    BY <1>3 DEF ReleaseNode, Goto, TInv, EpochTypeOK, ReclaimInv, CallInv,
       Nodes, Slots, NoSlot, sweepVars, history, Reclaiming
  <1>4. ASSUME NEW t \in Threads, EnterLoad(t) PROVE TInv'
    BY <1>4 DEF EnterLoad, Goto, TInv, EpochTypeOK, ReclaimInv, CallInv,
       Nodes, Slots, NoSlot, slotVars, sweepVars, history, Reclaiming
  <1>5. ASSUME NEW t \in Threads, EnterStore(t) PROVE TInv'
    BY <1>5 DEF EnterStore, Goto, TInv, EpochTypeOK, ReclaimInv, CallInv,
       Nodes, Slots, NoSlot, sweepVars, history, Reclaiming
  <1>6. ASSUME NEW t \in Threads, EnterActivate(t) PROVE TInv'
    BY <1>6 DEF EnterActivate, Goto, TInv, EpochTypeOK, ReclaimInv, CallInv,
       Nodes, Slots, NoSlot, sweepVars, history, Reclaiming
  <1>7. ASSUME NEW t \in Threads, Exit(t) PROVE TInv'
    BY <1>7 DEF Exit, LeaveSection, TInv, EpochTypeOK, ReclaimInv, CallInv,
       Nodes, Slots, NoSlot, sweepVars, Reclaiming
  <1>8. ASSUME NEW t \in Threads, NEW p \in Ptrs, Retire(t, p) PROVE TInv'
    BY <1>8 DEF Retire, Goto, TInv, EpochTypeOK, ReclaimInv, CallInv,
       Nodes, Slots, NoSlot, slotVars, sweepVars, Reclaiming
  <1>9. ASSUME NEW t \in Threads, RetireLoad(t) PROVE TInv'
    BY <1>9 DEF RetireLoad, Goto, TInv, EpochTypeOK, ReclaimInv, CallInv,
       Nodes, Slots, NoSlot, slotVars, sweepVars, history, Reclaiming
  <1>10. ASSUME NEW t \in Threads, RetirePush(t) PROVE TInv'
    BY <1>10 DEF RetirePush, Goto, TInv, EpochTypeOK, ReclaimInv, CallInv,
       Nodes, Slots, NoSlot, slotVars, sweepVars, history, Reclaiming
  <1>11. ASSUME NEW t \in Threads, ReclaimBegin(t) PROVE TInv'
    BY <1>11 DEF ReclaimBegin, Goto, TInv, EpochTypeOK, ReclaimInv, CallInv,
       Nodes, Slots, NoSlot, slotVars, history, Reclaiming
  <1>12. ASSUME NEW t \in Threads, ReclaimScan(t) PROVE TInv'
    <2> USE <1>12 DEF ReclaimScan, TInv
    <2>1. EpochTypeOK'
      BY DEF EpochTypeOK, Nodes, Slots, NoSlot, slotVars, history
    <2>2. ReclaimInv'
      <3>1. CASE active[scan]
        BY <3>1 DEF EpochTypeOK, ReclaimInv, Reclaiming
      <3>2. CASE ~active[scan]
        BY <3>2 DEF EpochTypeOK, ReclaimInv, Reclaiming
      <3> QED
        BY <3>1, <3>2
    <2>3. CallInv'
      BY DEF EpochTypeOK, CallInv, slotVars
    <2> QED
      BY <2>1, <2>2, <2>3
  <1>13. ASSUME NEW t \in Threads, ReclaimLocal(t) PROVE TInv'
    <2> USE <1>13 DEF ReclaimLocal, Unlock, TInv
    <2>0. scan' \in Slots \cup {NoSlot}
      BY DEF EpochTypeOK, ReclaimInv, Slots, NoSlot
    <2>1. EpochTypeOK'
      BY <2>0 DEF EpochTypeOK, Nodes, slotVars, history
    <2>2. ReclaimInv'
      <3>1. CASE Lagging(localEpoch[scan], ep[t])
        BY <3>1, EpochConstants DEF EpochTypeOK, ReclaimInv, Reclaiming
      <3>2. CASE ~Lagging(localEpoch[scan], ep[t])
        BY <3>2 DEF EpochTypeOK, ReclaimInv, Reclaiming
      <3> QED
        BY <3>1, <3>2
    <2>3. CallInv'
      BY DEF EpochTypeOK, CallInv, slotVars
    <2> QED
      BY <2>1, <2>2, <2>3
  <1>14. ASSUME NEW t \in Threads, ReclaimAdvance(t) PROVE TInv'
    BY <1>14, IncType DEF ReclaimAdvance, Goto, TInv, EpochTypeOK, ReclaimInv, CallInv,
       Nodes, Slots, NoSlot, slotVars, history, Reclaiming
  <1>15. ASSUME NEW t \in Threads, ReclaimTake(t) PROVE TInv'
    BY <1>15 DEF ReclaimTake, Goto, TInv, EpochTypeOK, ReclaimInv, CallInv,
       Nodes, Slots, NoSlot, slotVars, history, Reclaiming
  <1>16. ASSUME NEW t \in Threads, ReclaimFree(t) PROVE TInv'
    BY <1>16 DEF ReclaimFree, TInv, EpochTypeOK, ReclaimInv, CallInv,
       Nodes, Slots, NoSlot, slotVars, Reclaiming
  <1>17. ASSUME NEW t \in Threads, ReclaimSplice(t) PROVE TInv'
    BY <1>17 DEF ReclaimSplice, Spliced, Goto, TInv, EpochTypeOK, ReclaimInv, CallInv,
       Nodes, Slots, NoSlot, slotVars, history, Reclaiming
  <1>18. ASSUME NEW t \in Threads, ReclaimEnd(t) PROVE TInv'
    BY <1>18 DEF ReclaimEnd, Unlock, TInv, EpochTypeOK, ReclaimInv, CallInv,
       Nodes, Slots, NoSlot, slotVars, sweepVars, history, Reclaiming
  <1> QED
    BY <1>0, <1>1, <1>2, <1>3, <1>4, <1>5, <1>6, <1>7, <1>8, <1>9, <1>10, <1>11, <1>12,
       <1>13, <1>14, <1>15, <1>16, <1>17, <1>18 DEF EpochNext, Internal

\* The types of the epoch manager hold in every behaviour, wrapped counter or
\* not: no call ever indexes a slot, bucket or pointer it does not have.
THEOREM TypeCorrect == EpochSpec => []EpochTypeOK
  <1>1. EpochInit => TInv
    BY TypeInit
  <1>2. TInv /\ [EpochNext]_epochVars => TInv'
    BY TypeNext
  <1>3. TInv => EpochTypeOK
    BY DEF TInv
  <1> QED
    BY <1>1, <1>2, <1>3, PTL DEF EpochSpec

-----------------------------------------------------------------------------
(***************************************************************************)
(* A slot serves one thread.  A slot whose owner is past deregistration's   *)
(* first store, or before enter's last, is not in a section.                *)
(***************************************************************************)
SlotInv ==
  /\ SlotExclusive
  /\ \A t \in Threads : tls[t] # NoSlot => owned[tls[t]] /\ tls[t] < threadList
  /\ \A t \in Threads : pc[t] \in {"release", "store", "activate"} => ~active[tls[t]]

LEMMA SlotNext == TInv /\ SlotInv /\ [EpochNext]_epochVars => SlotInv'
  <1> SUFFICES ASSUME TInv, SlotInv, [EpochNext]_epochVars PROVE SlotInv'
    OBVIOUS
  <1> USE EpochConstants DEF TInv, EpochTypeOK, CallInv, SlotInv, SlotExclusive, Slots, NoSlot
  <1>0. CASE UNCHANGED epochVars
    BY <1>0 DEF epochVars
  <1>1. ASSUME NEW t \in Threads, Register(t) PROVE SlotInv'
    BY <1>1 DEF Register, Claimable, ListWith
  <1>2. ASSUME NEW t \in Threads, Deregister(t) PROVE SlotInv'
    BY <1>2 DEF Deregister, LeaveSection, Goto
  <1>3. ASSUME NEW t \in Threads, ReleaseNode(t) PROVE SlotInv'
    BY <1>3 DEF ReleaseNode, Goto
  <1>4. ASSUME NEW t \in Threads, EnterLoad(t) PROVE SlotInv'
    BY <1>4 DEF EnterLoad, Goto, slotVars, InSection
  <1>5. ASSUME NEW t \in Threads, EnterStore(t) PROVE SlotInv'
    BY <1>5 DEF EnterStore, Goto
  <1>6. ASSUME NEW t \in Threads, EnterActivate(t) PROVE SlotInv'
    BY <1>6 DEF EnterActivate, Goto
  <1>7. ASSUME NEW t \in Threads, Exit(t) PROVE SlotInv'
    BY <1>7 DEF Exit, LeaveSection, InSection
  <1>8. ASSUME NEW t \in Threads, NEW p \in Ptrs, Retire(t, p) PROVE SlotInv'
    BY <1>8 DEF Retire, Goto, slotVars
  <1>9. ASSUME NEW t \in Threads, RetireLoad(t) PROVE SlotInv'
    BY <1>9 DEF RetireLoad, Goto, slotVars
  <1>10. ASSUME NEW t \in Threads, RetirePush(t) PROVE SlotInv'
    BY <1>10 DEF RetirePush, Goto, slotVars
  <1>11. ASSUME NEW t \in Threads, ReclaimBegin(t) PROVE SlotInv'
    BY <1>11 DEF ReclaimBegin, Goto, slotVars
  <1>12. ASSUME NEW t \in Threads, ReclaimScan(t) PROVE SlotInv'
    BY <1>12 DEF ReclaimScan, slotVars
  <1>13. ASSUME NEW t \in Threads, ReclaimLocal(t) PROVE SlotInv'
    BY <1>13 DEF ReclaimLocal, Unlock, slotVars
  <1>14. ASSUME NEW t \in Threads, ReclaimAdvance(t) PROVE SlotInv'
    BY <1>14 DEF ReclaimAdvance, Goto, slotVars
  <1>15. ASSUME NEW t \in Threads, ReclaimTake(t) PROVE SlotInv'
    BY <1>15 DEF ReclaimTake, Goto, slotVars
  <1>16. ASSUME NEW t \in Threads, ReclaimFree(t) PROVE SlotInv'
    BY <1>16 DEF ReclaimFree, slotVars
  <1>17. ASSUME NEW t \in Threads, ReclaimSplice(t) PROVE SlotInv'
    BY <1>17 DEF ReclaimSplice, Spliced, Goto, slotVars
  <1>18. ASSUME NEW t \in Threads, ReclaimEnd(t) PROVE SlotInv'
    BY <1>18 DEF ReclaimEnd, Unlock, slotVars
  <1> QED
    BY <1>0, <1>1, <1>2, <1>3, <1>4, <1>5, <1>6, <1>7, <1>8, <1>9, <1>10, <1>11, <1>12,
       <1>13, <1>14, <1>15, <1>16, <1>17, <1>18 DEF EpochNext, Internal

\* No two threads ever work on the same per-thread state, however the threads
\* that leave and those that look for a free node interleave.
THEOREM SlotsExclusive == EpochSpec => []SlotExclusive
  <1>1. EpochInit => TInv /\ SlotInv
    BY TypeInit DEF EpochInit, SlotInv, SlotExclusive, NoSlot
  <1>2. TInv /\ SlotInv /\ [EpochNext]_epochVars => (TInv /\ SlotInv)'
    BY TypeNext, SlotNext
  <1>3. SlotInv => SlotExclusive
    BY DEF SlotInv
  <1> QED
    BY <1>1, <1>2, <1>3, PTL DEF EpochSpec

-----------------------------------------------------------------------------
(***************************************************************************)
(* The grace period.  The counter must not wrap: ReclaimLocal compares      *)
(* epochs with <, which a reader at EpochMod - 1 escapes.                   *)
(***************************************************************************)
NoWrap == EpochLimit < EpochMod

\* Nothing the library has loaded or stored is ahead of the global epoch.
EpochInv ==
  /\ globalEpoch <= EpochLimit
  /\ \A t \in Threads : pc[t] \in Scanning => globalEpoch < EpochLimit
  /\ \A t \in Threads : ep[t] <= globalEpoch
  /\ \A s \in Slots : localEpoch[s] <= globalEpoch

\* t's section keeps the epoch from moving more than one past e: either it has
\* not moved since e, or it has and no scan in progress can miss t.
Holds(t, e) ==
  \/ e = globalEpoch
  \/ /\ e + 1 = globalEpoch
     /\ localEpoch[tls[t]] < globalEpoch
     /\ \A u \in Threads : pc[u] \in Scanning => tls[t] <= scan

\* A node that carries pointer p and epoch e and is yet to be freed.
NodeOK(p, e) ==
  /\ e <= globalEpoch
  /\ status[p] # "live"
  /\ \A t \in pinned[p] : Holds(t, e)

PinInv ==
  /\ \A p \in Ptrs : \A t \in pinned[p] : InSection(t) /\ status[p] = "retired"
  /\ \A t \in Threads : pc[t] = "retire" => status[arg[t]] # "live"
  /\ \A t \in Threads : pc[t] = "push" => NodeOK(arg[t], ep[t])
  /\ \A c \in 0 .. Cells - 1 : \A n \in bucket[c] : NodeOK(n.ptr, n.epoch)
  /\ \A n \in list : NodeOK(n.ptr, n.epoch)

IInv == TInv /\ SlotInv /\ EpochInv /\ PinInv

LEMMA EpochInvNext == NoWrap /\ TInv /\ EpochInv /\ [EpochNext]_epochVars => EpochInv'
  <1> SUFFICES ASSUME NoWrap, TInv, EpochInv, [EpochNext]_epochVars PROVE EpochInv'
    OBVIOUS
  <1> USE EpochConstants DEF TInv, EpochTypeOK, CallInv, EpochInv, Slots, NoSlot, Epochs,
          Scanning
  <1>0. CASE UNCHANGED epochVars
    BY <1>0 DEF epochVars
  <1>1. ASSUME NEW t \in Threads, Register(t) PROVE EpochInv'
    BY <1>1 DEF Register, Claimable, ListWith
  <1>2. ASSUME NEW t \in Threads, Deregister(t) PROVE EpochInv'
    BY <1>2 DEF Deregister, Goto
  <1>3. ASSUME NEW t \in Threads, ReleaseNode(t) PROVE EpochInv'
    BY <1>3 DEF ReleaseNode, Goto
  <1>4. ASSUME NEW t \in Threads, EnterLoad(t) PROVE EpochInv'
    BY <1>4 DEF EnterLoad, Goto, slotVars
  <1>5. ASSUME NEW t \in Threads, EnterStore(t) PROVE EpochInv'
    BY <1>5 DEF EnterStore, Goto
  <1>6. ASSUME NEW t \in Threads, EnterActivate(t) PROVE EpochInv'
    BY <1>6 DEF EnterActivate, Goto
  <1>7. ASSUME NEW t \in Threads, Exit(t) PROVE EpochInv'
    BY <1>7 DEF Exit
  <1>8. ASSUME NEW t \in Threads, NEW p \in Ptrs, Retire(t, p) PROVE EpochInv'
    BY <1>8 DEF Retire, Goto, slotVars
  <1>9. ASSUME NEW t \in Threads, RetireLoad(t) PROVE EpochInv'
    BY <1>9 DEF RetireLoad, Goto, slotVars
  <1>10. ASSUME NEW t \in Threads, RetirePush(t) PROVE EpochInv'
    BY <1>10 DEF RetirePush, Goto, slotVars
  <1>11. ASSUME NEW t \in Threads, ReclaimBegin(t) PROVE EpochInv'
    BY <1>11 DEF ReclaimBegin, Goto, slotVars
  <1>12. ASSUME NEW t \in Threads, ReclaimScan(t) PROVE EpochInv'
    BY <1>12 DEF ReclaimScan, slotVars
  <1>13. ASSUME NEW t \in Threads, ReclaimLocal(t) PROVE EpochInv'
    BY <1>13 DEF ReclaimLocal, Unlock, slotVars
  <1>14. ASSUME NEW t \in Threads, ReclaimAdvance(t) PROVE EpochInv'
    <2>1. globalEpoch' = globalEpoch + 1 /\ globalEpoch + 1 <= EpochLimit
      BY <1>14 DEF ReclaimAdvance, Goto, Inc, NoWrap
    <2>2. \A u \in Threads : u # t => pc[u] \notin Reclaiming
      BY <1>14 DEF ReclaimAdvance, Goto, ReclaimInv, Reclaiming
    <2> QED
      BY <1>14, <2>1, <2>2 DEF ReclaimAdvance, Goto, slotVars, Inc, NoWrap, Reclaiming
  <1>15. ASSUME NEW t \in Threads, ReclaimTake(t) PROVE EpochInv'
    BY <1>15 DEF ReclaimTake, Goto, slotVars
  <1>16. ASSUME NEW t \in Threads, ReclaimFree(t) PROVE EpochInv'
    BY <1>16 DEF ReclaimFree, slotVars
  <1>17. ASSUME NEW t \in Threads, ReclaimSplice(t) PROVE EpochInv'
    BY <1>17 DEF ReclaimSplice, Spliced, Goto, slotVars
  <1>18. ASSUME NEW t \in Threads, ReclaimEnd(t) PROVE EpochInv'
    BY <1>18 DEF ReclaimEnd, Unlock, slotVars
  <1> QED
    BY <1>0, <1>1, <1>2, <1>3, <1>4, <1>5, <1>6, <1>7, <1>8, <1>9, <1>10, <1>11, <1>12,
       <1>13, <1>14, <1>15, <1>16, <1>17, <1>18 DEF EpochNext, Internal

\* No step lets a pending node lose its protection.
LEMMA NodeStable ==
  ASSUME NoWrap, IInv, [EpochNext]_epochVars,
         NEW p \in Ptrs, NEW e \in Epochs, NodeOK(p, e)
  PROVE  NodeOK(p, e)'
  <1> USE EpochConstants DEF IInv, TInv, EpochTypeOK, ReclaimInv, CallInv, SlotInv,
          SlotExclusive, EpochInv, PinInv, InSection, NodeOK, Holds, Slots, NoSlot, Epochs,
          Scanning, Reclaiming, sweepVars, history
  <1>0. CASE UNCHANGED epochVars
    BY <1>0 DEF epochVars
  <1>1. ASSUME NEW t \in Threads, Register(t) PROVE NodeOK(p, e)'
    BY <1>1 DEF Register, Claimable, ListWith
  <1>2. ASSUME NEW t \in Threads, Deregister(t) PROVE NodeOK(p, e)'
    BY <1>2 DEF Deregister, LeaveSection, Goto
  <1>3. ASSUME NEW t \in Threads, ReleaseNode(t) PROVE NodeOK(p, e)'
    BY <1>3 DEF ReleaseNode, Goto
  <1>4. ASSUME NEW t \in Threads, EnterLoad(t) PROVE NodeOK(p, e)'
    BY <1>4 DEF EnterLoad, Goto, slotVars
  <1>5. ASSUME NEW t \in Threads, EnterStore(t) PROVE NodeOK(p, e)'
    BY <1>5 DEF EnterStore, Goto
  <1>6. ASSUME NEW t \in Threads, EnterActivate(t) PROVE NodeOK(p, e)'
    BY <1>6 DEF EnterActivate, Goto
  <1>7. ASSUME NEW t \in Threads, Exit(t) PROVE NodeOK(p, e)'
    BY <1>7 DEF Exit, LeaveSection
  <1>8. ASSUME NEW t \in Threads, NEW q \in Ptrs, Retire(t, q) PROVE NodeOK(p, e)'
    BY <1>8 DEF Retire, Goto, slotVars
  <1>9. ASSUME NEW t \in Threads, RetireLoad(t) PROVE NodeOK(p, e)'
    BY <1>9 DEF RetireLoad, Goto, slotVars
  <1>10. ASSUME NEW t \in Threads, RetirePush(t) PROVE NodeOK(p, e)'
    BY <1>10 DEF RetirePush, Goto, slotVars
  <1>11. ASSUME NEW t \in Threads, ReclaimBegin(t) PROVE NodeOK(p, e)'
    BY <1>11 DEF ReclaimBegin, Goto, slotVars
  <1>12. ASSUME NEW t \in Threads, ReclaimScan(t) PROVE NodeOK(p, e)'
    BY <1>12 DEF ReclaimScan, slotVars
  <1>13. ASSUME NEW t \in Threads, ReclaimLocal(t) PROVE NodeOK(p, e)'
    BY <1>13 DEF ReclaimLocal, Unlock, slotVars, Lagging
  <1>14. ASSUME NEW t \in Threads, ReclaimAdvance(t) PROVE NodeOK(p, e)'
    <2>1. globalEpoch' = globalEpoch + 1
      BY <1>14 DEF ReclaimAdvance, Goto, Inc, NoWrap
    <2>2. \A u \in Threads : pc'[u] \notin Scanning
      BY <1>14 DEF ReclaimAdvance, Goto
    <2>3. \A u \in pinned[p] : e = globalEpoch /\ localEpoch[tls[u]] <= globalEpoch
      BY <1>14 DEF ReclaimAdvance, Goto
    <2> QED
      BY <1>14, <2>1, <2>2, <2>3 DEF ReclaimAdvance, Goto, slotVars
  <1>15. ASSUME NEW t \in Threads, ReclaimTake(t) PROVE NodeOK(p, e)'
    BY <1>15 DEF ReclaimTake, Goto, slotVars
  <1>16. ASSUME NEW t \in Threads, ReclaimFree(t) PROVE NodeOK(p, e)'
    BY <1>16 DEF ReclaimFree, slotVars
  <1>17. ASSUME NEW t \in Threads, ReclaimSplice(t) PROVE NodeOK(p, e)'
    BY <1>17 DEF ReclaimSplice, Spliced, Goto, slotVars
  <1>18. ASSUME NEW t \in Threads, ReclaimEnd(t) PROVE NodeOK(p, e)'
    BY <1>18 DEF ReclaimEnd, Unlock, slotVars
  <1> QED
    BY <1>0, <1>1, <1>2, <1>3, <1>4, <1>5, <1>6, <1>7, <1>8, <1>9, <1>10, <1>11, <1>12,
       <1>13, <1>14, <1>15, <1>16, <1>17, <1>18 DEF EpochNext, Internal

LEMMA HoldsBound ==
  \A t \in Threads, e \in Epochs : Holds(t, e) => e = globalEpoch \/ e + 1 = globalEpoch
  BY DEF Holds

\* A step that leaves the retired pointers alone keeps PinInv if it ends no
\* section of a pinning thread.
LEMMA PinStutter ==
  ASSUME PinInv, UNCHANGED <<arg, ep, bucket, list, status, pinned>>,
         EpochTypeOK, EpochTypeOK',
         \A t \in Threads : pc'[t] \in {"retire", "push"} => pc'[t] = pc[t],
         \A t \in Threads : InSection(t) => InSection(t)',
         \A p \in Ptrs, e \in Epochs : NodeOK(p, e) => NodeOK(p, e)',
         CallInv
  PROVE  PinInv'
  <1>1. \A p \in Ptrs : \A t \in pinned[p] : t \in Threads
    BY DEF EpochTypeOK
  <1>2. \A p \in Ptrs : \A t \in pinned'[p] : InSection(t)' /\ status'[p] = "retired"
    BY <1>1 DEF PinInv
  <1>3. \A t \in Threads : pc'[t] = "retire" => status'[arg'[t]] # "live"
    BY DEF PinInv
  <1>4. \A t \in Threads : pc'[t] = "push" => NodeOK(arg[t], ep[t])'
    BY DEF PinInv, CallInv, EpochTypeOK
  <1>5. \A c \in 0 .. Cells - 1 : \A n \in bucket'[c] : NodeOK(n.ptr, n.epoch)'
    BY DEF PinInv, EpochTypeOK, Nodes
  <1>6. \A n \in list' : NodeOK(n.ptr, n.epoch)'
    BY DEF PinInv, EpochTypeOK, Nodes
  <1> QED
    BY <1>2, <1>3, <1>4, <1>5, <1>6 DEF PinInv

LEMMA PinNext == NoWrap /\ IInv /\ [EpochNext]_epochVars => PinInv'
  <1> SUFFICES ASSUME NoWrap, IInv, [EpochNext]_epochVars PROVE PinInv'
    OBVIOUS
  <1> USE EpochConstants DEF IInv, TInv, EpochTypeOK, ReclaimInv, CallInv, SlotInv,
          SlotExclusive, EpochInv, PinInv, InSection, Slots, NoSlot, Epochs,
          Reclaiming, Nodes, sweepVars, history
  <1>N. \A p \in Ptrs, e \in Epochs : NodeOK(p, e) => NodeOK(p, e)'
    BY NodeStable
  <1>T. TInv'
    BY TypeNext
  <1>0. CASE UNCHANGED epochVars
    BY <1>0, <1>N DEF epochVars
  <1>1. ASSUME NEW t \in Threads, Register(t) PROVE PinInv'
    <2>1. /\ UNCHANGED <<arg, ep, bucket, list, status, pinned, pc>>
          /\ \A u \in Threads : InSection(u) => InSection(u)'
      BY <1>1 DEF Register, Claimable, ListWith
    <2> QED
      BY <2>1, <1>N, <1>T, PinStutter
  <1>2. ASSUME NEW t \in Threads, Deregister(t) PROVE PinInv'
    <2>1. /\ UNCHANGED <<arg, ep, bucket, list, status, tls>>
          /\ \A u \in Threads : pc'[u] \in {"retire", "push"} => pc'[u] = pc[u]
          /\ \A p \in Ptrs : pinned'[p] = pinned[p] \ {(t)}
          /\ \A u \in Threads : InSection(u) /\ u # t => InSection(u)'
      BY <1>2 DEF Deregister, LeaveSection, Goto
    <2> QED
      BY <2>1, <1>N
  <1>3. ASSUME NEW t \in Threads, ReleaseNode(t) PROVE PinInv'
    <2>1. /\ UNCHANGED <<arg, ep, bucket, list, status, pinned>>
          /\ \A u \in Threads : pc'[u] \in {"retire", "push"} => pc'[u] = pc[u]
          /\ \A u \in Threads : InSection(u) => InSection(u)'
      BY <1>3 DEF ReleaseNode, Goto
    <2> QED
      BY <2>1, <1>N, <1>T, PinStutter
  <1>4. ASSUME NEW t \in Threads, EnterLoad(t) PROVE PinInv'
    <2>1. /\ UNCHANGED <<arg, bucket, list, status, pinned, active, tls>>
          /\ \A u \in Threads : pc'[u] \in {"retire", "push"} => pc'[u] = pc[u] /\ ep'[u] = ep[u]
      BY <1>4 DEF EnterLoad, Goto, slotVars
    <2> QED
      BY <2>1, <1>N, SMTT(30)
  <1>5. ASSUME NEW t \in Threads, EnterStore(t) PROVE PinInv'
    BY <1>5, <1>N DEF EnterStore, Goto
  <1>6. ASSUME NEW t \in Threads, EnterActivate(t) PROVE PinInv'
    BY <1>6, <1>N DEF EnterActivate, Goto
  <1>7. ASSUME NEW t \in Threads, Exit(t) PROVE PinInv'
    BY <1>7, <1>N DEF Exit, LeaveSection
  <1>8. ASSUME NEW t \in Threads, NEW q \in Ptrs, Retire(t, q) PROVE PinInv'
    BY <1>8, <1>N DEF Retire, Goto, slotVars
  <1>9. ASSUME NEW t \in Threads, RetireLoad(t) PROVE PinInv'
    <2>1. \A u \in pinned[arg[t]] : Holds(u, globalEpoch)'
      BY <1>9 DEF RetireLoad, Goto, Holds
    <2>2. NodeOK(arg[t], globalEpoch)'
      BY <1>9, <2>1 DEF RetireLoad, Goto, NodeOK
    <2> QED
      BY <1>9, <1>N, <2>2 DEF RetireLoad, Goto, slotVars
  <1>10. ASSUME NEW t \in Threads, RetirePush(t) PROVE PinInv'
    <2>1. PICK c \in 0 .. Cells - 1 :
            bucket' = [bucket EXCEPT ![c] = @ \cup {[ptr |-> arg[t], epoch |-> ep[t]]}]
      BY <1>10 DEF RetirePush
    <2>2. \A d \in 0 .. Cells - 1 : \A n \in bucket'[d] :
             n \in bucket[d] \/ (n.ptr = arg[t] /\ n.epoch = ep[t])
      BY <2>1
    <2>3. \A d \in 0 .. Cells - 1 : \A n \in bucket'[d] : NodeOK(n.ptr, n.epoch)
      BY <1>10, <2>2 DEF RetirePush, Goto
    <2>4. \A d \in 0 .. Cells - 1 : \A n \in bucket'[d] : NodeOK(n.ptr, n.epoch)'
      <3> SUFFICES ASSUME NEW d \in 0 .. Cells - 1, NEW n \in bucket'[d]
                   PROVE  NodeOK(n.ptr, n.epoch)'
        OBVIOUS
      <3>1. n \in Nodes
        BY <1>T
      <3> QED
        BY <2>3, <3>1, <1>N
    <2> QED
      BY <1>10, <1>N, <2>4 DEF RetirePush, Goto, slotVars
  <1>11. ASSUME NEW t \in Threads, ReclaimBegin(t) PROVE PinInv'
    BY <1>11, <1>N DEF ReclaimBegin, Goto, slotVars
  <1>12. ASSUME NEW t \in Threads, ReclaimScan(t) PROVE PinInv'
    <2>1. /\ UNCHANGED <<arg, ep, bucket, list, status, pinned, active, tls>>
          /\ \A u \in Threads : pc'[u] \in {"retire", "push"} => pc'[u] = pc[u]
      <3>1. CASE active[scan]
        BY <1>12, <3>1 DEF ReclaimScan, slotVars
      <3>2. CASE ~active[scan]
        BY <1>12, <3>2 DEF ReclaimScan, slotVars
      <3> QED
        BY <3>1, <3>2
    <2> QED
      BY <2>1, <1>N, <1>T, PinStutter
  <1>13. ASSUME NEW t \in Threads, ReclaimLocal(t) PROVE PinInv'
    <2>1. /\ UNCHANGED <<arg, ep, bucket, list, status, pinned, active, tls>>
          /\ \A u \in Threads : pc'[u] \in {"retire", "push"} => pc'[u] = pc[u]
      <3>1. CASE Unlock(t)
        BY <1>13, <3>1 DEF ReclaimLocal, Unlock, slotVars
      <3>2. CASE pc' = [pc EXCEPT ![t] = "scan"]
        BY <1>13, <3>2 DEF ReclaimLocal, slotVars
      <3> QED
        BY <1>13, <3>1, <3>2 DEF ReclaimLocal
    <2> QED
      BY <2>1, <1>N, <1>T, PinStutter
  <1>14. ASSUME NEW t \in Threads, ReclaimAdvance(t) PROVE PinInv'
    BY <1>14, <1>N DEF ReclaimAdvance, Goto, slotVars
  <1>15. ASSUME NEW t \in Threads, ReclaimTake(t) PROVE PinInv'
    BY <1>15, <1>N DEF ReclaimTake, Goto, slotVars
  <1>16. ASSUME NEW t \in Threads, ReclaimFree(t) PROVE PinInv'
    <2>1. PICK n \in list : /\ Aged(ep[t], n)
                            /\ status' = [status EXCEPT ![n.ptr] = "freed"]
                            /\ list' = list \ {n}
      BY <1>16 DEF ReclaimFree
    <2>2. ep[t] = globalEpoch
      BY <1>16 DEF ReclaimFree
    <2>3. n.epoch \in Nat /\ globalEpoch \in Nat /\ n.epoch + 2 <= globalEpoch
      BY <2>1, <2>2 DEF Aged, Age, Grace, NodeOK
    <2>4. \A u \in pinned[n.ptr] : Holds(u, n.epoch)
      BY DEF NodeOK
    <2>5. pinned[n.ptr] = {}
      BY <2>3, <2>4, HoldsBound
    <2> QED
      BY <1>16, <1>N, <2>1, <2>5 DEF ReclaimFree, slotVars
  <1>17. ASSUME NEW t \in Threads, ReclaimSplice(t) PROVE PinInv'
    BY <1>17, <1>N DEF ReclaimSplice, Spliced, Goto, slotVars
  <1>18. ASSUME NEW t \in Threads, ReclaimEnd(t) PROVE PinInv'
    BY <1>18, <1>N DEF ReclaimEnd, Unlock, slotVars
  <1> QED
    BY <1>0, <1>1, <1>2, <1>3, <1>4, <1>5, <1>6, <1>7, <1>8, <1>9, <1>10, <1>11, <1>12,
       <1>13, <1>14, <1>15, <1>16, <1>17, <1>18 DEF EpochNext, Internal

LEMMA IInvInit == EpochInit => IInv
  BY TypeInit, EpochConstants DEF EpochInit, IInv, SlotInv, SlotExclusive, EpochInv, PinInv,
     NoSlot, Slots, Scanning

LEMMA IInvSafe == IInv => GraceSafe
  BY DEF IInv, TInv, EpochTypeOK, PinInv, GraceSafe

\* The contract of reclamation: unless the counter wraps, no pointer is freed
\* while a section that was open when it was retired is still open.
THEOREM GracePeriod == NoWrap => (EpochSpec => []GraceSafe)
  <1> SUFFICES ASSUME NoWrap PROVE EpochSpec => []GraceSafe
    OBVIOUS
  <1>1. EpochInit => IInv
    BY IInvInit
  <1>2. IInv /\ [EpochNext]_epochVars => IInv'
    BY TypeNext, SlotNext, EpochInvNext, PinNext DEF IInv
  <1>3. IInv => GraceSafe
    BY IInvSafe
  <1> QED
    BY <1>1, <1>2, <1>3, PTL DEF EpochSpec

-----------------------------------------------------------------------------
(* Nodes are kept, and the contract. *)

Row == 0 .. Cells - 1

-----------------------------------------------------------------------------
(* Where retired nodes are.  RetiredOnce counts places; the invariant says   *)
(* the same without tuples: what is in a place is retired, what is retired    *)
(* is in a place, and no two places hold the same pointer.                    *)

\* A thread carries a pointer only inside ttak_epoch_retire, and nodes are
\* detached from the buckets only while a bucket is swept.
Carrying ==
  /\ \A t \in Threads : pc[t] \notin {"retire", "push"} => arg[t] = None
  /\ list # {} => \E t \in Threads : pc[t] = "sweep"

\* What is in a place is retired and not yet freed.
PlacedRetired ==
  /\ \A t \in Threads : arg[t] # None => status[arg[t]] = "retired"
  /\ \A n \in list : status[n.ptr] = "retired"
  /\ \A c \in Row : \A n \in bucket[c] : status[n.ptr] = "retired"

\* What is retired and not yet freed is in a place.
RetiredPlaced ==
  \A p \in Ptrs : status[p] = "retired" =>
    \/ \E t \in Threads : arg[t] = p
    \/ \E n \in list : n.ptr = p
    \/ \E c \in Row : \E n \in bucket[c] : n.ptr = p

\* No two places hold the same pointer.
CallsApart == \A t, u \in Threads : arg[t] # None /\ arg[t] = arg[u] => t = u
CallsOff   == \A t \in Threads :
                /\ \A n \in list : arg[t] # n.ptr
                /\ \A c \in Row : \A n \in bucket[c] : arg[t] # n.ptr
ListApart  == /\ \A n, m \in list : n.ptr = m.ptr => n = m
              /\ \A n \in list : \A c \in Row : \A m \in bucket[c] : n.ptr # m.ptr
CellsApart == \A c, d \in Row : \A n \in bucket[c] : \A m \in bucket[d] :
                n.ptr = m.ptr => c = d /\ n = m

PlaceInv ==
  /\ Carrying /\ PlacedRetired /\ RetiredPlaced
  /\ CallsApart /\ CallsOff /\ ListApart /\ CellsApart

LEMMA PlaceInit == EpochInit => PlaceInv
  BY EpochConstants DEF EpochInit, PlaceInv, Carrying, PlacedRetired, RetiredPlaced,
     CallsApart, CallsOff, ListApart, CellsApart, Row

\* Steps that move no node and free none.
LEMMA PlaceStutter ==
  ASSUME PlaceInv, UNCHANGED <<arg, bucket, list, status>>,
         \A t \in Threads : pc[t] \in {"retire", "push"} <=> pc'[t] \in {"retire", "push"},
         (\E t \in Threads : pc[t] = "sweep") => \E t \in Threads : pc'[t] = "sweep"
  PROVE  PlaceInv'
  BY DEF PlaceInv, Carrying, PlacedRetired, RetiredPlaced, CallsApart, CallsOff, ListApart,
     CellsApart

LEMMA PlaceNext == TInv /\ PlaceInv /\ [EpochNext]_epochVars => PlaceInv'
  <1> SUFFICES ASSUME TInv, PlaceInv, [EpochNext]_epochVars PROVE PlaceInv'
    OBVIOUS
  <1> USE EpochConstants DEF TInv, EpochTypeOK, sweepVars, history
  <1>0. CASE UNCHANGED epochVars
    BY <1>0, PlaceStutter DEF epochVars
  <1>1. ASSUME NEW t \in Threads, Register(t) PROVE PlaceInv'
    BY <1>1, PlaceStutter DEF Register
  <1>2. ASSUME NEW t \in Threads, Deregister(t) PROVE PlaceInv'
    BY <1>2, PlaceStutter DEF Deregister, Goto
  <1>3. ASSUME NEW t \in Threads, ReleaseNode(t) PROVE PlaceInv'
    BY <1>3, PlaceStutter DEF ReleaseNode, Goto
  <1>4. ASSUME NEW t \in Threads, EnterLoad(t) PROVE PlaceInv'
    BY <1>4, PlaceStutter DEF EnterLoad, Goto
  <1>5. ASSUME NEW t \in Threads, EnterStore(t) PROVE PlaceInv'
    BY <1>5, PlaceStutter DEF EnterStore, Goto
  <1>6. ASSUME NEW t \in Threads, EnterActivate(t) PROVE PlaceInv'
    BY <1>6, PlaceStutter DEF EnterActivate, Goto
  <1>7. ASSUME NEW t \in Threads, Exit(t) PROVE PlaceInv'
    BY <1>7, PlaceStutter DEF Exit
  <1>8. ASSUME NEW t \in Threads, NEW p \in Ptrs, Retire(t, p) PROVE PlaceInv'
    <2> USE <1>8 DEF Retire, Goto, PlaceInv
    <2>1. Carrying'
      BY DEF Carrying
    <2>2. PlacedRetired'
      BY DEF PlacedRetired, Carrying, Nodes, Row
    <2>5. RetiredPlaced'
      BY DEF RetiredPlaced, Carrying, Nodes, Row
    <2>3. CallsApart' /\ CallsOff'
      BY DEF CallsApart, CallsOff, PlacedRetired, Carrying, Nodes, Row
    <2>4. ListApart' /\ CellsApart'
      BY DEF ListApart, CellsApart
    <2> QED
      BY <2>1, <2>2, <2>3, <2>4, <2>5
  <1>9. ASSUME NEW t \in Threads, RetireLoad(t) PROVE PlaceInv'
    BY <1>9, PlaceStutter DEF RetireLoad, Goto
  <1>10. ASSUME NEW t \in Threads, RetirePush(t) PROVE PlaceInv'
    <2> DEFINE node == [ptr |-> arg[t], epoch |-> ep[t]]
    <2>1. PICK c \in Row : bucket' = [bucket EXCEPT ![c] = @ \cup {node}]
      BY <1>10 DEF RetirePush, Row
    <2>2. /\ arg[t] \in Ptrs /\ arg[t] # None /\ node.ptr = arg[t]
          /\ \A d \in Row : \A n \in bucket'[d] : n \in bucket[d] \/ (d = c /\ n = node)
          /\ \A d \in Row : \A n \in bucket[d] : n \in bucket'[d]
          /\ node \in bucket'[c]
      BY <1>10, <2>1 DEF RetirePush, Goto, CallInv, Row
    <2>3. /\ arg' = [arg EXCEPT ![t] = None] /\ pc' = [pc EXCEPT ![t] = "idle"]
          /\ pc[t] = "push" /\ UNCHANGED <<list, status>>
      BY <1>10 DEF RetirePush, Goto
    <2> HIDE DEF node
    <2> USE <2>2, <2>3 DEF PlaceInv
    <2>4. Carrying'
      BY DEF Carrying
    <2>5. PlacedRetired'
      BY DEF PlacedRetired
    <2>6. RetiredPlaced'
      BY DEF RetiredPlaced
    <2>7. CallsApart' /\ CallsOff'
      BY DEF CallsApart, CallsOff, Row, Nodes
    <2>8. ListApart'
      BY DEF ListApart, CallsOff
    <2>9. CellsApart'
      BY DEF CellsApart, CallsOff
    <2> QED
      BY <2>4, <2>5, <2>6, <2>7, <2>8, <2>9
  <1>11. ASSUME NEW t \in Threads, ReclaimBegin(t) PROVE PlaceInv'
    BY <1>11, PlaceStutter DEF ReclaimBegin, Goto
  <1>12. ASSUME NEW t \in Threads, ReclaimScan(t) PROVE PlaceInv'
    <2>1. \A u \in Threads : pc'[u] = pc[u] \/ (u = t /\ pc'[u] = "local")
      <3>1. CASE active[scan]
        BY <1>12, <3>1 DEF ReclaimScan
      <3>2. CASE ~active[scan]
        BY <1>12, <3>2 DEF ReclaimScan
      <3> QED
        BY <3>1, <3>2
    <2> QED
      BY <1>12, <2>1, PlaceStutter DEF ReclaimScan
  <1>13. ASSUME NEW t \in Threads, ReclaimLocal(t) PROVE PlaceInv'
    <2>1. \A u \in Threads : pc'[u] = pc[u] \/ (u = t /\ pc'[u] \in {"idle", "scan"})
      BY <1>13 DEF ReclaimLocal, Unlock
    <2> QED
      BY <1>13, <2>1, PlaceStutter DEF ReclaimLocal
  <1>14. ASSUME NEW t \in Threads, ReclaimAdvance(t) PROVE PlaceInv'
    BY <1>14, PlaceStutter DEF ReclaimAdvance, Goto
  <1>15. ASSUME NEW t \in Threads, ReclaimTake(t) PROVE PlaceInv'
    <2>1. /\ cell \in Row /\ list' = bucket[cell] /\ UNCHANGED <<arg, status>>
          /\ bucket' = [bucket EXCEPT ![cell] = {}]
          /\ pc' = [pc EXCEPT ![t] = "sweep"] /\ pc[t] = "cell"
      BY <1>15 DEF ReclaimTake, Goto, Row
    <2>2. list = {}
      BY <2>1 DEF PlaceInv, Carrying, ReclaimInv, Reclaiming
    <2>3. /\ bucket'[cell] = {}
          /\ \A d \in Row : d # cell => bucket'[d] = bucket[d]
      BY <2>1 DEF Row
    <2> USE DEF PlaceInv
    <2>4. Carrying'
      BY <2>1 DEF Carrying
    <2>5. PlacedRetired'
      BY <2>1, <2>3 DEF PlacedRetired
    <2>6. RetiredPlaced'
      BY <2>1, <2>2, <2>3 DEF RetiredPlaced
    <2>7. CallsApart' /\ CallsOff'
      BY <2>1, <2>3 DEF CallsApart, CallsOff
    <2>8. ListApart' /\ CellsApart'
      BY <2>1, <2>3 DEF ListApart, CellsApart
    <2> QED
      BY <2>4, <2>5, <2>6, <2>7, <2>8
  <1>16. ASSUME NEW t \in Threads, ReclaimFree(t) PROVE PlaceInv'
    <2>1. PICK n \in list : /\ status' = [status EXCEPT ![n.ptr] = "freed"]
                            /\ list' = list \ {n}
      BY <1>16 DEF ReclaimFree
    <2>2. UNCHANGED <<arg, bucket, pc>> /\ pc[t] = "sweep"
      BY <1>16 DEF ReclaimFree
    <2> USE <2>1, <2>2 DEF PlaceInv
    <2>3. Carrying'
      BY DEF Carrying
    <2>4. PlacedRetired'
      BY DEF PlacedRetired, CallsOff, ListApart, Nodes, Row
    <2>5. RetiredPlaced'
      BY DEF RetiredPlaced, Nodes
    <2>6. CallsApart' /\ CallsOff' /\ ListApart' /\ CellsApart'
      BY DEF CallsApart, CallsOff, ListApart, CellsApart
    <2> QED
      BY <2>3, <2>4, <2>5, <2>6
  <1>17. ASSUME NEW t \in Threads, ReclaimSplice(t) PROVE PlaceInv'
    <2>1. /\ cell \in Row /\ list' = {} /\ UNCHANGED <<arg, status>>
          /\ bucket' = [bucket EXCEPT ![cell] = @ \cup list]
          /\ pc' = [pc EXCEPT ![t] = "cell"] /\ pc[t] = "sweep"
      BY <1>17 DEF ReclaimSplice, Spliced, Goto, ReclaimInv, Row
    <2>2. /\ bucket'[cell] = bucket[cell] \cup list
          /\ \A d \in Row : d # cell => bucket'[d] = bucket[d]
      BY <2>1 DEF Row
    <2> USE <2>1, <2>2 DEF PlaceInv
    <2>3. Carrying'
      BY DEF Carrying
    <2>4. PlacedRetired'
      BY DEF PlacedRetired
    <2>5. RetiredPlaced'
      BY DEF RetiredPlaced
    <2>6. CallsApart' /\ CallsOff'
      BY DEF CallsApart, CallsOff
    <2>7. ListApart' /\ CellsApart'
      BY DEF ListApart, CellsApart
    <2> QED
      BY <2>3, <2>4, <2>5, <2>6, <2>7
  <1>18. ASSUME NEW t \in Threads, ReclaimEnd(t) PROVE PlaceInv'
    BY <1>18, PlaceStutter DEF ReclaimEnd, Unlock
  <1> QED
    BY <1>0, <1>1, <1>2, <1>3, <1>4, <1>5, <1>6, <1>7, <1>8, <1>9, <1>10, <1>11, <1>12,
       <1>13, <1>14, <1>15, <1>16, <1>17, <1>18 DEF EpochNext, Internal

LEMMA PlaceSafe == TInv /\ PlaceInv => RetiredOnce
  <1> SUFFICES ASSUME TInv, PlaceInv, NEW p \in Ptrs
               PROVE  IF status[p] = "retired" THEN \E x \in Places(p) : Places(p) = {x}
                                               ELSE Places(p) = {}
    BY DEF RetiredOnce
  <1> USE EpochConstants DEF TInv, EpochTypeOK, PlaceInv
  <1>1. ASSUME NEW x \in Places(p)
        PROVE  \/ \E t \in Threads : arg[t] = p /\ x = <<"call", t>>
               \/ \E n \in list : n.ptr = p /\ x = <<"list", n>>
               \/ \E c \in Row : \E n \in bucket[c] : n.ptr = p /\ x = <<"cell", c, n>>
    BY <1>1 DEF Places, Row
  <1>2. /\ \A t \in Threads : arg[t] = p => <<"call", t>> \in Places(p)
        /\ \A n \in list : n.ptr = p => <<"list", n>> \in Places(p)
        /\ \A c \in Row : \A n \in bucket[c] : n.ptr = p => <<"cell", c, n>> \in Places(p)
    <2>1. \A t \in Threads : arg[t] = p => <<"call", t>> \in Places(p)
      BY DEF Places
    <2>2. \A n \in list : n.ptr = p => <<"list", n>> \in Places(p)
      BY DEF Places
    <2>3. \A c \in Row : \A n \in bucket[c] : n.ptr = p => <<"cell", c, n>> \in Places(p)
      BY DEF Places, Row
    <2> QED
      BY <2>1, <2>2, <2>3
  <1>3. \A x, y \in Places(p) : x = y
    <2> SUFFICES ASSUME NEW x \in Places(p), NEW y \in Places(p) PROVE x = y
      OBVIOUS
    <2>1. CASE \E t \in Threads : arg[t] = p /\ x = <<"call", t>>
      BY <2>1, <1>1 DEF CallsApart, CallsOff
    <2>2. CASE \E n \in list : n.ptr = p /\ x = <<"list", n>>
      BY <2>2, <1>1 DEF CallsOff, ListApart
    <2>3. CASE \E c \in Row : \E n \in bucket[c] : n.ptr = p /\ x = <<"cell", c, n>>
      BY <2>3, <1>1 DEF CallsOff, ListApart, CellsApart
    <2> QED
      BY <1>1, <2>1, <2>2, <2>3
  <1>4. CASE status[p] = "retired"
    <2>1. Places(p) # {}
      BY <1>2, <1>4 DEF RetiredPlaced
    <2> QED
      BY <1>3, <1>4, <2>1
  <1>5. CASE status[p] # "retired"
    <2>1. Places(p) = {}
      BY <1>1, <1>5 DEF PlacedRetired
    <2> QED
      BY <1>5, <2>1
  <1> QED
    BY <1>4, <1>5

\* The lock-free pushes, the exchange of a bucket and the splice that puts its
\* young nodes back never lose a retired node and never hold it twice.
THEOREM NodesKept == EpochSpec => []RetiredOnce
  <1>1. EpochInit => TInv /\ PlaceInv
    BY TypeInit, PlaceInit
  <1>2. TInv /\ PlaceInv /\ [EpochNext]_epochVars => (TInv /\ PlaceInv)'
    BY TypeNext, PlaceNext
  <1>3. TInv /\ PlaceInv => RetiredOnce
    BY PlaceSafe
  <1> QED
    BY <1>1, <1>2, <1>3, PTL DEF EpochSpec

-----------------------------------------------------------------------------
(* The refinement.  Entering is the store that sets active, leaving the one  *)
(* that clears it, and freeing the cleanup of one node; the rest stutters.   *)

LEMMA ContractInit == EpochInit => Contract!Init
  BY DEF EpochInit, Contract!Init, InSection, NoSlot

\* Steps that open or close no section, retire nothing and free nothing.
LEMMA ContractStutter ==
  ASSUME UNCHANGED <<status, pinned>>, \A t \in Threads : InSection(t)' <=> InSection(t)
  PROVE  UNCHANGED Contract!contract
  BY DEF Contract!contract

LEMMA ContractNext ==
  NoWrap /\ IInv /\ PlaceInv /\ [EpochNext]_epochVars => [Contract!Next]_Contract!contract
  <1> SUFFICES ASSUME NoWrap, IInv, PlaceInv, [EpochNext]_epochVars
               PROVE  [Contract!Next]_Contract!contract
    OBVIOUS
  <1> USE EpochConstants DEF IInv, TInv, EpochTypeOK, CallInv, SlotInv, SlotExclusive, Slots,
          NoSlot, slotVars, sweepVars, history, InSection
  <1>0. CASE UNCHANGED epochVars
    BY <1>0, ContractStutter DEF epochVars
  <1>1. ASSUME NEW t \in Threads, Register(t) PROVE UNCHANGED Contract!contract
    BY <1>1, ContractStutter DEF Register, Claimable
  <1>2. ASSUME NEW t \in Threads, LeaveSection(t), UNCHANGED <<tls, status>>,
               tls[t] # NoSlot
        PROVE  Contract!Leave(t)
    BY <1>2 DEF LeaveSection, Contract!Leave
  <1>3. ASSUME NEW t \in Threads, ReleaseNode(t) PROVE UNCHANGED Contract!contract
    BY <1>3, ContractStutter DEF ReleaseNode, Goto
  <1>6. ASSUME NEW t \in Threads, EnterActivate(t) PROVE Contract!Enter(t)
    BY <1>6 DEF EnterActivate, Goto, Contract!Enter
  <1>8. ASSUME NEW t \in Threads, NEW p \in Ptrs, Retire(t, p) PROVE Contract!Retire(p)
    BY <1>8 DEF Retire, Contract!Retire
  <1>9. ASSUME NEW t \in Threads,
               \/ EnterLoad(t) \/ EnterStore(t) \/ RetireLoad(t) \/ RetirePush(t)
               \/ ReclaimBegin(t) \/ ReclaimScan(t) \/ ReclaimLocal(t) \/ ReclaimAdvance(t)
               \/ ReclaimTake(t) \/ ReclaimSplice(t) \/ ReclaimEnd(t)
        PROVE  UNCHANGED Contract!contract
    <2>1. UNCHANGED <<tls, active, status, pinned>>
      BY <1>9 DEF EnterLoad, EnterStore, RetireLoad, RetirePush, ReclaimBegin, ReclaimScan,
         ReclaimLocal, ReclaimAdvance, ReclaimTake, ReclaimSplice, ReclaimEnd
    <2> QED
      BY <2>1, ContractStutter
  <1>16. ASSUME NEW t \in Threads, ReclaimFree(t) PROVE \E p \in Ptrs : Contract!Free(p)
    <2>1. PICK n \in list : status' = [status EXCEPT ![n.ptr] = "freed"]
      BY <1>16 DEF ReclaimFree
    <2>2. n.ptr \in Ptrs /\ status[n.ptr] = "retired"
      BY DEF Nodes, PlaceInv, PlacedRetired
    <2>3. TInv' /\ PinInv'
      BY TypeNext, PinNext
    <2>4. pinned[n.ptr] = {}
      BY <1>16, <2>1, <2>2, <2>3 DEF ReclaimFree, PinInv
    <2>5. UNCHANGED <<tls, active, pinned>>
      BY <1>16 DEF ReclaimFree
    <2>6. Contract!Free(n.ptr)
      BY <2>1, <2>2, <2>4, <2>5 DEF Contract!Free
    <2> QED
      BY <2>2, <2>6
  <1>17. ASSUME NEW t \in Threads, Deregister(t) \/ Exit(t) PROVE Contract!Leave(t)
    BY <1>17, <1>2 DEF Deregister, Exit
  <1> QED
    BY <1>0, <1>1, <1>3, <1>6, <1>8, <1>9, <1>16, <1>17 DEF EpochNext, Internal, Contract!Next

\* The epochs, slots, scans and buckets implement the contract of Reclamation:
\* unless the counter wraps, a retired pointer is freed at most once, and only
\* when every section that was open at its retirement is over.
THEOREM ContractKept == NoWrap => (EpochSpec => RefinesContract)
  <1> SUFFICES ASSUME NoWrap PROVE EpochSpec => RefinesContract
    OBVIOUS
  <1>1. EpochInit => IInv /\ PlaceInv
    BY IInvInit, PlaceInit
  <1>2. IInv /\ PlaceInv /\ [EpochNext]_epochVars => (IInv /\ PlaceInv)'
    BY TypeNext, SlotNext, EpochInvNext, PinNext, PlaceNext DEF IInv
  <1>3. EpochInit => Contract!Init
    BY ContractInit
  <1>4. IInv /\ PlaceInv /\ [EpochNext]_epochVars => [Contract!Next]_Contract!contract
    BY ContractNext
  <1> QED
    BY <1>1, <1>2, <1>3, <1>4, PTL DEF EpochSpec, RefinesContract, Contract!Spec
=============================================================================
