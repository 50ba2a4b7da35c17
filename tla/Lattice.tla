------------------------------- MODULE Lattice -------------------------------
(***************************************************************************)
(* The ingress lattice of src/src/net/lattice.c and its use by a network    *)
(* view (view.c): a list of nodes with dim x dim slots, of which a worker   *)
(* uses only those of its lane, so that it may check a slot and claim it in *)
(* two steps.  Nodes are added when one fills up; of two empty neighbours   *)
(* the second is compacted to a stub without slots.                         *)
(***************************************************************************)
EXTENDS Integers, Sequences, FiniteSets, FiniteSetsExt, WordOps

CONSTANTS LatticeWorkers, WorkerId,   \* threads that receive, and their ids
          Releaser,                   \* one more, that only gives views back
          Crews,                      \* dim -> the workers, no two in one lane
          MaxNodes, MaxViews,         \* bounds on nodes, on views at a time
          MaxPackets                  \* dim -> bound on slots in use

ASSUME LatticeAssumption ==
    /\ WorkerId \in [LatticeWorkers -> Nat] /\ Releaser \notin LatticeWorkers
    /\ IsFiniteSet(LatticeWorkers)
    /\ {MaxNodes, MaxViews} \subseteq Nat \ {0} /\ DOMAIN MaxPackets = DOMAIN Crews

VARIABLES dim,
          lattice,   \* the nodes: real or stub, used_slots, state of the slots
          act,       \* thread -> the call it is in
          views,     \* <<node, slot>> that a view refers to
          merging,   \* the nodes a compaction has claimed (compact_state)
          struck     \* a compaction took a slot that was in use

latticeVars == <<dim, lattice, act, views, merging, struck>>

Receivers == LatticeWorkers \union {Releaser}
Slots == (0 .. dim - 1) \X (0 .. dim - 1)
FreshNode == [real |-> TRUE, used |-> 0, state |-> [s \in Slots |-> "free"]]
Quiet == [at |-> "idle"]

LatticeInit ==
    /\ dim \in DOMAIN Crews
    /\ lattice = <<FreshNode>>
    /\ act = [t \in Receivers |-> Quiet]
    /\ views = {} /\ merging = {} /\ struck = FALSE

\* The lane test: row and column against ttak_apply_mols_control, of which the
\* mask leaves bits of the id xored with the column minus the row.
InLane(d, tid, s) == (s[1] + s[2]) % d = WordXor(tid, (64 + s[2] - s[1]) % 64) % d
OwnSlotMutant(tid, s) == TRUE   \* mutant: every worker uses every slot
OwnSlot(tid, s) == InLane(dim, tid, s)

ASSUME CrewAssumption ==
    \A d \in DOMAIN Crews :
        /\ d \in Nat \ {0} /\ Crews[d] \subseteq LatticeWorkers
        /\ \A w, u \in Crews[d], s \in (0 .. d - 1) \X (0 .. d - 1) :
              InLane(d, WorkerId[w], s) /\ InLane(d, WorkerId[u], s) => w = u

\* The first slot in the state, in the order of the sweep.
Before(p, q) == \/ p[1] < q[1]
                \/ p[1] = q[1] /\ p[2][1] * dim + p[2][2] < q[2][1] * dim + q[2][2]
Swept(w, ks, wanted) ==
    LET hits == {p \in ks \X Slots : OwnSlot(WorkerId[w], p[2]) /\ lattice[p[1]].state[p[2]] = wanted}
    IN {p \in hits : \A q \in hits : p = q \/ Before(p, q)}
RealNodes == {k \in DOMAIN lattice : lattice[k].real}
InUse == {p \in RealNodes \X Slots : lattice[p[1]].state[p[2]] # "free"}

Moves(t, a) == act' = [act EXCEPT ![t] = a]
SetState(p, s) == lattice' = [lattice EXCEPT ![p[1]].state[p[2]] = s]

\* ttak_net_lattice_ensure_next for node k, unless out of memory.
EnsureNext(l, k, ok) ==
    IF ~ok THEN l
    ELSE IF k = Len(l) THEN IF k < MaxNodes THEN Append(l, FreshNode) ELSE l
    ELSE IF l[k + 1].real THEN l ELSE [l EXCEPT ![k + 1] = FreshNode]

-----------------------------------------------------------------------------
(* Receiving: write of a packet (view FALSE), or a view of one.             *)

\* The sweep finds a free slot; a view also looks into nodes that are claimed
\* by a compaction.
Eligible(view) == IF view THEN RealNodes ELSE RealNodes \ merging
Find(w, view) ==
    /\ act[w] = Quiet /\ w \in Crews[dim] /\ Cardinality(InUse) < MaxPackets[dim]
    /\ view => Cardinality(views) < MaxViews
    /\ \E p \in Swept(w, Eligible(view), "free") :
          Moves(w, [at |-> "found", slot |-> p, view |-> view])
    /\ UNCHANGED <<dim, lattice, views, merging, struck>>

\* It finds none and reaches the end of the list.
Extend(w, view) ==
    /\ act[w] = Quiet /\ w \in Crews[dim] /\ Cardinality(InUse) < MaxPackets[dim]
    /\ Swept(w, Eligible(view), "free") = {}
    /\ Len(lattice) \in Eligible(view)
    /\ lattice' = EnsureNext(lattice, Len(lattice), TRUE)
    /\ UNCHANGED <<dim, act, views, merging, struck>>

Claim(w) ==
    /\ act[w].at = "found"
    /\ SetState(act[w].slot, "writing") /\ Moves(w, [act[w] EXCEPT !.at = "writing"])
    /\ UNCHANGED <<dim, views, merging, struck>>

Publish(w) ==
    /\ act[w].at = "writing"
    /\ SetState(act[w].slot, "ready") /\ Moves(w, [act[w] EXCEPT !.at = "count"])
    /\ UNCHANGED <<dim, views, merging, struck>>

\* ttak_net_lattice_mark_slot_acquired, and for a view the wiring to the slot.
NewlyUsed(w) ==
    LET p == act[w].slot
        node == lattice[p[1]]
    IN [lattice EXCEPT ![p[1]] =
           [node EXCEPT !.used = node.used + 1,
                        !.state[p[2]] = IF act[w].view THEN "reading" ELSE node.state[p[2]]]]
Crowded(node) == node.used * 100 >= dim * dim * 80
Acquired(w, ok) ==
    LET p == act[w].slot
    IN /\ act[w].at = "count"
       /\ lattice' = IF Crowded(NewlyUsed(w)[p[1]]) THEN EnsureNext(NewlyUsed(w), p[1], ok) ELSE NewlyUsed(w)
       /\ views' = IF act[w].view THEN views \union {p} ELSE views
       /\ Moves(w, Quiet)
       /\ UNCHANGED <<dim, merging, struck>>

-----------------------------------------------------------------------------
(* Giving back.                                                             *)

ReadSlot(w) ==
    /\ act[w] = Quiet /\ w \in Crews[dim]
    /\ \E p \in Swept(w, RealNodes \ merging, "ready") :
          /\ SetState(p, "reading")
          /\ Moves(w, [at |-> "reading", slot |-> p])
    /\ UNCHANGED <<dim, views, merging, struck>>

ReadDone(w) ==
    /\ act[w].at = "reading"
    /\ SetState(act[w].slot, "free") /\ Moves(w, [act[w] EXCEPT !.at = "uncount"])
    /\ UNCHANGED <<dim, views, merging, struck>>

\* ttak_net_view_release
ViewRelease(t) ==
    /\ act[t] = Quiet
    /\ \E p \in views :
          /\ views' = views \ {p}
          /\ SetState(p, "free")
          /\ Moves(t, [at |-> "uncount", slot |-> p])
    /\ UNCHANGED <<dim, merging, struck>>

\* ttak_net_lattice_mark_slot_released; the last one may try to compact.
SlotReleased(t, try) ==
    LET k == act[t].slot[1] IN
    /\ act[t].at = "uncount"
    /\ lattice' = [lattice EXCEPT ![k].used = @ - 1]
    /\ try => lattice[k].used = 1
    /\ Moves(t, IF try THEN [at |-> "compact"] ELSE Quiet)
    /\ UNCHANGED <<dim, views, merging, struck>>

-----------------------------------------------------------------------------
(* ttak_net_lattice_try_compact                                             *)

EmptyPairs == {pair \in RealNodes \X RealNodes :
                  /\ pair[1] < pair[2] /\ lattice[pair[1]].used + lattice[pair[2]].used = 0
                  /\ \A k \in pair[1] + 1 .. pair[2] - 1 : ~lattice[k].real}
MostlyFree ==
    LET capacity == dim * dim * Cardinality(RealNodes)
    IN 100 * (capacity - MapThenSumSet(LAMBDA k : lattice[k].used, RealNodes)) >= 80 * capacity

\* Two empty neighbours, the last ones in the list, are claimed and found idle.
IdleNode(k) == \A s \in Slots : lattice[k].state[s] = "free"
Merge(t) ==
    /\ act[t].at = "compact" /\ merging = {} /\ MostlyFree
    /\ \E pair \in EmptyPairs :
          /\ \A other \in EmptyPairs : other[2] <= pair[2]
          /\ IdleNode(pair[1]) /\ IdleNode(pair[2])
          /\ merging' = {pair[1], pair[2]}
          /\ Moves(t, [at |-> "stub", node |-> pair[2]])
    /\ UNCHANGED <<dim, lattice, views, struck>>
GiveUp(t) ==
    /\ act[t].at = "compact" /\ Moves(t, Quiet)
    /\ UNCHANGED <<dim, lattice, views, merging, struck>>

\* The slots of both are cleared.  Behaviours end where one of them is in use,
\* or has been found by a sweep that began before: a defect of the code.
Compacted(k, stub) == [FreshNode EXCEPT !.real = k # stub,
                                        !.used = IF k = stub THEN 0 ELSE lattice[k].used]
Overtaken == \/ \E k \in merging : ~IdleNode(k) \/ lattice[k].used # 0
             \/ \E w \in LatticeWorkers : act[w].at = "found" /\ act[w].slot[1] \in merging
Stub(t) ==
    /\ act[t].at = "stub"
    /\ lattice' = [k \in DOMAIN lattice |->
                      IF k \in merging THEN Compacted(k, act[t].node) ELSE lattice[k]]
    /\ struck' = Overtaken
    /\ merging' = {} /\ Moves(t, Quiet)
    /\ UNCHANGED <<dim, views>>

LatticeNext ==
    /\ ~struck
    /\ \/ \E w \in LatticeWorkers :
             \/ \E view \in BOOLEAN : Find(w, view) \/ Extend(w, view)
             \/ Claim(w) \/ Publish(w) \/ ReadSlot(w) \/ ReadDone(w)
             \/ \E ok \in BOOLEAN : Acquired(w, ok)
       \/ \E t \in Receivers :
             \/ ViewRelease(t) \/ Merge(t) \/ GiveUp(t) \/ Stub(t)
             \/ \E try \in BOOLEAN : SlotReleased(t, try)

LatticeSpec == LatticeInit /\ [][LatticeNext]_latticeVars

-----------------------------------------------------------------------------
(* A slot has one user at a time: a thread from its sweep until the slot is *)
(* ready or free again, or a view until its release; and used_slots counts  *)
(* the slots in use but for those about to be counted or uncounted.  Exempt *)
(* are compactions that overtake a sweep (lattice.c:312-318).               *)
Holding == {"found", "writing", "count", "reading"}
Held == {t \in Receivers : act[t].at \in Holding}
AtNode(where, k) == Cardinality({t \in Receivers : act[t].at = where /\ act[t].slot[1] = k})

LatticeSlots ==
    \/ struck
    \/ /\ \A t, u \in Held : t # u => act[t].slot # act[u].slot
       /\ \A p \in views : /\ lattice[p[1]].real /\ lattice[p[1]].state[p[2]] = "reading"
                           /\ \A t \in Held : act[t].slot # p
       /\ \A k \in RealNodes :
             lattice[k].used = Cardinality({s \in Slots : lattice[k].state[s] \in {"ready", "reading"}})
                               - AtNode("count", k) + AtNode("uncount", k)
=============================================================================
