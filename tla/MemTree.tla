------------------------------ MODULE MemTree ------------------------------
(***************************************************************************)
(* The memory tree of src/src/mem_tree/mem_tree.c: reference-counted nodes *)
(* on one list, a garbage pressure that says how much was released, and    *)
(* cleanup passes that any user may run (the epoch GC rotates this way)    *)
(* and that a background thread runs by itself in automatic mode.  Every   *)
(* load, store and fetch-and-add of a shared field is a step of its own;   *)
(* what a thread does under the tree lock alone is one step.  The list is  *)
(* the set of its nodes: a walk meets each once, and nothing depends on    *)
(* the order.                                                              *)
(*                                                                         *)
(* With InPointerMap the tree is the global one of src/src/mem/mem.c,      *)
(* whose nodes the pointer map finds again when their block is freed.      *)
(***************************************************************************)
EXTENDS Integers, FiniteSets

CONSTANTS Users,         \* threads that use the tree
          Admins,        \* those that also hint, switch its mode and destroy it
          Rotators,      \* those that run cleanup passes
          Cleaner,       \* its background thread
          Nodes,         \* node records; each tracks one block of size 1
          Forever,       \* the nodes whose block never expires
          InPointerMap   \* TRUE for the global tree

ASSUME MemTreeAssumption == /\ IsFiniteSet(Users)
                            /\ Cleaner \notin Users
                            /\ "free" \notin Users \union {Cleaner}
                            /\ Admins \union Rotators \subseteq Users
                            /\ Forever \subseteq Nodes
                            /\ InPointerMap \in BOOLEAN

VARIABLES
    list,      \* the nodes from tree->head on
    refs,      \* ref_count of each node
    held,      \* the references each user owns
    expired,   \* nodes whose expires_tick has passed
    pressure, needed,          \* garbage_pressure, cleanup_needed
    hints,                     \* pending_hints
    manual, shutdown, started, \* use_manual_cleanup, shutdown_requested, cleanup_thread
    treeLock,  \* the thread in a pass over the list, or "free"
    used,      \* nodes that were ever added
    alive,     \* FALSE once ttak_mem_tree_destroy was called
    frees,     \* how often each node record was freed
    blockFreed,\* nodes whose block was freed
    step,      \* where each thread is
    todo, bag, current, total, old   \* locals of a cleanup pass: the nodes ahead
               \* of the walk, those unlinked, the one being freed ({} if none)

treeVars == <<list, refs, held, expired, pressure, needed, hints, manual, shutdown,
              started, treeLock, used, alive, frees, blockFreed, step, todo, bag, current, total, old>>

Passers == Users \union {Cleaner}

MemTreeTypeOK ==
    /\ list \subseteq Nodes
    /\ refs \in [Nodes -> Nat]
    /\ held \in [Users -> SUBSET Nodes]
    /\ expired \subseteq Nodes
    /\ pressure \in Nat /\ needed \in BOOLEAN
    /\ hints \subseteq {"work", "shutdown"}
    /\ manual \in BOOLEAN /\ shutdown \in BOOLEAN /\ started \in BOOLEAN
    /\ treeLock \in Passers \union {"free"}
    /\ used \subseteq Nodes /\ alive \in BOOLEAN
    /\ frees \in [Nodes -> Nat]
    /\ blockFreed \subseteq Nodes
    /\ step \in [Passers -> {"idle", "report", "flag", "check", "check2", "lock", "walk",
                             "free", "drop", "load", "cas", "settle", "clear", "join",
                             "off", "top", "hints", "look", "sleep"}]
    /\ todo \in [Passers -> SUBSET Nodes] /\ bag \in [Passers -> SUBSET Nodes]
    /\ current \in [Passers -> SUBSET Nodes]
    /\ total \in [Passers -> Nat] /\ old \in [Passers -> Nat]

TreeInit ==
    /\ list = {}
    /\ refs = [n \in Nodes |-> 0]
    /\ held = [u \in Users |-> {}]
    /\ expired = {}
    /\ pressure = 0 /\ needed = FALSE
    /\ hints = {}
    /\ manual = FALSE /\ shutdown = FALSE /\ started = TRUE
    /\ treeLock = "free"
    /\ used = {} /\ alive = TRUE
    /\ frees = [n \in Nodes |-> 0]
    /\ blockFreed = {}
    /\ step = [t \in Passers |-> IF t = Cleaner THEN "top" ELSE "idle"]
    /\ todo = [t \in Passers |-> {}] /\ bag = [t \in Passers |-> {}]
    /\ current = [t \in Passers |-> {}]
    /\ total = [t \in Passers |-> 0] /\ old = [t \in Passers |-> 0]

MoveTo(t, from, to) == step[t] = from /\ step' = [step EXCEPT ![t] = to]

passVars == <<todo, bag, current, total, old>>
countVars == <<list, used, refs, held, expired, frees, blockFreed>>
modeVars == <<hints, manual, shutdown, started, alive>>

\* free() of the node records of a set.
FreeRecords(S) == frees' = [n \in Nodes |-> frees[n] + (IF n \in S THEN 1 ELSE 0)]

-----------------------------------------------------------------------------
(* References. *)

\* ttak_mem_tree_add: the caller owns the first reference.
Add(u, n) ==
    /\ step[u] = "idle" /\ alive /\ treeLock = "free"
    /\ n \notin used
    /\ used' = used \union {n}
    /\ list' = list \union {n}
    /\ refs' = [refs EXCEPT ![n] = 1]
    /\ held' = [held EXCEPT ![u] = @ \union {n}]
    /\ UNCHANGED <<expired, frees, blockFreed, pressure, needed, treeLock, step>>
    /\ UNCHANGED <<modeVars, passVars>>

\* ttak_mem_node_acquire: only the owner of a reference v may hand out another.
Acquire(u, v, n) ==
    /\ step[u] = "idle" /\ alive
    /\ n \in held[v] \ held[u]
    /\ refs' = [refs EXCEPT ![n] = @ + 1]
    /\ held' = [held EXCEPT ![u] = @ \union {n}]
    /\ UNCHANGED <<list, used, expired, frees, blockFreed, pressure, needed, treeLock, step>>
    /\ UNCHANGED <<modeVars, passVars>>

\* ttak_mem_node_release: the last reference goes on to report pressure.
Release(u, n) ==
    /\ alive /\ n \in held[u]
    /\ MoveTo(u, "idle", IF refs[n] = 1 THEN "report" ELSE "idle")
    /\ refs' = [refs EXCEPT ![n] = @ - 1]
    /\ held' = [held EXCEPT ![u] = @ \ {n}]
    /\ UNCHANGED <<list, used, expired, frees, blockFreed, pressure, needed, treeLock>>
    /\ UNCHANGED <<modeVars, passVars>>

\* ttak_mem_tree_report_pressure: the counter first, then the flag.
Report(u) ==
    /\ MoveTo(u, "report", "flag")
    /\ pressure' = pressure + 1
    /\ UNCHANGED <<needed, treeLock>> /\ UNCHANGED <<countVars, modeVars, passVars>>

Flag(u) ==
    /\ MoveTo(u, "flag", "idle")
    /\ needed' = TRUE
    /\ UNCHANGED <<pressure, treeLock>> /\ UNCHANGED <<countVars, modeVars, passVars>>

\* For the global tree a release is under global_map_lock to its end, which
\* ttak_mem_free takes as well.
MapFree == InPointerMap => \A u \in Users : step[u] \notin {"report", "flag"}

\* ttak_mem_tree_remove by the only owner, who then frees the block; for the
\* global tree this is what ttak_mem_free does.
RemoveNode(u, n) ==
    /\ step[u] = "idle" /\ alive /\ treeLock = "free" /\ MapFree
    /\ n \in held[u] /\ refs[n] = 1
    /\ list' = list \ {n}
    /\ refs' = [refs EXCEPT ![n] = 0]
    /\ held' = [held EXCEPT ![u] = @ \ {n}]
    /\ FreeRecords({n}) /\ blockFreed' = blockFreed \union {n}
    /\ UNCHANGED <<used, expired, pressure, needed, treeLock, step>>
    /\ UNCHANGED <<modeVars, passVars>>

\* Time passes the expires_tick of a block.
Expire(n) ==
    /\ n \notin expired \union Forever
    /\ expired' = expired \union {n}
    /\ UNCHANGED <<list, used, refs, held, frees, blockFreed, pressure, needed, treeLock, step>>
    /\ UNCHANGED <<modeVars, passVars>>

-----------------------------------------------------------------------------
(* ttak_mem_tree_perform_cleanup, by a user or by the background thread. *)

Back(t) == IF t = Cleaner THEN "sleep" ELSE "idle"

Rotate(u) ==
    /\ alive /\ MoveTo(u, "idle", "check")
    /\ UNCHANGED <<pressure, needed, treeLock>> /\ UNCHANGED <<countVars, modeVars, passVars>>

CheckPressure(t) ==
    /\ MoveTo(t, "check", IF pressure = 0 THEN "check2" ELSE "lock")
    /\ UNCHANGED <<pressure, needed, treeLock>> /\ UNCHANGED <<countVars, modeVars, passVars>>

CheckNeeded(t) ==
    /\ MoveTo(t, "check2", IF needed THEN "lock" ELSE Back(t))
    /\ UNCHANGED <<pressure, needed, treeLock>> /\ UNCHANGED <<countVars, modeVars, passVars>>

LockableMutant == TRUE                            \* mutant: the walk takes no lock
Lockable == treeLock = "free"

LockTree(t) ==
    /\ MoveTo(t, "lock", "walk")
    /\ Lockable /\ treeLock' = t
    /\ todo' = [todo EXCEPT ![t] = list]
    /\ UNCHANGED <<pressure, needed, bag, current, total, old>>
    /\ UNCHANGED <<countVars, modeVars>>

GarbageMutant(n) == n \in expired                 \* mutant: references do not count
Garbage(n) == refs[n] = 0 /\ n \in expired

\* One node of the walk: it is judged and, if garbage, unlinked.
Walk(t) ==
    /\ step[t] = "walk"
    /\ \E n \in todo[t] :
          /\ todo' = [todo EXCEPT ![t] = @ \ {n}]
          /\ list' = IF Garbage(n) THEN list \ {n} ELSE list
          /\ bag' = IF Garbage(n) THEN [bag EXCEPT ![t] = @ \union {n}] ELSE bag
    /\ UNCHANGED <<used, refs, held, expired, frees, blockFreed, pressure, needed,
                   treeLock, step, current, total, old>>
    /\ UNCHANGED modeVars

UnlockTree(t) ==
    /\ MoveTo(t, "walk", "free") /\ todo[t] = {}
    /\ treeLock' = "free"
    /\ UNCHANGED <<pressure, needed>> /\ UNCHANGED <<countVars, modeVars, passVars>>

\* ttak_mem_free(current->ptr): for a root block of the global tree the
\* pointer map still knows the node, so it is removed and freed here too.
FreeBlock(t) ==
    /\ MoveTo(t, "free", "drop")
    /\ MapFree
    /\ InPointerMap => treeLock = "free"
    /\ \E n \in bag[t] :
          /\ current' = [current EXCEPT ![t] = {n}]
          /\ bag' = [bag EXCEPT ![t] = @ \ {n}]
          /\ blockFreed' = blockFreed \union {n}
          /\ FreeRecords(IF InPointerMap THEN {n} ELSE {})
    /\ UNCHANGED <<list, used, refs, held, expired, pressure, needed, treeLock,
                   todo, total, old>>
    /\ UNCHANGED modeVars

\* free(current)
FreeNode(t) ==
    /\ MoveTo(t, "drop", "free")
    /\ FreeRecords(current[t])
    /\ current' = [current EXCEPT ![t] = {}]
    /\ total' = [total EXCEPT ![t] = @ + 1]
    /\ UNCHANGED <<list, used, refs, held, expired, blockFreed, pressure, needed, treeLock,
                   todo, bag, old>>
    /\ UNCHANGED modeVars

\* The pressure loaded covers what the pass has freed.
CoveredMutant(t) == TRUE                          \* mutant: no test
Covered(t) == old[t] >= total[t]

\* What was freed is taken off the pressure: load, then compare-and-swap.
LoadPressure(t) ==
    /\ MoveTo(t, "free", IF total[t] = 0 THEN "settle" ELSE "cas") /\ bag[t] = {}
    /\ old' = [old EXCEPT ![t] = pressure]
    /\ UNCHANGED <<pressure, needed, treeLock, todo, bag, current, total>>
    /\ UNCHANGED <<countVars, modeVars>>

Subtract(t) ==
    /\ step[t] = "cas" /\ Covered(t)
    /\ IF pressure = old[t]
       THEN /\ pressure' = pressure - total[t]
            /\ step' = [step EXCEPT ![t] = "settle"]
            /\ UNCHANGED old
       ELSE /\ old' = [old EXCEPT ![t] = pressure]
            /\ UNCHANGED <<pressure, step>>
    /\ UNCHANGED <<needed, treeLock, todo, bag, current, total>>
    /\ UNCHANGED <<countVars, modeVars>>

ZeroPressure(t) ==
    /\ MoveTo(t, "cas", "settle") /\ ~Covered(t)
    /\ pressure' = 0
    /\ UNCHANGED <<needed, treeLock>> /\ UNCHANGED <<countVars, modeVars, passVars>>

Settle(t) ==
    /\ MoveTo(t, "settle", IF pressure = 0 THEN "clear" ELSE Back(t))
    /\ total' = [total EXCEPT ![t] = 0]
    /\ old' = [old EXCEPT ![t] = 0]
    /\ UNCHANGED <<pressure, needed, treeLock, todo, bag, current>>
    /\ UNCHANGED <<countVars, modeVars>>

ClearNeeded(t) ==
    /\ MoveTo(t, "clear", Back(t))
    /\ needed' = FALSE
    /\ UNCHANGED <<pressure, treeLock>> /\ UNCHANGED <<countVars, modeVars, passVars>>

Pass(t) == \/ CheckPressure(t) \/ CheckNeeded(t) \/ LockTree(t) \/ Walk(t)
           \/ UnlockTree(t) \/ FreeBlock(t) \/ FreeNode(t) \/ LoadPressure(t)
           \/ Subtract(t) \/ ZeroPressure(t) \/ Settle(t) \/ ClearNeeded(t)

-----------------------------------------------------------------------------
(* cleanup_thread_func and the switches between the modes. *)

CleanerTop ==
    /\ MoveTo(Cleaner, "top", IF shutdown THEN "off" ELSE "hints")
    /\ UNCHANGED <<pressure, needed, treeLock>> /\ UNCHANGED <<countVars, modeVars, passVars>>

\* use_manual_cleanup is read and the hints are taken; in automatic mode the
\* thread then looks for work.
CleanerHints ==
    /\ MoveTo(Cleaner, "hints", CASE "shutdown" \in hints -> "off"
                                  [] manual -> "sleep"
                                  [] "work" \in hints -> "check"
                                  [] OTHER -> "look")
    /\ hints' = {}
    /\ shutdown' = (shutdown \/ "shutdown" \in hints)
    /\ UNCHANGED <<manual, started, alive, pressure, needed, treeLock>>
    /\ UNCHANGED <<countVars, passVars>>

CleanerLook ==
    /\ MoveTo(Cleaner, "look", IF pressure > 0 THEN "check" ELSE "sleep")
    /\ UNCHANGED <<pressure, needed, treeLock>> /\ UNCHANGED <<countVars, modeVars, passVars>>

\* The timed wait, which a signal only shortens.
CleanerSleep ==
    /\ treeLock = "free" /\ MoveTo(Cleaner, "sleep", "top")
    /\ UNCHANGED <<pressure, needed, treeLock>> /\ UNCHANGED <<countVars, modeVars, passVars>>

\* ttak_mem_tree_hint
Hint(u, h) ==
    /\ step[u] = "idle" /\ alive
    /\ hints' = hints \union {h}
    /\ UNCHANGED <<manual, shutdown, started, alive, pressure, needed, treeLock, step>>
    /\ UNCHANGED <<countVars, passVars>>

NoSwitch == \A u \in Users : step[u] # "join"

StopRequestMutant == FALSE                        \* mutant: joined without being told
StopRequest == started

\* ttak_mem_tree_set_manual_cleanup(tree, true) up to the join ...
SetManual(u) ==
    /\ alive /\ ~manual /\ NoSwitch
    /\ MoveTo(u, "idle", IF started THEN "join" ELSE "idle")
    /\ manual' = TRUE
    /\ shutdown' = (shutdown \/ StopRequest)
    /\ UNCHANGED <<hints, started, alive, pressure, needed, treeLock>>
    /\ UNCHANGED <<countVars, passVars>>

\* ... and after it.
Joined(u) ==
    /\ alive /\ step[Cleaner] = "off"
    /\ MoveTo(u, "join", "idle")
    /\ started' = FALSE /\ shutdown' = FALSE
    /\ UNCHANGED <<hints, manual, alive, pressure, needed, treeLock>>
    /\ UNCHANGED <<countVars, passVars>>

\* ttak_mem_tree_set_manual_cleanup(tree, false)
SetAutomatic(u) ==
    /\ step[u] = "idle" /\ alive /\ manual /\ NoSwitch
    /\ manual' = FALSE /\ started' = TRUE
    /\ IF started
       THEN UNCHANGED <<shutdown, step>>
       ELSE shutdown' = FALSE /\ step' = [step EXCEPT ![Cleaner] = "top"]
    /\ UNCHANGED <<hints, alive, pressure, needed, treeLock>> /\ UNCHANGED <<countVars, passVars>>

\* ttak_mem_tree_destroy, called when no other call is under way; nothing
\* destroys the global tree.
Destroy(u) ==
    /\ ~InPointerMap /\ alive /\ \A v \in Users : step[v] = "idle"
    /\ MoveTo(u, "idle", "join")
    /\ alive' = FALSE /\ shutdown' = TRUE
    /\ UNCHANGED <<hints, manual, started, list, used, refs, held, expired, frees, blockFreed>>
    /\ UNCHANGED <<pressure, needed, treeLock, passVars>>

FreeAll(u) ==
    /\ ~alive
    /\ started => step[Cleaner] = "off"
    /\ MoveTo(u, "join", "idle")
    /\ list' = {}
    /\ FreeRecords(list) /\ blockFreed' = blockFreed \union list
    /\ UNCHANGED <<used, refs, held, expired, pressure, needed, treeLock>>
    /\ UNCHANGED <<modeVars, passVars>>

TreeNext ==
    \/ \E u \in Users, n \in Nodes :
          \/ Add(u, n) \/ Release(u, n) \/ RemoveNode(u, n)
          \/ \E v \in Users : Acquire(u, v, n)
    \/ \E u \in Users : Report(u) \/ Flag(u)
    \/ \E u \in Rotators : Rotate(u)
    \/ \E u \in Admins : \/ SetManual(u) \/ Joined(u) \/ SetAutomatic(u)
                         \/ Destroy(u) \/ FreeAll(u)
                         \/ \E h \in {"work", "shutdown"} : Hint(u, h)
    \/ \E t \in Rotators \union {Cleaner} : Pass(t)
    \/ \E n \in Nodes : Expire(n)
    \/ CleanerTop \/ CleanerHints \/ CleanerLook \/ CleanerSleep

TreeSpec == TreeInit /\ [][TreeNext]_treeVars

\* Threads that are in the middle of a call or of the cleanup loop go on; a
\* lock that is released again and again is not refused to one thread for ever.
TreeFairness ==
    /\ \A t \in Rotators \union {Cleaner} : WF_treeVars(Pass(t)) /\ SF_treeVars(LockTree(t))
    /\ \A u \in Users : WF_treeVars(Report(u) \/ Flag(u))
    /\ \A u \in Admins : WF_treeVars(Joined(u) \/ FreeAll(u))
    /\ WF_treeVars(CleanerTop \/ CleanerHints \/ CleanerLook)
    /\ SF_treeVars(CleanerSleep)

FairTreeSpec == TreeSpec /\ TreeFairness

-----------------------------------------------------------------------------
\* A node somebody holds a reference to is tracked and its memory is there,
\* whatever passes run meanwhile (until the whole tree is destroyed).
HeldAlive ==
    alive => \A u \in Users : \A n \in held[u] :
                n \in list /\ frees[n] = 0 /\ n \notin blockFreed

\* Every node record is freed at most once, by a pass, by its owner or by the
\* destruction of the tree.
NodeFreedOnce == \A n \in Nodes : frees[n] <= 1

\* Whoever switches to manual mode or destroys the tree gets past the join,
\* whatever hints and passes come in between.
JoinReturns == \A u \in Admins : step[u] = "join" ~> step[u] # "join"
=============================================================================
