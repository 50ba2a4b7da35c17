--------------------------- MODULE MemTreeProofs ----------------------------
(***************************************************************************)
(* Proofs about MemTree, for every number of users, nodes and threads that  *)
(* run cleanup passes: the states stay what they are declared to be, a node *)
(* somebody references is tracked and in memory, and without the pointer    *)
(* map of the global tree every node record is freed at most once.          *)
(***************************************************************************)
EXTENDS MemTree, FiniteSetTheorems, TLAPS

-----------------------------------------------------------------------------
(* The inductive invariant.                                                 *)

Holders(n) == {u \in Users : n \in held[u]}

\* The count of a node is the number of references that were given out.
RefInv == \A n \in Nodes : refs[n] = Cardinality(Holders(n))

\* A reference is to a node on the list, until the tree is destroyed.
HeldInv == alive => \A u \in Users : held[u] \subseteq list

\* The nodes a pass has taken off the list and not freed.
Unlinked(t) == bag[t] \union current[t]

\* A node on the list, or not yet in use, is in memory with its block.
ListInv ==
    /\ list \subseteq used
    /\ \A n \in list \union (Nodes \ used) : frees[n] = 0 /\ n \notin blockFreed
    /\ InPointerMap \/ \A n \in Nodes : frees[n] <= 1

\* A pass owns what it has unlinked, and only the node it is freeing may have
\* lost its record already, to the pointer map.
PassInv ==
    \A t \in Passers :
        /\ Unlinked(t) \subseteq used \ list
        /\ bag[t] \intersect current[t] = {}
        /\ current[t] # {} => step[t] = "drop"
        /\ \A n \in bag[t] : frees[n] = 0
        /\ \A n \in current[t] : InPointerMap \/ frees[n] = 0
        /\ \A r \in Passers \ {t} : Unlinked(t) \intersect Unlinked(r) = {}

\* Whoever walks has the tree lock, and what is ahead of it is on the list.
WalkInv ==
    \A t \in Passers :
        /\ step[t] = "walk" <=> treeLock = t
        /\ IF step[t] = "walk" THEN todo[t] \subseteq list ELSE todo[t] = {}

\* Once the tree is being destroyed, or has no thread of its own, nobody
\* begins a pass.
StopInv ==
    /\ ~started => step[Cleaner] = "off"
    /\ ~alive => \A u \in Users : step[u] \in {"idle", "join"}

TreeInv == MemTreeTypeOK /\ RefInv /\ HeldInv /\ ListInv /\ PassInv /\ WalkInv /\ StopInv

-----------------------------------------------------------------------------
(* The types.                                                               *)

\* The last reference counts one; any other leaves one behind.
LEMMA HolderCount ==
  ASSUME TreeInv, NEW n \in Nodes
  PROVE  /\ IsFiniteSet(Holders(n))
         /\ \A u \in Users : n \in held[u] => refs[n] >= 1
         /\ refs[n] = 0 => \A u \in Users : n \notin held[u]
         /\ \A u, v \in Users : refs[n] = 1 /\ n \in held[u] \cap held[v] => u = v
  <1>1. IsFiniteSet(Holders(n))
    <2>1. Holders(n) \subseteq Users
      BY DEF Holders
    <2> QED
      BY <2>1, FS_Subset, MemTreeAssumption
  <1>2. refs[n] = Cardinality(Holders(n))
    BY DEF TreeInv, RefInv
  <1>3. Cardinality(Holders(n)) = 0 => Holders(n) = {}
    BY <1>1, FS_EmptySet
  <1>4. Cardinality(Holders(n)) = 1 => \E x : Holders(n) = {x}
    BY <1>1, FS_Singleton
  <1>5. Cardinality(Holders(n)) \in Nat
    BY <1>1, FS_CardinalityType
  <1>6. ASSUME NEW u \in Users, n \in held[u] PROVE refs[n] >= 1
    BY <1>2, <1>3, <1>5, <1>6 DEF Holders
  <1>7. refs[n] = 0 => \A u \in Users : n \notin held[u]
    BY <1>2, <1>3 DEF Holders
  <1>8. \A u, v \in Users : refs[n] = 1 /\ n \in held[u] \cap held[v] => u = v
    BY <1>2, <1>4 DEF Holders
  <1> QED
    BY <1>1, <1>6, <1>7, <1>8

LEMMA TypesNext == TreeInv /\ [TreeNext]_treeVars => MemTreeTypeOK'
  <1> SUFFICES ASSUME TreeInv, [TreeNext]_treeVars PROVE MemTreeTypeOK'
    OBVIOUS
  <1> USE MemTreeAssumption
      DEF MemTreeTypeOK, Passers, MoveTo, passVars, countVars, modeVars, FreeRecords, Back
  <1>0. MemTreeTypeOK
    BY DEF TreeInv
  <1>1. CASE UNCHANGED treeVars
    BY <1>0, <1>1 DEF treeVars
  <1>2. ASSUME NEW u \in Users, NEW n \in Nodes, Add(u, n) PROVE MemTreeTypeOK'
    BY <1>0, <1>2 DEF Add
  <1>3. ASSUME NEW u \in Users, NEW v \in Users, NEW n \in Nodes, Acquire(u, v, n)
        PROVE  MemTreeTypeOK'
    BY <1>0, <1>3 DEF Acquire
  <1>4. ASSUME NEW u \in Users, NEW n \in Nodes, Release(u, n) PROVE MemTreeTypeOK'
    <2>1. refs[n] >= 1
      BY <1>4, HolderCount DEF Release
    <2> QED
      BY <1>0, <1>4, <2>1 DEF Release
  <1>5. ASSUME NEW u \in Users, NEW n \in Nodes, RemoveNode(u, n) PROVE MemTreeTypeOK'
    BY <1>0, <1>5 DEF RemoveNode
  <1>6. ASSUME NEW n \in Nodes, Expire(n) PROVE MemTreeTypeOK'
    BY <1>0, <1>6 DEF Expire
  <1>7. ASSUME NEW u \in Users, Report(u) \/ Flag(u) \/ Rotate(u) PROVE MemTreeTypeOK'
    <2>1. CASE Report(u)
      BY <1>0, <2>1 DEF Report
    <2>2. CASE Flag(u)
      BY <1>0, <2>2 DEF Flag
    <2>3. CASE Rotate(u)
      BY <1>0, <2>3 DEF Rotate
    <2> QED
      BY <1>7, <2>1, <2>2, <2>3
  <1>8. ASSUME NEW t \in Passers, CheckPressure(t) \/ CheckNeeded(t) PROVE MemTreeTypeOK'
    <2>1. CASE CheckPressure(t)
      BY <1>0, <2>1 DEF CheckPressure
    <2>2. CASE CheckNeeded(t)
      BY <1>0, <2>2 DEF CheckNeeded
    <2> QED
      BY <1>8, <2>1, <2>2
  <1>9. ASSUME NEW t \in Passers, LockTree(t) \/ UnlockTree(t) PROVE MemTreeTypeOK'
    <2>1. CASE LockTree(t)
      BY <1>0, <2>1 DEF LockTree
    <2>2. CASE UnlockTree(t)
      BY <1>0, <2>2 DEF UnlockTree
    <2> QED
      BY <1>9, <2>1, <2>2
  <1>10. ASSUME NEW t \in Passers, Walk(t) PROVE MemTreeTypeOK'
    BY <1>0, <1>10 DEF Walk
  <1>11. ASSUME NEW t \in Passers, FreeBlock(t) PROVE MemTreeTypeOK'
    BY <1>0, <1>11 DEF FreeBlock
  <1>12. ASSUME NEW t \in Passers, FreeNode(t) PROVE MemTreeTypeOK'
    BY <1>0, <1>12 DEF FreeNode
  <1>13. ASSUME NEW t \in Passers, LoadPressure(t) \/ Settle(t) \/ ClearNeeded(t)
         PROVE  MemTreeTypeOK'
    <2>1. CASE LoadPressure(t)
      BY <1>0, <2>1 DEF LoadPressure
    <2>2. CASE Settle(t)
      BY <1>0, <2>2 DEF Settle
    <2>3. CASE ClearNeeded(t)
      BY <1>0, <2>3 DEF ClearNeeded
    <2> QED
      BY <1>13, <2>1, <2>2, <2>3
  <1>14. ASSUME NEW t \in Passers, Subtract(t) \/ ZeroPressure(t) PROVE MemTreeTypeOK'
    <2>1. CASE Subtract(t)
      BY <1>0, <2>1 DEF Subtract, Covered
    <2>2. CASE ZeroPressure(t)
      BY <1>0, <2>2 DEF ZeroPressure
    <2> QED
      BY <1>14, <2>1, <2>2
  <1>15. CASE CleanerTop \/ CleanerHints \/ CleanerLook \/ CleanerSleep
    <2>1. CASE CleanerTop
      BY <1>0, <2>1 DEF CleanerTop
    <2>2. CASE CleanerHints
      BY <1>0, <2>2 DEF CleanerHints
    <2>3. CASE CleanerLook
      BY <1>0, <2>3 DEF CleanerLook
    <2>4. CASE CleanerSleep
      BY <1>0, <2>4 DEF CleanerSleep
    <2> QED
      BY <1>15, <2>1, <2>2, <2>3, <2>4
  <1>16. ASSUME NEW u \in Users, NEW h \in {"work", "shutdown"}, Hint(u, h)
         PROVE  MemTreeTypeOK'
    BY <1>0, <1>16 DEF Hint
  <1>17. ASSUME NEW u \in Users, SetManual(u) \/ Joined(u) \/ SetAutomatic(u) \/ Destroy(u)
         PROVE  MemTreeTypeOK'
    <2>1. CASE SetManual(u)
      BY <1>0, <2>1 DEF SetManual, StopRequest
    <2>2. CASE Joined(u)
      BY <1>0, <2>2 DEF Joined
    <2>3. CASE SetAutomatic(u)
      BY <1>0, <2>3 DEF SetAutomatic
    <2>4. CASE Destroy(u)
      BY <1>0, <2>4 DEF Destroy, StopRequest
    <2> QED
      BY <1>17, <2>1, <2>2, <2>3, <2>4
  <1>18. ASSUME NEW u \in Users, FreeAll(u) PROVE MemTreeTypeOK'
    BY <1>0, <1>18 DEF FreeAll
  <1> QED
    BY <1>1, <1>2, <1>3, <1>4, <1>5, <1>6, <1>7, <1>8, <1>9, <1>10, <1>11, <1>12, <1>13,
       <1>14, <1>15, <1>16, <1>17, <1>18 DEF TreeNext, Pass

-----------------------------------------------------------------------------
(* Steps that touch no node, no reference and no list of a pass.            *)

placeVars == <<list, used, refs, held, frees, blockFreed, treeLock, todo, bag, current>>

Roams ==
    /\ UNCHANGED placeVars
    /\ \A t \in Passers : /\ step'[t] = "walk" <=> step[t] = "walk"
                          /\ step[t] = "drop" => step'[t] = "drop"
    /\ alive' => alive

\* The steps of a user that can change what is on the list or referenced ...
UserStep(u, n) ==
    Add(u, n) \/ Release(u, n) \/ RemoveNode(u, n) \/ \E v \in Users : Acquire(u, v, n)

\* ... and those of a pass.
PassStep(t) == LockTree(t) \/ Walk(t) \/ UnlockTree(t) \/ FreeBlock(t) \/ FreeNode(t)

LEMMA StepKinds ==
  ASSUME TreeInv, [TreeNext]_treeVars
  PROVE  \/ Roams
         \/ \E u \in Users, n \in Nodes : UserStep(u, n)
         \/ \E t \in Passers : PassStep(t)
         \/ \E u \in Users : FreeAll(u)
  <1> USE MemTreeAssumption
      DEF Roams, placeVars, MoveTo, passVars, countVars, modeVars, Back
  <1>0. MemTreeTypeOK /\ StopInv
    BY DEF TreeInv
  <1>1. CASE UNCHANGED treeVars
    BY <1>1 DEF treeVars
  <1>2. ASSUME NEW n \in Nodes, Expire(n) PROVE Roams
    BY <1>2 DEF Expire
  <1>3. ASSUME NEW u \in Users, Report(u) \/ Flag(u) \/ Rotate(u) PROVE Roams
    <2>1. CASE Report(u)
      BY <1>0, <2>1 DEF Report, MemTreeTypeOK
    <2>2. CASE Flag(u)
      BY <1>0, <2>2 DEF Flag, MemTreeTypeOK
    <2>3. CASE Rotate(u)
      BY <1>0, <2>3 DEF Rotate, MemTreeTypeOK
    <2> QED
      BY <1>3, <2>1, <2>2, <2>3
  <1>4. ASSUME NEW t \in Passers, CheckPressure(t) \/ CheckNeeded(t) PROVE Roams
    <2>1. CASE CheckPressure(t)
      BY <1>0, <2>1 DEF CheckPressure, MemTreeTypeOK
    <2>2. CASE CheckNeeded(t)
      BY <1>0, <2>2 DEF CheckNeeded, MemTreeTypeOK
    <2> QED
      BY <1>4, <2>1, <2>2
  <1>5. ASSUME NEW t \in Passers, LoadPressure(t) PROVE Roams
    BY <1>0, <1>5 DEF LoadPressure, MemTreeTypeOK
  <1>6. ASSUME NEW t \in Passers, Settle(t) \/ ClearNeeded(t) PROVE Roams
    <2>1. CASE Settle(t)
      BY <1>0, <2>1 DEF Settle, MemTreeTypeOK
    <2>2. CASE ClearNeeded(t)
      BY <1>0, <2>2 DEF ClearNeeded, MemTreeTypeOK
    <2> QED
      BY <1>6, <2>1, <2>2
  <1>7. ASSUME NEW t \in Passers, Subtract(t) \/ ZeroPressure(t) PROVE Roams
    <2>1. CASE Subtract(t)
      BY <1>0, <2>1 DEF Subtract, MemTreeTypeOK
    <2>2. CASE ZeroPressure(t)
      BY <1>0, <2>2 DEF ZeroPressure, MemTreeTypeOK
    <2> QED
      BY <1>7, <2>1, <2>2
  <1>8. CASE CleanerTop \/ CleanerHints \/ CleanerLook \/ CleanerSleep
    BY <1>0, <1>8 DEF CleanerTop, CleanerHints, CleanerLook, CleanerSleep, MemTreeTypeOK,
       Passers
  <1>9. ASSUME NEW u \in Users, NEW h \in {"work", "shutdown"}, Hint(u, h) PROVE Roams
    BY <1>9 DEF Hint
  <1>10. ASSUME NEW u \in Users, SetManual(u) \/ Joined(u) PROVE Roams
    BY <1>0, <1>10 DEF SetManual, Joined, MemTreeTypeOK, Passers
  <1>11. ASSUME NEW u \in Users, SetAutomatic(u) PROVE Roams
    BY <1>0, <1>11 DEF SetAutomatic, MemTreeTypeOK, StopInv, Passers
  <1>12. ASSUME NEW u \in Users, Destroy(u) PROVE Roams
    BY <1>0, <1>12 DEF Destroy, MemTreeTypeOK, Passers
  <1>13. Admins \subseteq Users /\ Rotators \subseteq Users /\ Users \subseteq Passers
           /\ Cleaner \in Passers
    BY DEF Passers
  <1> HIDE DEF Roams
  <1> QED
    BY <1>1, <1>2, <1>3, <1>4, <1>5, <1>6, <1>7, <1>8, <1>9, <1>10, <1>11, <1>12, <1>13
       DEF TreeNext, Pass, UserStep, PassStep

LEMMA StopNext == TreeInv /\ [TreeNext]_treeVars => StopInv'
  <1> SUFFICES ASSUME TreeInv, [TreeNext]_treeVars PROVE StopInv'
    OBVIOUS
  <1> USE MemTreeAssumption
      DEF MemTreeTypeOK, StopInv, Passers, MoveTo, passVars, countVars, modeVars, Back
  <1>0. MemTreeTypeOK /\ StopInv
    BY DEF TreeInv
  <1>1. CASE UNCHANGED treeVars
    BY <1>0, <1>1 DEF treeVars
  <1>2. ASSUME NEW u \in Users, NEW n \in Nodes, UserStep(u, n) PROVE StopInv'
    BY <1>0, <1>2 DEF UserStep, Add, Acquire, Release, RemoveNode
  <1>3. ASSUME NEW n \in Nodes, Expire(n) PROVE StopInv'
    BY <1>0, <1>3 DEF Expire
  <1>4. ASSUME NEW u \in Users, Report(u) \/ Flag(u) \/ Rotate(u) PROVE StopInv'
    BY <1>0, <1>4 DEF Report, Flag, Rotate
  <1>5. ASSUME NEW t \in Passers, CheckPressure(t) \/ CheckNeeded(t) PROVE StopInv'
    BY <1>0, <1>5 DEF CheckPressure, CheckNeeded
  <1>6. ASSUME NEW t \in Passers, LockTree(t) \/ UnlockTree(t) \/ Walk(t) PROVE StopInv'
    BY <1>0, <1>6 DEF LockTree, UnlockTree, Walk
  <1>7. ASSUME NEW t \in Passers, FreeBlock(t) \/ FreeNode(t) PROVE StopInv'
    BY <1>0, <1>7 DEF FreeBlock, FreeNode
  <1>8. ASSUME NEW t \in Passers, LoadPressure(t) \/ Settle(t) \/ ClearNeeded(t)
        PROVE  StopInv'
    BY <1>0, <1>8 DEF LoadPressure, Settle, ClearNeeded
  <1>9. ASSUME NEW t \in Passers, Subtract(t) \/ ZeroPressure(t) PROVE StopInv'
    BY <1>0, <1>9 DEF Subtract, ZeroPressure
  <1>10. CASE CleanerTop \/ CleanerHints \/ CleanerLook \/ CleanerSleep
    BY <1>0, <1>10 DEF CleanerTop, CleanerHints, CleanerLook, CleanerSleep
  <1>11. ASSUME NEW u \in Users, NEW h \in {"work", "shutdown"}, Hint(u, h) PROVE StopInv'
    BY <1>0, <1>11 DEF Hint
  <1>12. ASSUME NEW u \in Users, SetManual(u) \/ Joined(u) \/ SetAutomatic(u) PROVE StopInv'
    BY <1>0, <1>12 DEF SetManual, Joined, SetAutomatic
  <1>13. ASSUME NEW u \in Users, Destroy(u) \/ FreeAll(u) PROVE StopInv'
    BY <1>0, <1>13 DEF Destroy, FreeAll
  <1> QED
    BY <1>1, <1>2, <1>3, <1>4, <1>5, <1>6, <1>7, <1>8, <1>9, <1>10, <1>11, <1>12, <1>13
       DEF TreeNext, Pass, UserStep

-----------------------------------------------------------------------------
(* References.                                                              *)

LEMMA RefNext == TreeInv /\ [TreeNext]_treeVars => RefInv'
  <1> SUFFICES ASSUME TreeInv, [TreeNext]_treeVars, NEW m \in Nodes
               PROVE  refs'[m] = Cardinality(Holders(m)')
    BY DEF RefInv
  <1>0. /\ MemTreeTypeOK /\ refs[m] = Cardinality(Holders(m))
        /\ IsFiniteSet(Holders(m))
    BY HolderCount DEF TreeInv, RefInv
  <1>1. ASSUME UNCHANGED <<refs, held>> PROVE refs'[m] = Cardinality(Holders(m)')
    BY <1>0, <1>1 DEF Holders
  <1>2. ASSUME NEW u \in Users, u \notin Holders(m), refs'[m] = refs[m] + 1,
               Holders(m)' = Holders(m) \union {u}
        PROVE  refs'[m] = Cardinality(Holders(m)')
    BY <1>0, <1>2, FS_AddElement
  <1>3. ASSUME NEW u \in Users, u \in Holders(m), refs'[m] = refs[m] - 1,
               Holders(m)' = Holders(m) \ {u}
        PROVE  refs'[m] = Cardinality(Holders(m)')
    BY <1>0, <1>3, FS_RemoveElement
  <1>4. ASSUME NEW u \in Users, NEW n \in Nodes, UserStep(u, n)
        PROVE  refs'[m] = Cardinality(Holders(m)')
    <2>1. CASE n # m
      <3>1. refs'[m] = refs[m] /\ Holders(m)' = Holders(m)
        BY <1>0, <1>4, <2>1
           DEF UserStep, Add, Acquire, Release, RemoveNode, Holders, MemTreeTypeOK
      <3> QED
        BY <1>0, <3>1
    <2>2. CASE n = m /\ Add(u, n)
      <3>1. Holders(m) = {}
        BY <1>0, <2>2 DEF Add, TreeInv, HeldInv, ListInv, Holders
      <3>2. refs[m] = 0
        BY <1>0, <3>1, FS_EmptySet
      <3>3. u \notin Holders(m) /\ refs'[m] = refs[m] + 1
              /\ Holders(m)' = Holders(m) \union {u}
        BY <1>0, <2>2, <3>1, <3>2 DEF Add, MemTreeTypeOK, Holders
      <3> QED
        BY <1>2, <3>3
    <2>3. ASSUME n = m, NEW v \in Users, Acquire(u, v, n)
          PROVE  refs'[m] = Cardinality(Holders(m)')
      <3>1. u \notin Holders(m) /\ refs'[m] = refs[m] + 1
              /\ Holders(m)' = Holders(m) \union {u}
        BY <1>0, <2>3 DEF Acquire, MemTreeTypeOK, Holders
      <3> QED
        BY <1>2, <3>1
    <2>4. CASE n = m /\ (Release(u, n) \/ RemoveNode(u, n))
      <3>1. u \in Holders(m) /\ refs'[m] = refs[m] - 1
              /\ Holders(m)' = Holders(m) \ {u}
        BY <1>0, <2>4 DEF Release, RemoveNode, MemTreeTypeOK, Holders
      <3> QED
        BY <1>3, <3>1
    <2> QED
      BY <1>4, <2>1, <2>2, <2>3, <2>4 DEF UserStep
  <1>5. CASE Roams
    BY <1>1, <1>5 DEF Roams, placeVars
  <1>6. ASSUME NEW t \in Passers, PassStep(t) PROVE UNCHANGED <<refs, held>>
    BY <1>6 DEF PassStep, LockTree, Walk, UnlockTree, FreeBlock, FreeNode, countVars
  <1>7. ASSUME NEW u \in Users, FreeAll(u) PROVE UNCHANGED <<refs, held>>
    BY <1>7 DEF FreeAll
  <1> QED
    BY <1>1, <1>4, <1>5, <1>6, <1>7, StepKinds

LEMMA HeldNext == TreeInv /\ [TreeNext]_treeVars => HeldInv'
  <1> SUFFICES ASSUME TreeInv, [TreeNext]_treeVars PROVE HeldInv'
    OBVIOUS
  <1> USE DEF HeldInv, MoveTo, modeVars, countVars
  <1>0. MemTreeTypeOK /\ HeldInv /\ WalkInv
    BY DEF TreeInv
  <1>1. ASSUME NEW u \in Users, NEW n \in Nodes, UserStep(u, n) PROVE HeldInv'
    <2>1. CASE Add(u, n)
      BY <1>0, <2>1 DEF Add, MemTreeTypeOK
    <2>2. CASE Release(u, n)
      BY <1>0, <2>2 DEF Release, MemTreeTypeOK
    <2>3. CASE RemoveNode(u, n)
      <3>1. \A v \in Users : n \in held[v] => v = u
        BY <2>3, HolderCount DEF RemoveNode
      <3> QED
        BY <1>0, <2>3, <3>1 DEF RemoveNode, MemTreeTypeOK
    <2>4. ASSUME NEW v \in Users, Acquire(u, v, n) PROVE HeldInv'
      BY <1>0, <2>4 DEF Acquire, MemTreeTypeOK
    <2> QED
      BY <1>1, <2>1, <2>2, <2>3, <2>4 DEF UserStep
  <1>2. CASE Roams
    BY <1>0, <1>2 DEF Roams, placeVars
  <1>3. ASSUME NEW t \in Passers, Walk(t) PROVE HeldInv'
    <2>1. \A n \in Nodes : Garbage(n) => \A u \in Users : n \notin held[u]
      BY HolderCount DEF Garbage
    <2> QED
      BY <1>0, <1>3, <2>1 DEF Walk, MemTreeTypeOK
  <1>4. ASSUME NEW t \in Passers, LockTree(t) \/ UnlockTree(t) \/ FreeBlock(t) \/ FreeNode(t)
        PROVE  HeldInv'
    BY <1>0, <1>4 DEF LockTree, UnlockTree, FreeBlock, FreeNode
  <1>5. ASSUME NEW u \in Users, FreeAll(u) PROVE HeldInv'
    BY <1>5 DEF FreeAll
  <1> QED
    BY <1>1, <1>2, <1>3, <1>4, <1>5, StepKinds DEF PassStep

LEMMA WalkNext == TreeInv /\ [TreeNext]_treeVars => WalkInv'
  <1> SUFFICES ASSUME TreeInv, [TreeNext]_treeVars PROVE WalkInv'
    OBVIOUS
  <1> USE DEF WalkInv, MoveTo, modeVars, countVars, passVars, Passers
  <1>0. MemTreeTypeOK /\ WalkInv
    BY DEF TreeInv
  <1>1. ASSUME NEW u \in Users, NEW n \in Nodes, UserStep(u, n) PROVE WalkInv'
    <2>1. /\ UNCHANGED <<treeLock, todo>>
          /\ \A t \in Passers : step'[t] = "walk" <=> step[t] = "walk"
      BY <1>0, <1>1 DEF UserStep, Add, Release, RemoveNode, Acquire, MemTreeTypeOK
    <2>2. CASE Add(u, n) \/ Release(u, n) \/ \E v \in Users : Acquire(u, v, n)
      <3>1. list \subseteq list'
        BY <2>2 DEF Add, Release, Acquire
      <3> QED
        BY <1>0, <2>1, <3>1
    <2>3. CASE RemoveNode(u, n)
      <3>1. \A t \in Passers : step[t] # "walk"
        BY <1>0, <2>3, MemTreeAssumption DEF RemoveNode
      <3> QED
        BY <1>0, <2>1, <3>1
    <2> QED
      BY <1>1, <2>2, <2>3 DEF UserStep
  <1>2. CASE Roams
    <2>1. UNCHANGED <<list, treeLock, todo>>
      BY <1>2 DEF Roams, placeVars
    <2>2. \A t \in Passers : step'[t] = "walk" <=> step[t] = "walk"
      BY <1>2 DEF Roams
    <2> QED
      BY <1>0, <2>1, <2>2
  <1>3. ASSUME NEW t \in Passers, LockTree(t) PROVE WalkInv'
    BY <1>0, <1>3, MemTreeAssumption DEF LockTree, Lockable, MemTreeTypeOK
  <1>4. ASSUME NEW t \in Passers, Walk(t) PROVE WalkInv'
    BY <1>0, <1>4 DEF Walk, MemTreeTypeOK
  <1>5. ASSUME NEW t \in Passers, UnlockTree(t) PROVE WalkInv'
    BY <1>0, <1>5, MemTreeAssumption DEF UnlockTree, MemTreeTypeOK
  <1>6. ASSUME NEW t \in Passers, FreeBlock(t) PROVE WalkInv'
    BY <1>0, <1>6 DEF FreeBlock, MemTreeTypeOK
  <1>7. ASSUME NEW t \in Passers, FreeNode(t) PROVE WalkInv'
    BY <1>0, <1>7 DEF FreeNode, MemTreeTypeOK
  <1>8. ASSUME NEW u \in Users, FreeAll(u) PROVE WalkInv'
    <2>1. \A t \in Passers : step[t] # "walk"
      BY <1>8 DEF FreeAll, TreeInv, StopInv
    <2> QED
      BY <1>0, <1>8, <2>1 DEF FreeAll, MemTreeTypeOK
  <1> QED
    BY <1>1, <1>2, <1>3, <1>4, <1>5, <1>6, <1>7, <1>8, StepKinds DEF PassStep

-----------------------------------------------------------------------------
(* Where a node is.                                                         *)

LEMMA ListNext == TreeInv /\ [TreeNext]_treeVars => ListInv'
  <1> SUFFICES ASSUME TreeInv, [TreeNext]_treeVars PROVE ListInv'
    OBVIOUS
  <1> USE DEF ListInv, MoveTo, modeVars, countVars, passVars, FreeRecords, MemTreeTypeOK
  <1>0. MemTreeTypeOK /\ ListInv
    BY DEF TreeInv
  <1>1. ASSUME NEW u \in Users, NEW n \in Nodes, UserStep(u, n) PROVE ListInv'
    <2>1. CASE Add(u, n)
      BY <1>0, <2>1 DEF Add
    <2>2. CASE Release(u, n) \/ \E v \in Users : Acquire(u, v, n)
      BY <1>0, <2>2 DEF Release, Acquire
    <2>3. CASE RemoveNode(u, n)
      <3>1. n \in list
        BY <2>3 DEF RemoveNode, TreeInv, HeldInv
      <3> QED
        BY <1>0, <2>3, <3>1 DEF RemoveNode
    <2> QED
      BY <1>1, <2>1, <2>2, <2>3 DEF UserStep
  <1>2. CASE Roams
    BY <1>0, <1>2 DEF Roams, placeVars
  <1>3. ASSUME NEW t \in Passers, LockTree(t) \/ UnlockTree(t) \/ Walk(t) PROVE ListInv'
    BY <1>0, <1>3 DEF LockTree, UnlockTree, Walk
  <1>4. ASSUME NEW t \in Passers, FreeBlock(t) PROVE ListInv'
    <2>1. PICK n \in bag[t] : /\ blockFreed' = blockFreed \union {n}
                              /\ FreeRecords(IF InPointerMap THEN {n} ELSE {})
      BY <1>4 DEF FreeBlock
    <2>2. n \in used \ list /\ UNCHANGED <<list, used>>
      BY <1>4 DEF FreeBlock, TreeInv, PassInv, Unlinked
    <2> QED
      BY <1>0, <2>1, <2>2, MemTreeAssumption
  <1>5. ASSUME NEW t \in Passers, FreeNode(t) PROVE ListInv'
    <2>1. current[t] \subseteq used \ list /\ \A n \in current[t] : InPointerMap \/ frees[n] = 0
      BY DEF TreeInv, PassInv, Unlinked
    <2> QED
      BY <1>0, <1>5, <2>1 DEF FreeNode
  <1>6. ASSUME NEW u \in Users, FreeAll(u) PROVE ListInv'
    BY <1>0, <1>6 DEF FreeAll
  <1> QED
    BY <1>1, <1>2, <1>3, <1>4, <1>5, <1>6, StepKinds DEF PassStep

\* A step that frees or lists no node of a pass disturbs none of them.
LEMMA PassesKept ==
  ASSUME TreeInv, UNCHANGED <<bag, current>>,
         \A t \in Passers : /\ Unlinked(t) \subseteq used' \ list'
                            /\ \A n \in Unlinked(t) : frees'[n] = frees[n]
                            /\ step[t] = "drop" => step'[t] = "drop"
  PROVE  PassInv'
  BY DEF TreeInv, PassInv, Unlinked

LEMMA PassNext == TreeInv /\ [TreeNext]_treeVars => PassInv'
  <1> SUFFICES ASSUME TreeInv, [TreeNext]_treeVars PROVE PassInv'
    OBVIOUS
  <1> USE DEF MoveTo, modeVars, countVars, passVars
  <1>0. /\ MemTreeTypeOK /\ WalkInv /\ PassInv
        /\ \A t \in Passers : Unlinked(t) \subseteq used \ list /\ Unlinked(t) \subseteq Nodes
    BY DEF TreeInv, PassInv, Unlinked, MemTreeTypeOK
  <1>1. ASSUME NEW u \in Users, NEW n \in Nodes, UserStep(u, n) PROVE PassInv'
    <2>1. /\ UNCHANGED <<bag, current>> /\ used \subseteq used'
          /\ \A m \in used \ list : m \notin list'
          /\ \A t \in Passers : step[t] = "drop" => step'[t] = "drop"
      BY <1>0, <1>1 DEF UserStep, Add, Release, RemoveNode, Acquire, MemTreeTypeOK
    <2>2. \A m \in Nodes \ list : frees'[m] = frees[m]
      BY <1>0, <1>1 DEF UserStep, Add, Release, RemoveNode, Acquire, FreeRecords,
         MemTreeTypeOK, TreeInv, HeldInv
    <2>3. \A t \in Passers : /\ Unlinked(t) \subseteq used' \ list'
                             /\ \A m \in Unlinked(t) : frees'[m] = frees[m]
      BY <1>0, <2>1, <2>2
    <2> QED
      BY <2>1, <2>3, PassesKept
  <1>2. CASE Roams
    <2>1. UNCHANGED <<list, used, frees, bag, current>>
      BY <1>2 DEF Roams, placeVars
    <2>2. \A t \in Passers : step[t] = "drop" => step'[t] = "drop"
      BY <1>2 DEF Roams
    <2> QED
      BY <1>0, <2>1, <2>2, PassesKept
  <1>3. ASSUME NEW t \in Passers, LockTree(t) \/ UnlockTree(t) PROVE PassInv'
    BY <1>0, <1>3, PassesKept DEF LockTree, UnlockTree, MemTreeTypeOK
  <1>4. ASSUME NEW t \in Passers, Walk(t) PROVE PassInv'
    <2>1. PICK n \in todo[t] :
             /\ list' = IF Garbage(n) THEN list \ {n} ELSE list
             /\ bag' = IF Garbage(n) THEN [bag EXCEPT ![t] = @ \union {n}] ELSE bag
      BY <1>4 DEF Walk
    <2>2. n \in list /\ UNCHANGED <<used, frees, current, step>>
      BY <1>0, <1>4 DEF Walk, WalkInv
    <2>3. frees[n] = 0 /\ n \in used
      BY <2>2 DEF TreeInv, ListInv
    <2>4. CASE ~Garbage(n)
      BY <1>0, <2>1, <2>2, <2>4, PassesKept
    <2>5. CASE Garbage(n)
      <3>1. \A r \in Passers : /\ bag'[r] = IF r = t THEN bag[t] \union {n} ELSE bag[r]
                               /\ n \notin bag[r] /\ n \notin current[r]
        BY <1>0, <2>1, <2>2, <2>5 DEF MemTreeTypeOK, Unlinked
      <3>2. list' = list \ {n}
        BY <2>1, <2>5
      <3> QED
        BY <1>0, <2>2, <2>3, <3>1, <3>2 DEF PassInv, Unlinked
    <2> QED
      BY <2>4, <2>5
  <1>5. ASSUME NEW t \in Passers, FreeBlock(t) PROVE PassInv'
    <2>1. PICK n \in bag[t] :
             /\ current' = [current EXCEPT ![t] = {n}]
             /\ bag' = [bag EXCEPT ![t] = @ \ {n}]
             /\ FreeRecords(IF InPointerMap THEN {n} ELSE {})
      BY <1>5 DEF FreeBlock
    <2>2. UNCHANGED <<list, used>> /\ n \in Nodes /\ frees[n] = 0
      BY <1>0, <1>5 DEF FreeBlock, PassInv, Unlinked
    <2>3. \A r \in Passers : /\ bag'[r] = IF r = t THEN bag[t] \ {n} ELSE bag[r]
                             /\ current'[r] = IF r = t THEN {n} ELSE current[r]
      BY <1>0, <2>1 DEF MemTreeTypeOK
    <2>4. \A r \in Passers : step'[r] = IF r = t THEN "drop" ELSE step[r]
      BY <1>0, <1>5 DEF FreeBlock, MemTreeTypeOK
    <2>5. \A m \in Nodes : m # n \/ ~InPointerMap => frees'[m] = frees[m]
      BY <1>0, <2>1 DEF FreeRecords, MemTreeTypeOK
    <2>6. step[t] = "free" /\ current[t] = {}
      BY <1>0, <1>5 DEF FreeBlock, PassInv
    <2>7. ASSUME NEW r \in Passers
          PROVE  Unlinked(r)' = Unlinked(r)
      BY <2>3, <2>6 DEF Unlinked
    <2>8. ASSUME NEW r \in Passers, r # t, NEW m \in Unlinked(r)
          PROVE  frees'[m] = frees[m]
      BY <1>0, <2>1, <2>5, <2>8 DEF PassInv, Unlinked
    <2>9. ASSUME NEW r \in Passers
          PROVE  /\ bag'[r] \intersect current'[r] = {}
                 /\ current'[r] # {} => step'[r] = "drop"
                 /\ \A m \in bag'[r] : frees'[m] = 0
                 /\ \A m \in current'[r] : InPointerMap \/ frees'[m] = 0
      <3>1. CASE r = t
        BY <1>0, <2>2, <2>3, <2>4, <2>5, <3>1 DEF PassInv, Unlinked
      <3>2. CASE r # t
        BY <1>0, <2>3, <2>4, <2>8, <3>2 DEF PassInv, Unlinked
      <3> QED
        BY <3>1, <3>2
    <2>10. \A r \in Passers : /\ Unlinked(r)' \subseteq used' \ list'
                              /\ \A q \in Passers \ {r} : Unlinked(r)' \intersect Unlinked(q)' = {}
      BY <1>0, <2>2, <2>7 DEF PassInv
    <2> QED
      BY <2>9, <2>10 DEF PassInv
  <1>6. ASSUME NEW t \in Passers, FreeNode(t) PROVE PassInv'
    <2>1. /\ UNCHANGED <<list, used, bag>>
          /\ \A r \in Passers : /\ current'[r] = IF r = t THEN {} ELSE current[r]
                                /\ step'[r] = IF r = t THEN "free" ELSE step[r]
      BY <1>0, <1>6 DEF FreeNode, MemTreeTypeOK
    <2>2. \A m \in Nodes \ current[t] : frees'[m] = frees[m]
      BY <1>0, <1>6 DEF FreeNode, FreeRecords, MemTreeTypeOK
    <2> QED
      BY <1>0, <2>1, <2>2 DEF PassInv, Unlinked
  <1>7. ASSUME NEW u \in Users, FreeAll(u) PROVE PassInv'
    <2>1. /\ UNCHANGED <<used, bag, current>> /\ list' = {}
          /\ \A r \in Passers : step[r] = "drop" => step'[r] = "drop"
      BY <1>0, <1>7 DEF FreeAll, MemTreeTypeOK
    <2>2. \A m \in Nodes \ list : frees'[m] = frees[m]
      BY <1>0, <1>7 DEF FreeAll, FreeRecords, MemTreeTypeOK
    <2> QED
      BY <1>0, <2>1, <2>2, PassesKept
  <1> QED
    BY <1>1, <1>2, <1>3, <1>4, <1>5, <1>6, <1>7, StepKinds DEF PassStep

LEMMA TreeInvInit == TreeInit => TreeInv
  <1> SUFFICES ASSUME TreeInit PROVE TreeInv
    OBVIOUS
  <1>1. \A n \in Nodes : Holders(n) = {}
    BY DEF TreeInit, Holders
  <1>2. RefInv
    BY <1>1, FS_EmptySet DEF TreeInit, RefInv
  <1>3. MemTreeTypeOK
    BY MemTreeAssumption DEF TreeInit, MemTreeTypeOK, Passers
  <1>4. WalkInv
    BY MemTreeAssumption DEF TreeInit, WalkInv, Passers
  <1>5. HeldInv /\ ListInv /\ PassInv /\ StopInv
    BY MemTreeAssumption DEF TreeInit, HeldInv, ListInv, PassInv, Unlinked, StopInv, Passers
  <1> QED
    BY <1>2, <1>3, <1>4, <1>5 DEF TreeInv

LEMMA TreeInvNext == TreeInv /\ [TreeNext]_treeVars => TreeInv'
  BY TypesNext, RefNext, HeldNext, ListNext, PassNext, WalkNext, StopNext DEF TreeInv

-----------------------------------------------------------------------------
\* No call of a user, pass or switch of the mode takes a count below zero, a
\* node from nowhere or a thread to a place it does not have.
THEOREM TreeTypes == TreeSpec => []MemTreeTypeOK
  <1>1. TreeInv => MemTreeTypeOK
    BY DEF TreeInv
  <1> QED
    BY <1>1, TreeInvInit, TreeInvNext, PTL DEF TreeSpec

\* Whoever owns a reference can use the node and its block, however many passes
\* run at once, in the global tree as in any other.
THEOREM ReferencesHold == TreeSpec => []HeldAlive
  <1>1. TreeInv => HeldAlive
    BY DEF TreeInv, MemTreeTypeOK, HeldInv, ListInv, HeldAlive
  <1> QED
    BY <1>1, TreeInvInit, TreeInvNext, PTL DEF TreeSpec

\* Where no pointer map knows the nodes, passes, owners and the destruction of
\* the tree never free one twice; with the map they do (run mem_tree_global).
THEOREM NodesFreedOnce == ~InPointerMap => (TreeSpec => []NodeFreedOnce)
  <1> SUFFICES ASSUME ~InPointerMap PROVE TreeSpec => []NodeFreedOnce
    OBVIOUS
  <1>1. TreeInv => NodeFreedOnce
    BY DEF TreeInv, ListInv, NodeFreedOnce
  <1> QED
    BY <1>1, TreeInvInit, TreeInvNext, PTL DEF TreeSpec
=============================================================================
