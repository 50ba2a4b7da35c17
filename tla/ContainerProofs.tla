-------------------------- MODULE ContainerProofs ---------------------------
(***************************************************************************)
(* Proofs about DynamicMask, for every number of threads, bits and arrays:  *)
(* growth loses no bit and no count; a test, which takes no lock, reads no  *)
(* freed memory if its caller is in a section, and answers with a value its *)
(* bit had meanwhile where the memory it reads is there.                    *)
(* About Tables, for any keys, hash function and capacity: what is stored   *)
(* is found, through tombstones, wrapped probes and rehashes.  About        *)
(* Containers: the ring buffer is a queue, the pool lends no item twice.    *)
(* And about TaskQueue: its heap is one, and its pops come in order.        *)
(***************************************************************************)
EXTENDS DynamicMask, Tables, Containers, TaskQueue, Integers, FiniteSetsExt, FiniteSetTheorems,
        SequenceTheorems, WellFoundedInduction, TLAPS

-----------------------------------------------------------------------------
(* The inductive invariant.                                                 *)

MaskTypes ==
  /\ inside \subseteq Threads
  /\ status \in [Ptrs -> {"live", "retired", "freed"}]
  /\ pinned \in [Ptrs -> SUBSET Threads]
  /\ array \in [Ptrs -> [len : Nat, set : SUBSET Bits]]
  /\ bits \in Ptrs /\ capacity \in Nat /\ count \in Int
  /\ at \in [Threads -> {"idle", "cap", "read", "done", "copy", "swap", "put"}]
  /\ job \in [Threads -> Nat] /\ got \in [Threads -> Ptrs]
  /\ answer \in [Threads -> BOOLEAN]
  /\ wanted \subseteq Bits
  /\ seen \in [Threads -> SUBSET BOOLEAN]

\* An array without a length has not been allocated, let alone retired.
FreshInv == \A p \in Ptrs : array[p].len = 0 => status[p] = "live"

\* The current array holds the bits that are set, growing or not; only between
\* the two stores of a growth is the capacity ahead of its length.
CurrentInv ==
  /\ status[bits] = "live" /\ array[bits].len > 0
  /\ array[bits].set = wanted
  /\ IsFiniteSet(wanted) /\ count = Cardinality(wanted)
  /\ \A b \in wanted : b < capacity
  /\ \/ capacity = array[bits].len
     \/ \E t \in Setters : at[t] = "swap"

\* The array a writer has allocated is longer than the current one, holds what
\* that holds and is nobody else's yet.
SetterInv ==
  \A t \in Setters :
    /\ at[t] \in {"idle", "copy", "cap", "swap", "put"}
    /\ at[t] # "idle" => /\ job[t] \in Bits
                         /\ \A u \in Setters : u # t => at[u] = "idle"
    /\ at[t] = "copy" => capacity <= job[t]
    /\ at[t] = "put" => job[t] < capacity
    /\ at[t] \in {"cap", "swap"} =>
         /\ got[t] # bits /\ status[got[t]] = "live"
         /\ array[got[t]].set = wanted /\ job[t] < array[got[t]].len
         /\ \A r \in Testers : at[r] # "idle" => got[r] # got[t]
    /\ at[t] = "cap" => capacity < array[got[t]].len
    /\ at[t] = "swap" => capacity = array[got[t]].len

\* The array a tester has loaded waits for its caller's section, if there is
\* one, once it is retired.
TesterInv ==
  \A t \in Testers :
    /\ at[t] \in {"idle", "cap", "read", "done"}
    /\ at[t] # "idle" =>
         /\ job[t] \in Bits
         /\ array[got[t]].len > 0
         /\ t \in inside => \/ status[got[t]] = "live"
                            \/ status[got[t]] = "retired" /\ t \in pinned[got[t]]
    /\ at[t] = "read" => job[t] < capacity

\* What the bit under test is, and what the loaded array holds of it, the bit
\* was at some moment of the test; and so is the answer to come.
Saw(t) ==
  at[t] # "idle" => /\ (job[t] \in wanted) \in seen[t]
                    /\ (job[t] \in array[got[t]].set) \in seen[t]
Unguarded(t) == t \notin inside /\ status[got[t]] = "freed"
Answered(t) ==
  at[t] = "done" =>
    \/ answer[t] \in seen[t]
    \/ array[got[t]].len <= job[t] /\ job[t] < capacity
    \/ Unguarded(t)

AnswerInv == \A t \in Testers : Saw(t) /\ Answered(t)

MaskInv == MaskTypes /\ FreshInv /\ CurrentInv /\ SetterInv /\ TesterInv /\ AnswerInv

-----------------------------------------------------------------------------

LEMMA Truth == \A x, S : (x \in S) \in BOOLEAN
  OBVIOUS

\* What writing a bit leaves.
LEMMA Written ==
  ASSUME MaskInv, NEW i \in Bits, NEW v \in BOOLEAN, Write(i, v)
  PROVE  /\ wanted' = IF v THEN wanted \union {i} ELSE wanted \ {i}
         /\ wanted' \subseteq Bits /\ IsFiniteSet(wanted') /\ count' = Cardinality(wanted')
         /\ count' \in Int
         /\ array' \in [Ptrs -> [len : Nat, set : SUBSET Bits]]
         /\ \A p \in Ptrs : /\ array'[p].len = array[p].len
                            /\ array'[p].set = IF p = bits THEN wanted' ELSE array[p].set
         /\ seen' \in [Threads -> SUBSET BOOLEAN]
         /\ \A r \in Testers : seen'[r] = IF at[r] = "idle" THEN seen[r]
                                          ELSE seen[r] \union {(job[r] \in wanted')}
         /\ UNCHANGED <<bits, capacity, inside, status, pinned>>
  <1> USE DEF MaskTypes, CurrentInv
  <1>0. MaskTypes /\ CurrentInv
    BY DEF MaskInv
  <1>1. wanted' = IF v THEN wanted \union {i} ELSE wanted \ {i}
    BY DEF Write
  <1>2. /\ array' = [array EXCEPT ![bits].set = wanted']
        /\ count' = count + (IF wanted' = wanted THEN 0 ELSE IF v THEN 1 ELSE -1)
        /\ UNCHANGED <<bits, capacity, inside, status, pinned>>
    BY <1>0, <1>1 DEF Write, contract
  <1>3. seen' = [r \in Threads |-> IF at[r] = "idle" \/ r \notin Testers THEN seen[r]
                                   ELSE seen[r] \union {(job[r] \in wanted')}]
    BY <1>1 DEF Write
  <1>9. seen' \in [Threads -> SUBSET BOOLEAN]
    <2> DEFINE Then(r) == IF at[r] = "idle" \/ r \notin Testers THEN seen[r]
                          ELSE seen[r] \union {(job[r] \in wanted')}
    <2>1. ASSUME NEW r \in Threads PROVE Then(r) \subseteq BOOLEAN
      <3>1. {(job[r] \in wanted')} \subseteq BOOLEAN
        BY Truth
      <3> QED
        BY <1>0, <3>1
    <2>2. seen' = [r \in Threads |-> Then(r)]
      BY <1>3
    <2> HIDE DEF Then
    <2> QED
      BY <2>1, <2>2
  <1>10. \A r \in Testers : seen'[r] = IF at[r] = "idle" THEN seen[r]
                                       ELSE seen[r] \union {(job[r] \in wanted')}
    BY <1>3, MaskAssumption
  <1>4. wanted' \subseteq Bits
    BY <1>0, <1>1
  <1>5. /\ array' \in [Ptrs -> [len : Nat, set : SUBSET Bits]]
        /\ \A p \in Ptrs : /\ array'[p].len = array[p].len
                           /\ array'[p].set = IF p = bits THEN wanted' ELSE array[p].set
    BY <1>0, <1>2, <1>4
  <1>6. IsFiniteSet(wanted) /\ count = Cardinality(wanted)
    BY <1>0
  <1>7. IsFiniteSet(wanted') /\ count' = Cardinality(wanted')
    <2>1. CASE v
      BY <1>1, <1>2, <1>6, <2>1, FS_AddElement, FS_CardinalityType
    <2>2. CASE ~v
      BY <1>1, <1>2, <1>6, <2>2, FS_RemoveElement, FS_CardinalityType
    <2> QED
      BY <2>1, <2>2
  <1>8. count' \in Int
    BY <1>7, FS_CardinalityType
  <1> QED
    BY <1>1, <1>2, <1>4, <1>5, <1>7, <1>8, <1>9, <1>10

\* What the copy of a growing array is.
LEMMA Copying ==
  ASSUME MaskInv, NEW t \in Setters, NEW p \in Ptrs, GrowCopy(t, p)
  PROVE  /\ p # bits /\ status[p] = "live"
         /\ \A r \in Testers : at[r] # "idle" => got[r] # p
         /\ at[t] = "copy" /\ at' = [at EXCEPT ![t] = "cap"] /\ got' = [got EXCEPT ![t] = p]
         /\ array'[p].len \in Nat /\ job[t] < array'[p].len /\ array'[p].set = wanted
         /\ \A q \in Ptrs : q # p => array'[q] = array[q]
         /\ UNCHANGED <<bits, capacity, count, job, answer, wanted, seen, inside, status, pinned>>
  <1> USE DEF MaskTypes, FreshInv, CurrentInv, TesterInv
  <1>0. MaskTypes /\ FreshInv /\ CurrentInv /\ TesterInv
    BY DEF MaskInv
  <1>1. PICK c \in Grown(job[t]) : array' = [array EXCEPT ![p] = [len |-> c, set |-> Copied]]
    BY DEF GrowCopy
  <1>2. c \in Nat /\ job[t] < c
    BY <1>0, MaskAssumption DEF Grown
  <1>3. Copied = wanted
    BY <1>0 DEF Copied
  <1> QED
    BY <1>0, <1>1, <1>2, <1>3 DEF GrowCopy, Fresh, Step, contract

LEMMA TypesNext == MaskInv /\ [MaskNext]_<<maskVars, contract>> => MaskTypes'
  <1> SUFFICES ASSUME MaskInv, [MaskNext]_<<maskVars, contract>> PROVE MaskTypes'
    OBVIOUS
  <1> USE MaskAssumption DEF MaskTypes, Step, Reset
  <1>0. MaskTypes /\ CurrentInv
    BY DEF MaskInv
  <1>1. CASE UNCHANGED <<maskVars, contract>>
    BY <1>0, <1>1 DEF maskVars, contract
  <1>2. ASSUME NEW t \in Testers, NEW i \in Bits, TestBits(t, i) PROVE MaskTypes'
    BY <1>0, <1>2 DEF TestBits, contract
  <1>3. ASSUME NEW t \in Testers, TestCapacity(t) PROVE MaskTypes'
    BY <1>0, <1>3 DEF TestCapacity, contract
  <1>4. ASSUME NEW t \in Testers, TestWord(t) PROVE MaskTypes'
    <2>1. PICK v \in BOOLEAN : answer' = [answer EXCEPT ![t] = v]
      <3>1. PICK v \in IF Readable(t) THEN {(job[t] \in array[got[t]].set)}
                     ELSE BOOLEAN : answer' = [answer EXCEPT ![t] = v]
        BY <1>4 DEF TestWord
      <3>2. {(job[t] \in array[got[t]].set)} \subseteq BOOLEAN
        BY Truth
      <3>3. v \in BOOLEAN
        BY <3>2
      <3> QED
        BY <3>1, <3>3
    <2> QED
      BY <1>0, <1>4, <2>1 DEF TestWord, contract
  <1>5. ASSUME NEW t \in Testers, TestDone(t) PROVE MaskTypes'
    BY <1>0, <1>5 DEF TestDone, contract
  <1>6. ASSUME NEW t \in Setters, NEW i \in Bits, SetLock(t, i) PROVE MaskTypes'
    BY <1>0, <1>6 DEF SetLock, contract
  <1>7. ASSUME NEW t \in Setters, NEW p \in Ptrs, GrowCopy(t, p) PROVE MaskTypes'
    BY <1>0, <1>7 DEF GrowCopy, Grown, Copied, contract
  <1>8. ASSUME NEW t \in Setters, GrowFails(t) PROVE MaskTypes'
    BY <1>0, <1>8 DEF GrowFails, contract
  <1>9. ASSUME NEW t \in Setters, GrowCapacity(t) PROVE MaskTypes'
    BY <1>0, <1>9 DEF GrowCapacity, contract
  <1>10. ASSUME NEW t \in Setters, GrowSwap(t) PROVE MaskTypes'
    BY <1>0, <1>10 DEF GrowSwap, Outgrown, Retire
  <1>11. ASSUME NEW t \in Setters, Put(t) PROVE MaskTypes'
    <2>1. PICK i \in Bits : i = job[t] /\ Write(i, TRUE)
      BY <1>11 DEF Put, MaskInv, SetterInv
    <2>2. /\ wanted' \subseteq Bits /\ count' \in Int
          /\ array' \in [Ptrs -> [len : Nat, set : SUBSET Bits]]
          /\ seen' \in [Threads -> SUBSET BOOLEAN]
          /\ UNCHANGED <<bits, capacity, inside, status, pinned>>
      BY <2>1, Written
    <2> QED
      BY <1>0, <1>11, <2>2 DEF Put
  <1>12. ASSUME NEW t \in Setters, NEW i \in Bits, Clear(t, i) PROVE MaskTypes'
    <2>1. Write(i, FALSE)
      BY <1>12 DEF Clear
    <2>2. /\ wanted' \subseteq Bits /\ count' \in Int
          /\ array' \in [Ptrs -> [len : Nat, set : SUBSET Bits]]
          /\ seen' \in [Threads -> SUBSET BOOLEAN]
          /\ UNCHANGED <<bits, capacity, inside, status, pinned>>
      BY <2>1, Written
    <2> QED
      BY <1>0, <1>12, <2>2 DEF Clear
  <1>13. ASSUME NEW p \in Ptrs, Collect(p) PROVE MaskTypes'
    BY <1>0, <1>13 DEF Collect, Free, maskVars
  <1>14. ASSUME NEW t \in Testers, CallerEnters(t) \/ CallerLeaves(t) PROVE MaskTypes'
    <2>1. UNCHANGED <<maskVars, status>>
      BY <1>14 DEF CallerEnters, CallerLeaves, Enter, Leave
    <2>2. inside' \subseteq Threads
      BY <1>0, <1>14 DEF CallerEnters, CallerLeaves, Enter, Leave
    <2>3. pinned' \in [Ptrs -> SUBSET Threads]
      BY <1>0, <1>14 DEF CallerEnters, CallerLeaves, Enter, Leave
    <2> QED
      BY <1>0, <2>1, <2>2, <2>3 DEF maskVars
  <1> QED
    BY <1>1, <1>2, <1>3, <1>4, <1>5, <1>6, <1>7, <1>8, <1>9, <1>10, <1>11, <1>12, <1>13, <1>14
       DEF MaskNext

LEMMA FreshNext == MaskInv /\ [MaskNext]_<<maskVars, contract>> => FreshInv'
  <1> SUFFICES ASSUME MaskInv, [MaskNext]_<<maskVars, contract>> PROVE FreshInv'
    OBVIOUS
  <1> USE MaskAssumption DEF MaskTypes, FreshInv, CurrentInv, SetterInv, Step, Reset
  <1>0. MaskTypes /\ FreshInv /\ CurrentInv /\ SetterInv
    BY DEF MaskInv
  <1>1. CASE UNCHANGED <<maskVars, contract>>
    BY <1>0, <1>1 DEF maskVars, contract
  <1>2. ASSUME NEW t \in Testers, NEW i \in Bits, TestBits(t, i) PROVE FreshInv'
    BY <1>0, <1>2 DEF TestBits, contract
  <1>3. ASSUME NEW t \in Testers, TestCapacity(t) PROVE FreshInv'
    BY <1>0, <1>3 DEF TestCapacity, contract
  <1>4. ASSUME NEW t \in Testers, TestWord(t) PROVE FreshInv'
    BY <1>0, <1>4 DEF TestWord, contract
  <1>5. ASSUME NEW t \in Testers, TestDone(t) PROVE FreshInv'
    BY <1>0, <1>5 DEF TestDone, contract
  <1>6. ASSUME NEW t \in Setters, NEW i \in Bits, SetLock(t, i) PROVE FreshInv'
    BY <1>0, <1>6 DEF SetLock, contract
  <1>7. ASSUME NEW t \in Setters, NEW p \in Ptrs, GrowCopy(t, p) PROVE FreshInv'
    BY <1>0, <1>7 DEF GrowCopy, Grown, Copied, contract
  <1>8. ASSUME NEW t \in Setters, GrowFails(t) PROVE FreshInv'
    BY <1>0, <1>8 DEF GrowFails, contract
  <1>9. ASSUME NEW t \in Setters, GrowCapacity(t) PROVE FreshInv'
    BY <1>0, <1>9 DEF GrowCapacity, contract
  <1>10. ASSUME NEW t \in Setters, GrowSwap(t) PROVE FreshInv'
    BY <1>0, <1>10 DEF GrowSwap, Outgrown, Retire
  <1>11. ASSUME NEW t \in Setters, Put(t) PROVE FreshInv'
    BY <1>0, <1>11 DEF Put, Write, contract
  <1>12. ASSUME NEW t \in Setters, NEW i \in Bits, Clear(t, i) PROVE FreshInv'
    BY <1>0, <1>12 DEF Clear, Write, contract
  <1>13. ASSUME NEW p \in Ptrs, Collect(p) PROVE FreshInv'
    BY <1>0, <1>13 DEF Collect, Free, maskVars
  <1>14. ASSUME NEW t \in Testers, CallerEnters(t) \/ CallerLeaves(t) PROVE FreshInv'
    BY <1>0, <1>14 DEF CallerEnters, CallerLeaves, Enter, Leave, maskVars
  <1> QED
    BY <1>1, <1>2, <1>3, <1>4, <1>5, <1>6, <1>7, <1>8, <1>9, <1>10, <1>11, <1>12, <1>13, <1>14
       DEF MaskNext

LEMMA CurrentNext == MaskInv /\ [MaskNext]_<<maskVars, contract>> => CurrentInv'
  <1> SUFFICES ASSUME MaskInv, [MaskNext]_<<maskVars, contract>> PROVE CurrentInv'
    OBVIOUS
  <1> USE MaskAssumption DEF MaskTypes, CurrentInv, SetterInv, Step, Reset, Unlocked, InRange
  <1>0. MaskTypes /\ FreshInv /\ CurrentInv /\ SetterInv /\ TesterInv
    BY DEF MaskInv
  <1>1. CASE UNCHANGED <<maskVars, contract>>
    BY <1>0, <1>1 DEF maskVars, contract
  <1>2. ASSUME NEW t \in Testers, NEW i \in Bits, TestBits(t, i) PROVE CurrentInv'
    BY <1>0, <1>2 DEF TestBits, contract
  <1>3. ASSUME NEW t \in Testers, TestCapacity(t) PROVE CurrentInv'
    BY <1>0, <1>3 DEF TestCapacity, contract
  <1>4. ASSUME NEW t \in Testers, TestWord(t) PROVE CurrentInv'
    BY <1>0, <1>4 DEF TestWord, contract
  <1>5. ASSUME NEW t \in Testers, TestDone(t) PROVE CurrentInv'
    BY <1>0, <1>5 DEF TestDone, contract
  <1>6. ASSUME NEW t \in Setters, NEW i \in Bits, SetLock(t, i) PROVE CurrentInv'
    BY <1>0, <1>6 DEF SetLock, contract
  <1>7. ASSUME NEW t \in Setters, NEW p \in Ptrs, GrowCopy(t, p) PROVE CurrentInv'
    <2>1. /\ p # bits /\ array'[bits] = array[bits] /\ at[t] = "copy"
          /\ UNCHANGED <<bits, capacity, count, wanted, status>>
      BY <1>0, <1>7, Copying
    <2>2. capacity = array[bits].len
      BY <1>0, <2>1
    <2> QED
      BY <1>0, <2>1, <2>2
  <1>8. ASSUME NEW t \in Setters, GrowFails(t) PROVE CurrentInv'
    BY <1>0, <1>8 DEF GrowFails, contract
  <1>9. ASSUME NEW t \in Setters, GrowCapacity(t) PROVE CurrentInv'
    BY <1>0, <1>9 DEF GrowCapacity, contract
  <1>10. ASSUME NEW t \in Setters, GrowSwap(t) PROVE CurrentInv'
    BY <1>0, <1>10 DEF GrowSwap, Outgrown, Retire
  <1>11. ASSUME NEW t \in Setters, Put(t) PROVE CurrentInv'
    <2>1. PICK i \in Bits : i = job[t] /\ Write(i, TRUE)
      BY <1>0, <1>11 DEF Put
    <2>2. /\ wanted' = wanted \union {i} /\ count' = Cardinality(wanted') /\ IsFiniteSet(wanted')
          /\ \A p \in Ptrs : /\ array'[p].len = array[p].len
                             /\ array'[p].set = IF p = bits THEN wanted' ELSE array[p].set
          /\ UNCHANGED <<bits, capacity, inside, status, pinned>>
      BY <2>1, Written
    <2> QED
      BY <1>0, <1>11, <2>1, <2>2 DEF Put
  <1>12. ASSUME NEW t \in Setters, NEW i \in Bits, Clear(t, i) PROVE CurrentInv'
    <2>1. Write(i, FALSE)
      BY <1>12 DEF Clear
    <2>2. /\ wanted' = wanted \ {i} /\ count' = Cardinality(wanted') /\ IsFiniteSet(wanted')
          /\ \A p \in Ptrs : /\ array'[p].len = array[p].len
                             /\ array'[p].set = IF p = bits THEN wanted' ELSE array[p].set
          /\ UNCHANGED <<bits, capacity, inside, status, pinned>>
      BY <2>1, Written
    <2> QED
      BY <1>0, <1>12, <2>1, <2>2 DEF Clear
  <1>13. ASSUME NEW p \in Ptrs, Collect(p) PROVE CurrentInv'
    BY <1>0, <1>13 DEF Collect, Free, maskVars
  <1>14. ASSUME NEW t \in Testers, CallerEnters(t) \/ CallerLeaves(t) PROVE CurrentInv'
    <2>1. UNCHANGED <<maskVars, status>>
      BY <1>14 DEF CallerEnters, CallerLeaves, Enter, Leave
    <2> QED
      BY <1>0, <2>1 DEF maskVars
  <1> QED
    BY <1>1, <1>2, <1>3, <1>4, <1>5, <1>6, <1>7, <1>8, <1>9, <1>10, <1>11, <1>12, <1>13, <1>14
       DEF MaskNext

LEMMA SetterNext == MaskInv /\ [MaskNext]_<<maskVars, contract>> => SetterInv'
  <1> SUFFICES ASSUME MaskInv, [MaskNext]_<<maskVars, contract>> PROVE SetterInv'
    OBVIOUS
  <1> USE MaskAssumption DEF MaskTypes, FreshInv, CurrentInv, SetterInv, TesterInv, Step,
          Reset, Unlocked, InRange
  <1>0. MaskTypes /\ FreshInv /\ CurrentInv /\ SetterInv /\ TesterInv
    BY DEF MaskInv
  <1>1. CASE UNCHANGED <<maskVars, contract>>
    BY <1>0, <1>1 DEF maskVars, contract
  <1>2. ASSUME NEW t \in Testers, NEW i \in Bits, TestBits(t, i) PROVE SetterInv'
    BY <1>0, <1>2 DEF TestBits, contract
  <1>3. ASSUME NEW t \in Testers, TestCapacity(t) PROVE SetterInv'
    BY <1>0, <1>3 DEF TestCapacity, contract
  <1>4. ASSUME NEW t \in Testers, TestWord(t) PROVE SetterInv'
    BY <1>0, <1>4 DEF TestWord, contract
  <1>5. ASSUME NEW t \in Testers, TestDone(t) PROVE SetterInv'
    BY <1>0, <1>5 DEF TestDone, contract
  <1>6. ASSUME NEW t \in Setters, NEW i \in Bits, SetLock(t, i) PROVE SetterInv'
    BY <1>0, <1>6 DEF SetLock, contract
  <1>7. ASSUME NEW t \in Setters, NEW p \in Ptrs, GrowCopy(t, p) PROVE SetterInv'
    BY <1>0, <1>7, Copying
  <1>8. ASSUME NEW t \in Setters, GrowFails(t) PROVE SetterInv'
    BY <1>0, <1>8 DEF GrowFails, contract
  <1>9. ASSUME NEW t \in Setters, GrowCapacity(t) PROVE SetterInv'
    BY <1>0, <1>9 DEF GrowCapacity, contract
  <1>10. ASSUME NEW t \in Setters, GrowSwap(t) PROVE SetterInv'
    BY <1>0, <1>10 DEF GrowSwap, Outgrown, Retire
  <1>11. ASSUME NEW t \in Setters, Put(t) PROVE SetterInv'
    <2>1. PICK i \in Bits : i = job[t] /\ Write(i, TRUE)
      BY <1>0, <1>11 DEF Put
    <2>2. /\ wanted' = wanted \union {i} /\ count' = Cardinality(wanted') /\ IsFiniteSet(wanted')
          /\ \A p \in Ptrs : /\ array'[p].len = array[p].len
                             /\ array'[p].set = IF p = bits THEN wanted' ELSE array[p].set
          /\ UNCHANGED <<bits, capacity, inside, status, pinned>>
      BY <2>1, Written
    <2> QED
      BY <1>0, <1>11, <2>1, <2>2 DEF Put
  <1>12. ASSUME NEW t \in Setters, NEW i \in Bits, Clear(t, i) PROVE SetterInv'
    <2>1. Write(i, FALSE)
      BY <1>12 DEF Clear
    <2>2. /\ wanted' = wanted \ {i} /\ count' = Cardinality(wanted') /\ IsFiniteSet(wanted')
          /\ \A p \in Ptrs : /\ array'[p].len = array[p].len
                             /\ array'[p].set = IF p = bits THEN wanted' ELSE array[p].set
          /\ UNCHANGED <<bits, capacity, inside, status, pinned>>
      BY <2>1, Written
    <2> QED
      BY <1>0, <1>12, <2>1, <2>2 DEF Clear
  <1>13. ASSUME NEW p \in Ptrs, Collect(p) PROVE SetterInv'
    BY <1>0, <1>13 DEF Collect, Free, maskVars
  <1>14. ASSUME NEW t \in Testers, CallerEnters(t) \/ CallerLeaves(t) PROVE SetterInv'
    BY <1>0, <1>14 DEF CallerEnters, CallerLeaves, Enter, Leave, maskVars
  <1> QED
    BY <1>1, <1>2, <1>3, <1>4, <1>5, <1>6, <1>7, <1>8, <1>9, <1>10, <1>11, <1>12, <1>13, <1>14
       DEF MaskNext

LEMMA TesterNext == MaskInv /\ [MaskNext]_<<maskVars, contract>> => TesterInv'
  <1> SUFFICES ASSUME MaskInv, [MaskNext]_<<maskVars, contract>> PROVE TesterInv'
    OBVIOUS
  <1> USE MaskAssumption
      DEF MaskTypes, FreshInv, CurrentInv, SetterInv, TesterInv, Step, Reset, Unlocked, InRange
  <1>0. MaskTypes /\ FreshInv /\ CurrentInv /\ SetterInv /\ TesterInv
    BY DEF MaskInv
  <1>1. CASE UNCHANGED <<maskVars, contract>>
    BY <1>0, <1>1 DEF maskVars, contract
  <1>2. ASSUME NEW t \in Testers, NEW i \in Bits, TestBits(t, i) PROVE TesterInv'
    BY <1>0, <1>2 DEF TestBits, contract
  <1>3. ASSUME NEW t \in Testers, TestCapacity(t) PROVE TesterInv'
    BY <1>0, <1>3 DEF TestCapacity, contract
  <1>4. ASSUME NEW t \in Testers, TestWord(t) PROVE TesterInv'
    BY <1>0, <1>4 DEF TestWord, contract
  <1>5. ASSUME NEW t \in Testers, TestDone(t) PROVE TesterInv'
    BY <1>0, <1>5 DEF TestDone, contract
  <1>6. ASSUME NEW t \in Setters, NEW i \in Bits, SetLock(t, i) PROVE TesterInv'
    BY <1>0, <1>6 DEF SetLock, contract
  <1>7. ASSUME NEW t \in Setters, NEW p \in Ptrs, GrowCopy(t, p) PROVE TesterInv'
    BY <1>0, <1>7, Copying
  <1>8. ASSUME NEW t \in Setters, GrowFails(t) PROVE TesterInv'
    BY <1>0, <1>8 DEF GrowFails, contract
  <1>9. ASSUME NEW t \in Setters, GrowCapacity(t) PROVE TesterInv'
    BY <1>0, <1>9 DEF GrowCapacity, contract
  <1>10. ASSUME NEW t \in Setters, GrowSwap(t) PROVE TesterInv'
    BY <1>0, <1>10 DEF GrowSwap, Outgrown, Retire
  <1>11. ASSUME NEW t \in Setters, Put(t) PROVE TesterInv'
    <2>1. PICK i \in Bits : i = job[t] /\ Write(i, TRUE)
      BY <1>0, <1>11 DEF Put
    <2>2. /\ \A p \in Ptrs : array'[p].len = array[p].len
          /\ UNCHANGED <<bits, capacity, inside, status, pinned>>
      BY <2>1, Written
    <2> QED
      BY <1>0, <1>11, <2>2 DEF Put
  <1>12. ASSUME NEW t \in Setters, NEW i \in Bits, Clear(t, i) PROVE TesterInv'
    <2>1. Write(i, FALSE)
      BY <1>12 DEF Clear
    <2>2. /\ \A p \in Ptrs : array'[p].len = array[p].len
          /\ UNCHANGED <<bits, capacity, inside, status, pinned>>
      BY <2>1, Written
    <2> QED
      BY <1>0, <1>12, <2>2 DEF Clear
  <1>13. ASSUME NEW p \in Ptrs, Collect(p) PROVE TesterInv'
    BY <1>0, <1>13 DEF Collect, Free, maskVars
  <1>14. ASSUME NEW t \in Testers, CallerEnters(t) \/ CallerLeaves(t) PROVE TesterInv'
    BY <1>0, <1>14 DEF CallerEnters, CallerLeaves, Enter, Leave, maskVars
  <1> QED
    BY <1>1, <1>2, <1>3, <1>4, <1>5, <1>6, <1>7, <1>8, <1>9, <1>10, <1>11, <1>12, <1>13, <1>14
       DEF MaskNext

-----------------------------------------------------------------------------
(* Answers.  Truth values are members of `seen` here, which is why these      *)
(* steps first say what stays and only then look into Saw.                    *)

LEMMA SawKept ==
  ASSUME NEW t \in Testers, Saw(t), at'[t] # "idle" => at[t] # "idle",
         job'[t] = job[t], seen'[t] = seen[t], wanted' = wanted,
         array'[got'[t]] = array[got[t]]
  PROVE  Saw(t)'
  BY Zenon DEF Saw

LEMMA AnswerKept ==
  ASSUME NEW t \in Testers, job[t] \in Nat, Answered(t), at'[t] = at[t],
         job'[t] = job[t], seen'[t] = seen[t], answer'[t] = answer[t],
         array'[got'[t]].len = array[got[t]].len, Unguarded(t) => Unguarded(t)',
         capacity \in Nat, capacity' \in Nat, capacity <= capacity'
  PROVE  Answered(t)'
  BY DEF Answered

\* Every test that is under way has seen what a write makes of its bit.
LEMMA SawWrite ==
  ASSUME NEW t \in Testers, Saw(t), at'[t] # "idle" => at[t] # "idle",
         job'[t] = job[t], got'[t] = got[t],
         at[t] # "idle" => seen'[t] = seen[t] \union {(job[t] \in wanted')},
         array'[got[t]].set = IF got[t] = bits THEN wanted' ELSE array[got[t]].set
  PROVE  Saw(t)'
  <1> SUFFICES ASSUME at'[t] # "idle"
               PROVE  /\ (job'[t] \in wanted') \in seen'[t]
                      /\ (job'[t] \in array'[got'[t]].set) \in seen'[t]
    BY DEF Saw
  <1>1. (job[t] \in wanted') \in seen'[t]
    OBVIOUS
  <1>2. CASE got[t] = bits
    BY <1>1, <1>2
  <1>3. CASE got[t] # bits
    BY <1>1, <1>3 DEF Saw
  <1> QED
    BY <1>2, <1>3

LEMMA Falsehood ==
  ASSUME NEW x, NEW S, NEW T, (x \in S) \in T, x \notin S
  PROVE  FALSE \in T
  <1>1. (x \in S) = FALSE
    OBVIOUS
  <1> QED
    BY <1>1, Zenon

LEMMA AnswerNext == MaskInv /\ [MaskNext]_<<maskVars, contract>> => AnswerInv'
  <1> SUFFICES ASSUME MaskInv, [MaskNext]_<<maskVars, contract>>, NEW r \in Testers
               PROVE  Saw(r)' /\ Answered(r)'
    BY DEF AnswerInv
  <1>0. /\ MaskTypes /\ CurrentInv /\ SetterInv /\ TesterInv /\ Saw(r) /\ Answered(r)
        /\ r \in Threads /\ Testers \intersect Setters = {} /\ Setters \subseteq Threads
        /\ Testers \subseteq Threads
    BY MaskAssumption DEF MaskInv, AnswerInv
  <1>1. ASSUME /\ at'[r] = at[r] /\ job'[r] = job[r] /\ seen'[r] = seen[r]
               /\ answer'[r] = answer[r] /\ wanted' = wanted
               /\ array'[got'[r]] = array[got[r]] /\ capacity' \in Nat /\ capacity <= capacity'
               /\ Unguarded(r) => Unguarded(r)'
        PROVE  Saw(r)' /\ Answered(r)'
    BY <1>0, <1>1, SawKept, AnswerKept DEF MaskTypes
  <1>2. CASE UNCHANGED <<maskVars, contract>>
    BY <1>0, <1>1, <1>2 DEF maskVars, contract, MaskTypes, Unguarded
  <1>3. ASSUME NEW t \in Testers, NEW i \in Bits, TestBits(t, i) PROVE Saw(r)' /\ Answered(r)'
    <2>1. CASE r # t
      <3>1. /\ at'[r] = at[r] /\ job'[r] = job[r] /\ seen'[r] = seen[r] /\ got'[r] = got[r]
            /\ UNCHANGED <<answer, wanted, array, capacity, inside, status>>
        BY <1>0, <1>3, <2>1 DEF TestBits, Step, MaskTypes, contract
      <3> QED
        BY <1>0, <1>1, <3>1 DEF MaskTypes, Unguarded
    <2>2. CASE r = t
      <3>1. /\ at'[r] = "cap" /\ job'[r] = i /\ got'[r] = bits /\ seen'[r] = {(i \in wanted)}
            /\ UNCHANGED <<wanted, array>>
        BY <1>0, <1>3, <2>2, Zenon DEF TestBits, Step, MaskTypes
      <3>2. array[bits].set = wanted
        BY <1>0 DEF CurrentInv
      <3>3. (i \in wanted) \in {(i \in wanted)}
        OBVIOUS
      <3>4. (job'[r] \in wanted') \in seen'[r]
        BY <3>1, <3>3, Zenon
      <3>5. (job'[r] \in array'[got'[r]].set) \in seen'[r]
        BY <3>1, <3>2, <3>3, Zenon
      <3> QED
        BY <3>1, <3>4, <3>5 DEF Saw, Answered
    <2> QED
      BY <2>1, <2>2
  <1>4. ASSUME NEW t \in Testers, TestCapacity(t) PROVE Saw(r)' /\ Answered(r)'
    <2>1. /\ at[t] = "cap"
          /\ UNCHANGED <<array, capacity, job, got, wanted, seen, inside, status>>
          /\ at'[r] = IF r = t THEN IF job[t] < capacity THEN "read" ELSE "done" ELSE at[r]
          /\ answer'[r] = IF r = t THEN FALSE ELSE answer[r]
      BY <1>0, <1>4 DEF TestCapacity, Step, MaskTypes, InRange, contract
    <2>2. CASE r # t
      BY <1>0, <1>1, <2>1, <2>2 DEF MaskTypes, Unguarded
    <2>3. CASE r = t
      <3>1. Saw(r)'
        BY <1>0, <2>1, <2>3, SawKept
      <3>2. ASSUME ~(job[r] < capacity) PROVE FALSE \in seen[r]
        <4>1. job[r] \notin wanted
          BY <1>0, <3>2 DEF MaskTypes, CurrentInv
        <4>2. (job[r] \in wanted) \in seen[r]
          BY <1>0, <2>1, <2>3 DEF Saw
        <4> QED
          BY <4>1, <4>2, Falsehood
      <3>3. Answered(r)'
        BY <2>1, <2>3, <3>2 DEF Answered
      <3> QED
        BY <3>1, <3>3
    <2> QED
      BY <2>2, <2>3
  <1>5. ASSUME NEW t \in Testers, TestWord(t) PROVE Saw(r)' /\ Answered(r)'
    <2>1. PICK v \in IF Readable(t) THEN {(job[t] \in array[got[t]].set)}
                   ELSE BOOLEAN : answer' = [answer EXCEPT ![t] = v]
      BY <1>5 DEF TestWord
    <2>2. /\ at[t] = "read"
          /\ UNCHANGED <<array, capacity, job, got, wanted, seen, inside, status>>
          /\ at'[r] = IF r = t THEN "done" ELSE at[r]
          /\ answer'[r] = IF r = t THEN v ELSE answer[r]
      BY <1>0, <1>5, <2>1 DEF TestWord, Step, MaskTypes, contract
    <2>3. CASE r # t
      BY <1>0, <1>1, <2>2, <2>3 DEF MaskTypes, Unguarded
    <2>4. CASE r = t
      <3>1. Saw(r)'
        BY <1>0, <2>2, <2>4, SawKept
      <3>2. CASE Readable(t)
        <4>1. (job[t] \in array[got[t]].set) \in seen[t]
          BY <1>0, <2>2, <2>4 DEF Saw
        <4>2. v = (job[t] \in array[got[t]].set)
          BY <2>1, <3>2
        <4>3. v \in seen[t]
          BY <4>1, <4>2
        <4> QED
          BY <2>2, <2>4, <3>1, <4>3 DEF Answered
      <3>3. CASE ~(job[t] < array[got[t]].len)
        <4>1. array[got[t]].len <= job[t] /\ job[t] < capacity
          BY <1>0, <2>2, <3>3 DEF TesterInv, MaskTypes
        <4> QED
          BY <2>2, <2>4, <3>1, <4>1 DEF Answered
      <3>4. CASE status[got[t]] = "freed"
        <4>1. Unguarded(r)'
          BY <1>0, <2>2, <2>4, <3>4 DEF TesterInv, Unguarded
        <4> QED
          BY <3>1, <4>1 DEF Answered
      <3> QED
        BY <3>2, <3>3, <3>4 DEF Readable
    <2> QED
      BY <2>3, <2>4
  <1>6. ASSUME NEW t \in Testers, TestDone(t) PROVE Saw(r)' /\ Answered(r)'
    <2>1. CASE r # t
      <3>1. /\ at'[r] = at[r] /\ job'[r] = job[r] /\ seen'[r] = seen[r] /\ got'[r] = got[r]
            /\ answer'[r] = answer[r]
            /\ UNCHANGED <<wanted, array, capacity, inside, status>>
        BY <1>0, <1>6, <2>1 DEF TestDone, Step, Reset, MaskTypes, contract
      <3> QED
        BY <1>0, <1>1, <3>1 DEF MaskTypes, Unguarded
    <2>2. CASE r = t
      <3>1. at'[r] = "idle"
        BY <1>0, <1>6, <2>2 DEF TestDone, Step, MaskTypes
      <3> QED
        BY <3>1 DEF Saw, Answered
    <2> QED
      BY <2>1, <2>2
  <1>7. ASSUME NEW t \in Setters,
               (\E i \in Bits : SetLock(t, i)) \/ GrowFails(t) \/ GrowCapacity(t) \/ GrowSwap(t)
        PROVE  Saw(r)' /\ Answered(r)'
    <2>1. /\ at'[r] = at[r] /\ job'[r] = job[r] /\ answer'[r] = answer[r] /\ got'[r] = got[r]
          /\ UNCHANGED <<wanted, array, seen>>
      BY <1>0, <1>7
         DEF SetLock, GrowFails, GrowCapacity, GrowSwap, Step, Reset, MaskTypes
    <2>2. capacity' \in Nat /\ capacity <= capacity'
      BY <1>0, <1>7
         DEF SetLock, GrowFails, GrowCapacity, GrowSwap, Step, SetterInv, MaskTypes
    <2>3. inside' = inside /\ (status[got[r]] = "freed" => status'[got[r]] = "freed")
      BY <1>0, <1>7
         DEF SetLock, GrowFails, GrowCapacity, GrowSwap, Outgrown, Retire, CurrentInv,
             MaskTypes, contract
    <2> QED
      BY <1>1, <2>1, <2>2, <2>3 DEF Unguarded
  <1>8. ASSUME NEW t \in Setters, NEW p \in Ptrs, GrowCopy(t, p) PROVE Saw(r)' /\ Answered(r)'
    <2>1. /\ at'[r] = at[r] /\ got'[r] = got[r]
          /\ UNCHANGED <<job, answer, seen, wanted, capacity, inside, status>>
      BY <1>0, <1>8, Copying DEF MaskTypes
    <2>2. CASE at[r] = "idle"
      BY <2>1, <2>2 DEF Saw, Answered
    <2>3. CASE at[r] # "idle"
      <3>1. array'[got[r]] = array[got[r]]
        BY <1>0, <1>8, <2>3, Copying DEF MaskTypes
      <3> QED
        BY <1>0, <1>1, <2>1, <3>1 DEF MaskTypes, Unguarded
    <2> QED
      BY <2>2, <2>3
  <1>9. ASSUME NEW t \in Setters, NEW i \in Bits, NEW v \in BOOLEAN, Write(i, v),
               at'[r] = at[r], job'[r] = job[r], got'[r] = got[r], answer'[r] = answer[r]
        PROVE  Saw(r)' /\ Answered(r)'
    <2>1. /\ array'[got[r]].set = IF got[r] = bits THEN wanted' ELSE array[got[r]].set
          /\ array'[got[r]].len = array[got[r]].len
          /\ UNCHANGED <<bits, capacity, inside, status>>
      BY <1>0, <1>9, Written DEF MaskTypes
    <2>2. seen'[r] = IF at[r] = "idle" THEN seen[r] ELSE seen[r] \union {(job[r] \in wanted')}
      BY <1>9, Written
    <2>3. Saw(r)'
      BY <1>0, <1>9, <2>1, <2>2, SawWrite
    <2>4. seen[r] \subseteq seen'[r]
      BY <2>2
    <2>5. Answered(r)'
      BY <1>0, <1>9, <2>1, <2>4 DEF Answered, Unguarded, MaskTypes
    <2> QED
      BY <2>3, <2>5
  <1>10. ASSUME NEW t \in Setters, Put(t) \/ \E i \in Bits : Clear(t, i)
         PROVE  Saw(r)' /\ Answered(r)'
    <2>1. at'[r] = at[r] /\ job'[r] = job[r] /\ got'[r] = got[r] /\ answer'[r] = answer[r]
      <3>1. CASE Put(t)
        BY <1>0, <3>1 DEF Put, Step, Reset, MaskTypes
      <3>2. CASE \E i \in Bits : Clear(t, i)
        BY <3>2 DEF Clear
      <3> QED
        BY <1>10, <3>1, <3>2
    <2>2. \E i \in Bits, v \in BOOLEAN : Write(i, v)
      <3>1. CASE Put(t)
        <4>1. PICK i \in Bits : i = job[t] /\ Write(i, TRUE)
          BY <1>0, <3>1 DEF Put, Step, SetterInv
        <4> QED
          BY <4>1
      <3>2. CASE \E i \in Bits : Clear(t, i)
        BY <3>2 DEF Clear
      <3> QED
        BY <1>10, <3>1, <3>2
    <2> QED
      BY <1>9, <2>1, <2>2
  <1>11. ASSUME NEW p \in Ptrs, Collect(p) PROVE Saw(r)' /\ Answered(r)'
    BY <1>0, <1>1, <1>11 DEF Collect, Free, maskVars, MaskTypes, Unguarded
  <1>12. ASSUME NEW t \in Testers, CallerEnters(t) \/ CallerLeaves(t)
         PROVE  Saw(r)' /\ Answered(r)'
    <2>1. at[t] = "idle" /\ UNCHANGED maskVars
      BY <1>12 DEF CallerEnters, CallerLeaves
    <2>2. CASE r = t
      BY <2>1, <2>2 DEF Saw, Answered, maskVars
    <2>3. CASE r # t
      <3>1. (r \in inside') = (r \in inside) /\ status' = status
        BY <1>12, <2>3 DEF CallerEnters, CallerLeaves, Enter, Leave
      <3> QED
        BY <1>0, <1>1, <2>1, <3>1 DEF maskVars, MaskTypes, Unguarded
    <2> QED
      BY <2>2, <2>3
  <1> QED
    BY <1>2, <1>3, <1>4, <1>5, <1>6, <1>7, <1>8, <1>10, <1>11, <1>12 DEF MaskNext

LEMMA MaskInvInit == MaskInit => MaskInv
  <1> SUFFICES ASSUME MaskInit PROVE MaskInv
    OBVIOUS
  <1> USE MaskAssumption DEF MaskInit, Init
  <1>1. MaskTypes
    BY DEF MaskTypes
  <1>2. CurrentInv
    <2>1. IsFiniteSet({}) /\ Cardinality({}) = 0
      BY FS_EmptySet
    <2> QED
      BY <2>1 DEF CurrentInv
  <1>3. FreshInv /\ SetterInv /\ TesterInv
    BY DEF FreshInv, SetterInv, TesterInv
  <1>4. AnswerInv
    <2> SUFFICES ASSUME NEW t \in Testers PROVE Saw(t) /\ Answered(t)
      BY DEF AnswerInv
    <2>1. at[t] = "idle"
      OBVIOUS
    <2>2. Saw(t)
      BY ONLY <2>1 DEF Saw
    <2>3. Answered(t)
      BY ONLY <2>1 DEF Answered
    <2> QED
      BY <2>2, <2>3
  <1> QED
    BY <1>1, <1>2, <1>3, <1>4 DEF MaskInv

LEMMA MaskInvNext == MaskInv /\ [MaskNext]_<<maskVars, contract>> => MaskInv'
  BY TypesNext, FreshNext, CurrentNext, SetterNext, TesterNext, AnswerNext DEF MaskInv

-----------------------------------------------------------------------------
\* Whatever the writers set, clear and let grow, between two calls the current
\* array, its length and the count are those of the bits they mean.
THEOREM GrowthKeepsBits == MaskSpec => []MaskExact
  <1>1. MaskInv => MaskExact
    BY DEF MaskInv, CurrentInv, MaskExact, Unlocked
  <1> QED
    BY <1>1, MaskInvInit, MaskInvNext, PTL DEF MaskSpec

\* A test whose caller is in a section reads no array that the epoch manager has
\* freed.  Any test answers what its bit was meanwhile, unless the bit lies beyond
\* the array it loaded or the array was freed under a caller in no section.
THEOREM TestsLinear == MaskSpec => []TestLinear
  <1>1. MaskInv => TestLinear
    BY MaskAssumption
    DEF MaskInv, TesterInv, AnswerInv, Answered, Unguarded, MaskTypes, TestLinear
  <1> QED
    BY <1>1, MaskInvInit, MaskInvNext, PTL DEF MaskSpec

(***************************************************************************)
(* Tables.                                                                  *)
(***************************************************************************)

\* A finite set of integers that is not empty has a least element.
LEMMA LeastOfFinite ==
    ASSUME NEW S, S \subseteq Int, IsFiniteSet(S), S # {}
    PROVE  Min(S) \in S /\ \A y \in S : Min(S) <= y
<1> DEFINE Below(x) == {y \in S : y < x}
           T == {Below(x) : x \in S}
           R == StrictSubsetOrdering(S)
<1>1. \E U \in T : \A V \in T : ~ (<<V, U>> \in R)
  <2>1. T # {}
    OBVIOUS
  <2>2. \A x \in S : Below(x) \in SUBSET S /\ IsFiniteSet(Below(x))
    BY FS_Subset
  <2>3. T \subseteq FiniteSubsetsOf(S)
    BY <2>2 DEF FiniteSubsetsOf
  <2>4. IsWellFoundedOn(R, FiniteSubsetsOf(S))
    BY FS_StrictSubsetOrderingWellFounded
  <2> HIDE DEF T, R
  <2> QED
    BY <2>1, <2>3, <2>4, WFMin
<1>2. PICK x \in S : \A y \in S : ~ (<<Below(y), Below(x)>> \in R)
  BY <1>1
<1>3. ASSUME NEW y \in S, y < x PROVE FALSE
  <2>1. \A z \in S : z < y => z < x
    BY <1>3
  <2>2. Below(y) \subseteq Below(x)
    BY <2>1
  <2>3. y \in Below(x) /\ y \notin Below(y)
    BY <1>3
  <2>4. <<Below(y), Below(x)>> \in (SUBSET S) \X (SUBSET S)
    OBVIOUS
  <2>5. <<Below(y), Below(x)>> \in R
    BY <2>2, <2>3, <2>4 DEF StrictSubsetOrdering
  <2> QED
    BY <2>5, <1>2
<1>4. \E z \in S : \A y \in S : z <= y
  BY <1>3
<1> QED
  BY <1>4 DEF Min

-----------------------------------------------------------------------------
(* The inductive invariant of a table.                                      *)

\* The ring of slots, and what a slot may hold.
RingSize(t) == t.capacity + MaxProbe - 1
Positions(t) == 0 .. RingSize(t) - 1
Cells == {Empty, Deleted} \union {Occupied(k, v) : k \in TableKeys, v \in TableValues}

\* The slots that are occupied, and those that are tombstones.
Occ(t) == {i \in Positions(t) : t.slots[i].state = "occupied"}
Tom(t) == {i \in Positions(t) : t.slots[i] = Deleted}

WellFormed(t) ==
    /\ t \in [capacity : {t.capacity}, size : Nat, tombstones : Nat, is_static : BOOLEAN,
              slots : [Positions(t) -> Cells]]
    /\ t.capacity \in Nat \ {0}

\* No probe for a key that is there meets an EMPTY slot before it, and a key
\* is in one slot.
Reached(t) ==
    \A k \in TableKeys : \A j \in Positions(t) :
        At(t, k, j).state = "occupied" /\ At(t, k, j).key = k =>
            \A m \in 0 .. j - 1 : At(t, k, m) # Empty
Distinct(t) == \A i, n \in Occ(t) : t.slots[i].key = t.slots[n].key => i = n

\* A table holds the entries e and counts its slots.
KeysOf(e) == {k \in TableKeys : e[k] # NoEntry}
Holds(t, e) ==
    /\ e \in [TableKeys -> TableValues \union {NoEntry}]
    /\ \A k \in KeysOf(e) : \E i \in Occ(t) : t.slots[i].key = k
    /\ \A i \in Occ(t) : e[t.slots[i].key] = t.slots[i].value
Counts(t, e) ==
    /\ IsFiniteSet(KeysOf(e)) /\ t.size = Cardinality(KeysOf(e))
    /\ t.size = Cardinality(Occ(t)) /\ t.tombstones = Cardinality(Tom(t))

Sound(t, e) == WellFormed(t) /\ Reached(t) /\ Distinct(t) /\ Holds(t, e) /\ Counts(t, e)

\* What an insert into a dynamic table leaves.
Spacious(t) == (t.size + t.tombstones) * 10 < t.capacity * 7 + 10

\* Only a static table can run out of EMPTY slots.
TableInv ==
    /\ Sound(table, entries)
    /\ table.is_static \/ (Spacious(table) /\ ~endless)

-----------------------------------------------------------------------------
(* Slots and probes. *)

LEMMA CellFacts ==
    /\ Empty \in Cells /\ Deleted \in Cells /\ Empty # Deleted
    /\ Empty.state = "empty" /\ Deleted.state = "deleted"
    /\ \A k \in TableKeys, v \in TableValues :
          /\ Occupied(k, v) \in Cells
          /\ Occupied(k, v).state = "occupied" /\ Occupied(k, v).key = k /\ Occupied(k, v).value = v
    /\ \A c \in Cells : c.state = "occupied" =>
          /\ c.key \in TableKeys /\ c.value \in TableValues /\ c # Empty /\ c # Deleted
          /\ c = Occupied(c.key, c.value)
    /\ \A c \in Cells : c.state # "occupied" => c = Empty \/ c = Deleted
<1>1. Empty \in Cells /\ Deleted \in Cells
  BY DEF Cells
<1>2. Empty.state = "empty" /\ Deleted.state = "deleted"
  BY DEF Empty, Deleted
<1>3. \A k \in TableKeys, v \in TableValues :
          /\ Occupied(k, v) \in Cells
          /\ Occupied(k, v).state = "occupied" /\ Occupied(k, v).key = k /\ Occupied(k, v).value = v
  BY DEF Cells, Occupied
<1>4. \A c \in Cells : \/ c = Empty \/ c = Deleted
                       \/ \E k \in TableKeys, v \in TableValues : c = Occupied(k, v)
  BY DEF Cells
<1>5. Empty # Deleted
  BY <1>2
<1>6. \A c \in Cells : c.state = "occupied" =>
          /\ c.key \in TableKeys /\ c.value \in TableValues /\ c # Empty /\ c # Deleted
          /\ c = Occupied(c.key, c.value)
  BY <1>2, <1>3, <1>4
<1>7. \A c \in Cells : c.state # "occupied" => c = Empty \/ c = Deleted
  BY <1>3, <1>4
<1> QED
  BY <1>1, <1>2, <1>3, <1>5, <1>6, <1>7

\* The probes of a key visit each slot once.
LEMMA ProbesVisit ==
    ASSUME NEW t, WellFormed(t), NEW k \in TableKeys
    PROVE  /\ RingSize(t) \in Nat \ {0} /\ Probes(t) = Positions(t)
           /\ \A j \in Positions(t) : ProbeSlot(t, k, j) \in Positions(t)
           /\ \A i, j \in Positions(t) : ProbeSlot(t, k, i) = ProbeSlot(t, k, j) => i = j
           /\ \A i \in Positions(t) : \E j \in Positions(t) : ProbeSlot(t, k, j) = i
<1>1. PICK c : c = t.capacity
  OBVIOUS
<1>2. PICK n : n = RingSize(t)
  OBVIOUS
<1>3. c \in Nat \ {0} /\ n = c + MaxProbe - 1 /\ MaxProbe \in Nat \ {0, 1}
  BY <1>1, <1>2, TablesAssumption DEF WellFormed, RingSize
<1>4. n \in Nat \ {0} /\ c <= n
  BY <1>3
<1>5. PICK h : h = TableHash[k] % c
  OBVIOUS
<1>6. h \in 0 .. c - 1
  <2>1. TableHash[k] \in Nat
    BY TablesAssumption
  <2> QED
    BY <1>3, <1>5, <2>1
<1>7. \A j \in 0 .. n - 1 : (h + j) % n = IF h + j < n THEN h + j ELSE h + j - n
  <2> SUFFICES ASSUME NEW j \in 0 .. n - 1
               PROVE  (h + j) % n = IF h + j < n THEN h + j ELSE h + j - n
    OBVIOUS
  <2>1. \A a \in 0 .. 2 * n - 1 : a % n = IF a < n THEN a ELSE a - n
    BY <1>4
  <2>2. PICK a \in 0 .. 2 * n - 1 : a = h + j
    BY <1>3, <1>4, <1>6
  <2>3. a % n = IF a < n THEN a ELSE a - n
    BY <2>1
  <2> QED
    BY <1>3, <1>4, <1>6, <2>2, <2>3
<1>8. Positions(t) = 0 .. n - 1 /\ Probes(t) = 0 .. n - 1
  <2>1. Probes(t) = 0 .. c + MaxProbe - 2
    BY <1>1 DEF Probes
  <2>2. c + MaxProbe - 2 = n - 1
    BY <1>3
  <2> QED
    BY <1>2, <2>1, <2>2 DEF Positions
<1>9. \A j \in 0 .. n - 1 : ProbeSlot(t, k, j) = IF h + j < n THEN h + j ELSE h + j - n
  BY <1>1, <1>3, <1>5, <1>7 DEF ProbeSlot
<1>10. \A j \in 0 .. n - 1 : ProbeSlot(t, k, j) \in 0 .. n - 1
  BY <1>3, <1>4, <1>6, <1>9
<1>11. \A i, j \in 0 .. n - 1 : ProbeSlot(t, k, i) = ProbeSlot(t, k, j) => i = j
  BY <1>3, <1>4, <1>6, <1>9
<1>12. ASSUME NEW i \in 0 .. n - 1 PROVE \E j \in 0 .. n - 1 : ProbeSlot(t, k, j) = i
  <2>1. CASE h <= i
    <3>1. PICK j \in 0 .. n - 1 : h + j = i /\ h + j < n
      <4>1. i - h \in 0 .. n - 1 /\ h + (i - h) = i /\ i < n
        BY <1>3, <1>4, <1>6, <2>1
      <4> QED
        BY <4>1
    <3>2. ProbeSlot(t, k, j) = i
      BY <1>9, <3>1
    <3> QED
      BY <3>2
  <2>2. CASE i < h
    <3>1. PICK j \in 0 .. n - 1 : h + j - n = i /\ ~(h + j < n)
      <4>1. i - h + n \in 0 .. n - 1 /\ h + (i - h + n) - n = i /\ ~(h + (i - h + n) < n)
        BY <1>3, <1>4, <1>6, <2>2
      <4> QED
        BY <4>1
    <3>2. ProbeSlot(t, k, j) = i
      BY <1>9, <3>1
    <3> QED
      BY <3>2
  <2> QED
    BY <1>3, <1>4, <1>6, <2>1, <2>2
<1> QED
  BY <1>2, <1>4, <1>8, <1>10, <1>11, <1>12

\* A walk that returns stops at the first probe that ends it.
LEMMA StopsFirst ==
    ASSUME NEW t, WellFormed(t), NEW k \in TableKeys, Returns(t, k)
    PROVE  /\ Stop(t, k) \in Positions(t) /\ Ends(t, k, Stop(t, k))
           /\ \A m \in 0 .. Stop(t, k) - 1 : ~Ends(t, k, m)
<1>1. Probes(t) = Positions(t) /\ RingSize(t) \in Nat
  BY ProbesVisit
<1>2. PICK S : S = {j \in Positions(t) : Ends(t, k, j)}
  OBVIOUS
<1>3. S # {} /\ S \subseteq Positions(t) /\ S \subseteq Int /\ IsFiniteSet(Positions(t))
  <2>1. S # {} /\ S \subseteq Positions(t)
    BY <1>1, <1>2 DEF Returns
  <2>2. PICK n \in Int : Positions(t) = 0 .. n
    BY <1>1 DEF Positions
  <2>3. 0 \in Int /\ IsFiniteSet(0 .. n) /\ 0 .. n \subseteq Int
    BY <2>2, FS_Interval
  <2> QED
    BY <2>1, <2>2, <2>3
<1>4. IsFiniteSet(S)
  BY <1>3, FS_Subset
<1>5. Min(S) \in S /\ \A y \in S : Min(S) <= y
  BY <1>3, <1>4, LeastOfFinite
<1>6. PICK m : m = Min(S)
  OBVIOUS
<1>7. m \in Positions(t) /\ Ends(t, k, m)
  BY <1>2, <1>5, <1>6
<1>8. \A i \in 0 .. m - 1 : ~Ends(t, k, i)
  <2> SUFFICES ASSUME NEW i \in 0 .. m - 1, Ends(t, k, i) PROVE FALSE
    OBVIOUS
  <2>1. i \in Positions(t) /\ ~(m <= i)
    BY <1>1, <1>7 DEF Positions
  <2> QED
    BY <1>2, <1>5, <1>6, <2>1
<1>9. \E j \in Probes(t) : Ends(t, k, j) /\ \A i \in 0 .. j - 1 : ~Ends(t, k, i)
  BY <1>1, <1>7, <1>8
<1> QED
  BY <1>1, <1>9 DEF Stop

\* What a walk finds: the slot of a key that is there, else an EMPTY slot.
LEMMA LookupFinds ==
    ASSUME NEW t, NEW e, Sound(t, e), NEW k \in TableKeys, Returns(t, k)
    PROVE  /\ Hit(t, k) <=> e[k] # NoEntry
           /\ TableGet(t, k) = e[k]
           /\ Hit(t, k) => /\ ProbeSlot(t, k, Stop(t, k)) \in Occ(t)
                           /\ t.slots[ProbeSlot(t, k, Stop(t, k))].key = k
           /\ ~Hit(t, k) => /\ t.slots[ProbeSlot(t, k, Stop(t, k))] = Empty
                            /\ \A i \in Occ(t) : t.slots[i].key # k
<1>1. WellFormed(t) /\ Reached(t) /\ Distinct(t) /\ Holds(t, e)
  BY DEF Sound
<1>2. t.slots \in [Positions(t) -> Cells]
  BY <1>1 DEF WellFormed
<1>3. PICK s \in Positions(t) : /\ s = Stop(t, k) /\ Ends(t, k, s)
                                /\ \A m \in 0 .. s - 1 : ~Ends(t, k, m)
  BY <1>1, StopsFirst
<1>4. PICK i \in Positions(t) : i = ProbeSlot(t, k, s)
  BY <1>1, ProbesVisit
<1>5. At(t, k, s) = t.slots[i] /\ t.slots[i] \in Cells
  BY <1>2, <1>4 DEF At
<1>6. CASE t.slots[i] = Empty
  <2>1. ASSUME NEW n \in Occ(t), t.slots[n].key = k PROVE FALSE
    <3>1. n \in Positions(t) /\ t.slots[n].state = "occupied"
      BY DEF Occ
    <3>2. PICK j \in Positions(t) : ProbeSlot(t, k, j) = n
      BY <1>1, <3>1, ProbesVisit
    <3>3. At(t, k, j) = t.slots[n] /\ Ends(t, k, j)
      BY <2>1, <3>1, <3>2 DEF At, Ends
    <3>4. \A m \in 0 .. j - 1 : At(t, k, m) # Empty
      BY <1>1, <2>1, <3>1, <3>3 DEF Reached
    <3>5. ~(s < j) /\ ~(j < s)
      <4>1. s \in Nat /\ j \in Nat
        BY DEF Positions
      <4>2. s \notin 0 .. j - 1
        BY <1>5, <1>6, <3>4
      <4>3. j \notin 0 .. s - 1
        BY <1>3, <3>3
      <4> QED
        BY <4>1, <4>2, <4>3
    <3>6. j = s
      BY <3>5 DEF Positions
    <3> QED
      BY <1>4, <1>6, <3>1, <3>2, <3>6, CellFacts
  <2>2. e[k] = NoEntry
    BY <1>1, <2>1 DEF Holds, KeysOf
  <2> QED
    BY <1>3, <1>4, <1>5, <1>6, <2>1, <2>2 DEF Hit, TableGet
<1>7. CASE t.slots[i] # Empty
  <2>1. t.slots[i].state = "occupied" /\ t.slots[i].key = k
    BY <1>3, <1>5, <1>7 DEF Ends
  <2>2. i \in Occ(t)
    BY <2>1 DEF Occ
  <2>3. e[k] = t.slots[i].value
    BY <1>1, <2>1, <2>2 DEF Holds
  <2>4. e[k] # NoEntry
    BY <1>5, <2>1, <2>3, CellFacts, TablesAssumption
  <2> QED
    BY <1>3, <1>4, <1>5, <1>7, <2>1, <2>2, <2>3, <2>4 DEF Hit, TableGet
<1> QED
  BY <1>6, <1>7

\* While a slot is EMPTY, every walk returns.
LEMMA EmptyReturns ==
    ASSUME NEW t, WellFormed(t), NEW k \in TableKeys, NEW i \in Positions(t), t.slots[i] = Empty
    PROVE  Returns(t, k)
<1>1. PICK j \in Positions(t) : ProbeSlot(t, k, j) = i
  BY ProbesVisit
<1>2. Ends(t, k, j)
  BY <1>1 DEF Ends, At
<1> QED
  BY <1>2, ProbesVisit DEF Returns

\* A table whose counters say so has an EMPTY slot.
LEMMA EmptyLeft ==
    ASSUME NEW t, NEW e, Sound(t, e), t.size + t.tombstones < RingSize(t)
    PROVE  \E i \in Positions(t) : t.slots[i] = Empty
<1>1. WellFormed(t) /\ t.slots \in [Positions(t) -> Cells]
  BY DEF Sound, WellFormed
<1>2. PICK n \in Nat : n = RingSize(t) /\ Positions(t) = 0 .. n - 1
  <2>1. RingSize(t) \in Nat
    BY <1>1, TablesAssumption DEF WellFormed, RingSize
  <2> QED
    BY <2>1 DEF Positions
<1>3. IsFiniteSet(Positions(t)) /\ Cardinality(Positions(t)) = n
  <2>1. IsFiniteSet(0 .. n - 1)
        /\ Cardinality(0 .. n - 1) = IF 0 > n - 1 THEN 0 ELSE (n - 1) - 0 + 1
    <3>1. 0 \in Int /\ n - 1 \in Int
      BY <1>2
    <3> QED
      BY <3>1, FS_Interval
  <2> QED
    BY <1>2, <2>1
<1>4. /\ IsFiniteSet(Occ(t)) /\ IsFiniteSet(Tom(t))
      /\ Cardinality(Occ(t)) \in Nat /\ Cardinality(Tom(t)) \in Nat
  <2>1. Occ(t) \subseteq Positions(t) /\ Tom(t) \subseteq Positions(t)
    BY DEF Occ, Tom
  <2> QED
    BY <1>3, <2>1, FS_Subset, FS_CardinalityType
<1>5. SUFFICES ASSUME \A i \in Positions(t) : t.slots[i] # Empty PROVE FALSE
  OBVIOUS
<1>6. Positions(t) = Occ(t) \union Tom(t)
  <2>1. \A i \in Positions(t) : t.slots[i].state = "occupied" \/ t.slots[i] = Deleted
    BY <1>1, <1>5, CellFacts
  <2> QED
    BY <2>1 DEF Occ, Tom
<1>7. Occ(t) \cap Tom(t) = {}
  BY CellFacts DEF Occ, Tom
<1>8. Cardinality(Positions(t)) = Cardinality(Occ(t)) + Cardinality(Tom(t))
  <2>1. Cardinality(Occ(t) \union Tom(t)) =
            Cardinality(Occ(t)) + Cardinality(Tom(t)) - Cardinality(Occ(t) \cap Tom(t))
    BY <1>4, FS_Union
  <2> QED
    BY <1>4, <1>6, <1>7, <2>1, FS_EmptySet
<1> QED
  BY <1>2, <1>3, <1>8 DEF Sound, Counts

\* Putting a key into a slot that held nothing, or the key itself.
LEMMA InsertKeeps ==
    ASSUME NEW t, NEW e, Sound(t, e), NEW k \in TableKeys, NEW v \in TableValues, Returns(t, k)
    PROVE  /\ Sound(Insert(t, k, v), [e EXCEPT ![k] = v])
           /\ Insert(t, k, v).capacity = t.capacity
           /\ Insert(t, k, v).is_static = t.is_static
           /\ Insert(t, k, v).size + Insert(t, k, v).tombstones <= t.size + t.tombstones + 1
           /\ Tom(t) = {} => Insert(t, k, v).tombstones = 0
           /\ Insert(t, k, v).size = IF e[k] = NoEntry THEN t.size + 1 ELSE t.size
<1>1. WellFormed(t) /\ Reached(t) /\ Distinct(t) /\ Holds(t, e) /\ Counts(t, e)
  BY DEF Sound
<1>2. t.slots \in [Positions(t) -> Cells] /\ t.size \in Nat /\ t.tombstones \in Nat
  BY <1>1 DEF WellFormed
<1>3. e \in [TableKeys -> TableValues \union {NoEntry}] /\ v # NoEntry
  BY <1>1, TablesAssumption DEF Holds
<1>4. PICK f : f = [e EXCEPT ![k] = v]
  OBVIOUS
<1>5. /\ f \in [TableKeys -> TableValues \union {NoEntry}] /\ f[k] = v
      /\ \A c \in TableKeys : c # k => f[c] = e[c]
      /\ KeysOf(f) = KeysOf(e) \union {k}
  BY <1>3, <1>4 DEF KeysOf
<1>6. PICK s \in Positions(t) : /\ s = Stop(t, k) /\ Ends(t, k, s)
                                /\ \A m \in 0 .. s - 1 : ~Ends(t, k, m)
  BY <1>1, StopsFirst
<1>7. RingSize(t) \in Nat /\ \A j \in Positions(t) : ProbeSlot(t, k, j) \in Positions(t)
  BY <1>1, ProbesVisit
<1>8. /\ IsFiniteSet(Occ(t)) /\ IsFiniteSet(Tom(t))
      /\ Cardinality(Occ(t)) \in Nat /\ Cardinality(Tom(t)) \in Nat
  <2>1. Occ(t) \subseteq Positions(t) /\ Tom(t) \subseteq Positions(t)
    BY DEF Occ, Tom
  <2>2. IsFiniteSet(Positions(t))
    BY <1>7, FS_Interval DEF Positions
  <2> QED
    BY <2>1, <2>2, FS_Subset, FS_CardinalityType
<1>9. PICK u : u = Insert(t, k, v)
  OBVIOUS
<1>10. PICK p : p = Occupied(k, v)
  OBVIOUS
<1>11. p \in Cells /\ p.state = "occupied" /\ p.key = k /\ p.value = v /\ p # Empty /\ p # Deleted
  BY <1>10, CellFacts
\* A table that differs from t in one slot, which holds p now and held nothing or
\* k before.
<1>12. ASSUME NEW i \in Positions(t), NEW w, WellFormed(w), w.capacity = t.capacity,
              w.slots = [t.slots EXCEPT ![i] = p],
              \A n \in Occ(t) : n # i => t.slots[n].key # k,
              i \in Occ(t) => t.slots[i].key = k,
              \A j \in Positions(t) : ProbeSlot(t, k, j) = i =>
                  \A m \in 0 .. j - 1 : At(t, k, m) # Empty
       PROVE  /\ Reached(w) /\ Distinct(w) /\ Holds(w, f) /\ Occ(w) = Occ(t) \union {i}
              /\ Tom(w) = Tom(t) \ {i}
  <2>1. /\ RingSize(w) = RingSize(t) /\ Positions(w) = Positions(t)
        /\ \A c \in TableKeys, n \in Positions(t) : ProbeSlot(w, c, n) = ProbeSlot(t, c, n)
    BY <1>12 DEF RingSize, Positions, ProbeSlot
  <2>2. /\ w.slots[i] = p /\ \A n \in Positions(t) : n # i => w.slots[n] = t.slots[n]
    BY <1>2, <1>12
  <2>3. Occ(w) = Occ(t) \union {i}
    BY <1>11, <2>1, <2>2 DEF Occ
  <2>4. Tom(w) = Tom(t) \ {i}
    BY <1>11, <2>1, <2>2 DEF Tom
  <2>5. Distinct(w)
    <3> SUFFICES ASSUME NEW a \in Occ(w), NEW b \in Occ(w), w.slots[a].key = w.slots[b].key
                 PROVE  a = b
      BY DEF Distinct
    <3>1. \A n \in Occ(w) : n # i => n \in Occ(t) /\ w.slots[n] = t.slots[n] /\ w.slots[n].key # k
      BY <1>12, <2>2, <2>3 DEF Occ
    <3>2. w.slots[i].key = k
      BY <1>11, <2>2
    <3> QED
      BY <1>1, <3>1, <3>2 DEF Distinct
  <2>6. \A c \in KeysOf(f) : \E n \in Occ(w) : w.slots[n].key = c
    <3> SUFFICES ASSUME NEW c \in KeysOf(f) PROVE \E n \in Occ(w) : w.slots[n].key = c
      OBVIOUS
    <3>1. CASE c = k
      BY <1>11, <2>2, <2>3, <3>1
    <3>2. CASE c # k
      <4>1. c \in KeysOf(e)
        BY <1>5, <3>2
      <4>2. PICK n \in Occ(t) : t.slots[n].key = c
        BY <1>1, <4>1 DEF Holds
      <4>3. n # i /\ n \in Positions(t) /\ n \in Occ(w)
        BY <1>12, <2>3, <3>2, <4>2 DEF Occ
      <4>4. w.slots[n].key = c
        BY <2>2, <4>2, <4>3
      <4> QED
        BY <4>3, <4>4
    <3> QED
      BY <3>1, <3>2
  <2>7. \A n \in Occ(w) : f[w.slots[n].key] = w.slots[n].value
    <3> SUFFICES ASSUME NEW n \in Occ(w) PROVE f[w.slots[n].key] = w.slots[n].value
      OBVIOUS
    <3>1. CASE n = i
      BY <1>5, <1>11, <2>2, <3>1
    <3>2. CASE n # i
      <4>1. n \in Occ(t) /\ n \in Positions(t) /\ t.slots[n].state = "occupied" /\ w.slots[n] = t.slots[n]
        BY <2>2, <2>3, <3>2 DEF Occ
      <4>2. t.slots[n].key \in TableKeys /\ t.slots[n].key # k
        BY <1>2, <1>12, <3>2, <4>1, CellFacts
      <4>3. e[t.slots[n].key] = t.slots[n].value
        BY <1>1, <4>1 DEF Holds
      <4> QED
        BY <1>5, <4>1, <4>2, <4>3
    <3> QED
      BY <3>1, <3>2
  <2>8. Reached(w)
    <3> SUFFICES ASSUME NEW c \in TableKeys, NEW j \in Positions(t),
                        At(w, c, j).state = "occupied", At(w, c, j).key = c,
                        NEW m \in 0 .. j - 1
                 PROVE  At(w, c, m) # Empty
      BY <2>1 DEF Reached
    <3>1. m \in Positions(t)
      BY <1>7 DEF Positions
    <3>2. PICK a \in Positions(t), b \in Positions(t) :
              a = ProbeSlot(t, c, j) /\ b = ProbeSlot(t, c, m)
      BY <1>1, <3>1, ProbesVisit
    <3>3. /\ At(w, c, j) = w.slots[a] /\ At(w, c, m) = w.slots[b]
          /\ At(t, c, j) = t.slots[a] /\ At(t, c, m) = t.slots[b]
      BY <2>1, <3>1, <3>2 DEF At
    <3>4. CASE b = i
      BY <1>11, <2>2, <3>3, <3>4
    <3>5. CASE b # i
      <4>1. t.slots[b] # Empty
        <5>1. CASE a = i
          <6>1. c = k
            BY <1>11, <2>2, <3>3, <5>1
          <6>2. At(t, k, m) # Empty
            BY <1>12, <3>2, <5>1, <6>1
          <6> QED
            BY <3>3, <6>1, <6>2
        <5>2. CASE a # i
          BY <1>1, <2>2, <3>3, <5>2 DEF Reached
        <5> QED
          BY <5>1, <5>2
      <4> QED
        BY <2>2, <3>3, <3>5, <4>1
    <3> QED
      BY <3>4, <3>5
  <2> QED
    BY <1>5, <2>3, <2>4, <2>5, <2>6, <2>7, <2>8 DEF Holds
\* Where the key is put.
<1>13. \A m \in 0 .. s - 1 : At(t, k, m) # Empty
  BY <1>6 DEF Ends
<1>15. CASE Hit(t, k)
  <2>1. PICK i \in Positions(t) : i = ProbeSlot(t, k, s)
    BY <1>7
  <2>2. i \in Occ(t) /\ t.slots[i].key = k /\ e[k] # NoEntry
    BY <1>6, <1>15, <2>1, LookupFinds
  <2>3. u = [t EXCEPT !.slots[i] = p]
    BY <1>6, <1>9, <1>10, <1>15, <2>1 DEF Insert
  <2>4. /\ WellFormed(u) /\ u.capacity = t.capacity /\ u.is_static = t.is_static
        /\ u.size = t.size /\ u.tombstones = t.tombstones /\ u.slots = [t.slots EXCEPT ![i] = p]
    BY <1>1, <1>2, <1>11, <2>3 DEF WellFormed, Positions, RingSize
  <2>5. \A n \in Occ(t) : n # i => t.slots[n].key # k
    BY <1>1, <2>2 DEF Distinct
  <2>6. \A j \in Positions(t) : ProbeSlot(t, k, j) = i =>
            \A m \in 0 .. j - 1 : At(t, k, m) # Empty
    BY <1>1, <1>13, <2>1, ProbesVisit
  <2>7. /\ Reached(u) /\ Distinct(u) /\ Holds(u, f) /\ Occ(u) = Occ(t) /\ Tom(u) = Tom(t)
    <3>1. /\ Reached(u) /\ Distinct(u) /\ Holds(u, f) /\ Occ(u) = Occ(t) \union {i}
          /\ Tom(u) = Tom(t) \ {i}
      BY <1>12, <2>2, <2>4, <2>5, <2>6
    <3>2. i \notin Tom(t)
      BY <2>2, CellFacts DEF Occ, Tom
    <3> QED
      BY <2>2, <3>1, <3>2
  <2>8. KeysOf(f) = KeysOf(e)
    BY <1>5, <2>2 DEF KeysOf
  <2>9. Counts(u, f)
    BY <1>1, <2>4, <2>7, <2>8 DEF Counts
  <2>10. Tom(t) = {} => u.tombstones = 0
    BY <1>1, <2>4, FS_EmptySet DEF Counts
  <2> QED
    BY <1>2, <1>4, <1>9, <2>2, <2>4, <2>7, <2>9, <2>10 DEF Sound
<1>16. CASE ~Hit(t, k)
  <2>1. /\ e[k] = NoEntry /\ t.slots[ProbeSlot(t, k, s)] = Empty
        /\ \A n \in Occ(t) : t.slots[n].key # k
    BY <1>3, <1>6, <1>16, LookupFinds
  <2>2. PICK tombs : tombs = Tombs(t, k)
    OBVIOUS
  <2>3. tombs = {j \in 0 .. s : At(t, k, j) = Deleted}
    BY <1>6, <2>2 DEF Tombs
  <2>4. PICK j : j = IF tombs = {} THEN s ELSE CHOOSE i \in tombs : \A n \in tombs : i <= n
    OBVIOUS
  <2>5. tombs # {} => j \in tombs
    <3> SUFFICES ASSUME tombs # {} PROVE j \in tombs
      OBVIOUS
    <3>1. tombs \subseteq 0 .. s /\ s \in Int /\ 0 \in Int /\ 0 .. s \subseteq Int
      BY <2>3 DEF Positions
    <3>2. IsFiniteSet(tombs)
      BY <3>1, FS_Interval, FS_Subset
    <3>3. Min(tombs) \in tombs /\ \A y \in tombs : Min(tombs) <= y
      BY <3>1, <3>2, LeastOfFinite
    <3> QED
      BY <2>4, <3>3
  <2>6. j \in 0 .. s /\ j \in Positions(t)
    <3>1. s \in Nat /\ s <= RingSize(t) - 1
      BY <1>7 DEF Positions
    <3>2. j \in 0 .. s
      BY <2>3, <2>4, <2>5, <3>1
    <3> QED
      BY <1>7, <3>1, <3>2 DEF Positions
  <2>7. PICK i \in Positions(t) : i = ProbeSlot(t, k, j)
    BY <1>7, <2>6
  <2>8. IF tombs = {} THEN t.slots[i] = Empty ELSE t.slots[i] = Deleted
    <3>1. At(t, k, j) = t.slots[i]
      BY <2>7 DEF At
    <3> QED
      BY <2>1, <2>3, <2>4, <2>5, <2>7, <3>1
  <2>9. i \notin Occ(t)
    BY <2>8, CellFacts DEF Occ
  <2>10. u = [[t EXCEPT !.slots[i] = p] EXCEPT !.size = @ + 1,
                                               !.tombstones = IF tombs = {} THEN @ ELSE @ - 1]
    BY <1>6, <1>9, <1>10, <1>16, <2>2, <2>4, <2>7 DEF Insert
  <2>11. tombs # {} => i \in Tom(t) /\ t.tombstones \in Nat \ {0}
    <3> SUFFICES ASSUME tombs # {} PROVE i \in Tom(t) /\ t.tombstones \in Nat \ {0}
      OBVIOUS
    <3>1. i \in Tom(t)
      BY <2>8 DEF Tom
    <3>2. t.tombstones # 0
      BY <1>1, <1>8, <3>1, FS_EmptySet DEF Counts
    <3> QED
      BY <1>2, <3>1, <3>2
  <2>12. /\ WellFormed(u) /\ u.capacity = t.capacity /\ u.is_static = t.is_static
         /\ u.size = t.size + 1 /\ u.tombstones = IF tombs = {} THEN t.tombstones ELSE t.tombstones - 1
         /\ u.slots = [t.slots EXCEPT ![i] = p]
    <3>1. /\ u.capacity = t.capacity /\ u.is_static = t.is_static
          /\ u.size = t.size + 1 /\ u.tombstones = IF tombs = {} THEN t.tombstones ELSE t.tombstones - 1
          /\ u.slots = [t.slots EXCEPT ![i] = p]
      BY <1>1, <2>10 DEF WellFormed
    <3>2. u.slots \in [Positions(t) -> Cells] /\ u.size \in Nat /\ u.tombstones \in Nat
      BY <1>2, <1>11, <2>11, <3>1
    <3>3. u \in [capacity : {t.capacity}, size : Nat, tombstones : Nat, is_static : BOOLEAN,
                 slots : [Positions(t) -> Cells]]
      <4>1. t \in [capacity : {t.capacity}, size : Nat, tombstones : Nat, is_static : BOOLEAN,
                  slots : [Positions(t) -> Cells]]
        BY <1>1 DEF WellFormed
      <4>2. u = [capacity |-> t.capacity, size |-> u.size, tombstones |-> u.tombstones,
                 is_static |-> t.is_static, slots |-> u.slots]
        BY <2>10, <4>1
      <4> QED
        BY <3>2, <4>1, <4>2
    <3>4. Positions(u) = Positions(t)
      BY <3>1 DEF Positions, RingSize
    <3> QED
      BY <1>1, <3>1, <3>3, <3>4 DEF WellFormed
  <2>13. \A n \in Positions(t) : ProbeSlot(t, k, n) = i =>
            \A m \in 0 .. n - 1 : At(t, k, m) # Empty
    <3>1. \A m \in 0 .. j - 1 : m \in 0 .. s - 1
      BY <2>6 DEF Positions
    <3> QED
      BY <1>1, <1>13, <2>6, <2>7, <3>1, ProbesVisit
  <2>14. /\ Reached(u) /\ Distinct(u) /\ Holds(u, f) /\ Occ(u) = Occ(t) \union {i}
         /\ Tom(u) = Tom(t) \ {i}
    BY <1>12, <2>1, <2>9, <2>12, <2>13
  <2>15. Cardinality(Occ(t) \union {i}) = Cardinality(Occ(t)) + 1
    BY <1>8, <2>9, FS_AddElement
  <2>16. Cardinality(Tom(t) \ {i}) = IF tombs = {} THEN Cardinality(Tom(t)) ELSE Cardinality(Tom(t)) - 1
    <3>1. tombs = {} => i \notin Tom(t)
      BY <2>8, CellFacts DEF Tom
    <3> QED
      BY <1>8, <2>11, <3>1, FS_RemoveElement
  <2>17. /\ IsFiniteSet(KeysOf(e) \union {k})
         /\ Cardinality(KeysOf(e) \union {k}) = Cardinality(KeysOf(e)) + 1
    <3>1. k \notin KeysOf(e)
      BY <2>1 DEF KeysOf
    <3> QED
      BY <1>1, <3>1, FS_AddElement DEF Counts
  <2>18. Counts(u, f)
    BY <1>1, <1>5, <2>12, <2>14, <2>15, <2>16, <2>17 DEF Counts
  <2>19. Tom(t) = {} => u.tombstones = 0
    BY <1>1, <2>11, <2>12, FS_EmptySet DEF Counts
  <2>20. u.size + u.tombstones <= t.size + t.tombstones + 1
    BY <1>2, <2>11, <2>12
  <2> QED
    BY <1>4, <1>9, <2>1, <2>12, <2>14, <2>18, <2>19, <2>20 DEF Sound
<1> QED
  BY <1>15, <1>16

\* Taking a key out leaves a tombstone in its slot.
Taken(t, i) == [t EXCEPT !.slots[i] = Deleted, !.size = @ - 1, !.tombstones = @ + 1]
LEMMA RemoveKeeps ==
    ASSUME NEW t, NEW e, Sound(t, e), NEW i \in Occ(t), NEW u, u = Taken(t, i)
    PROVE  /\ Sound(u, [e EXCEPT ![t.slots[i].key] = NoEntry])
           /\ u.capacity = t.capacity /\ u.is_static = t.is_static
           /\ u.size + u.tombstones = t.size + t.tombstones
<1>1. WellFormed(t) /\ Reached(t) /\ Distinct(t) /\ Holds(t, e) /\ Counts(t, e)
  BY DEF Sound
<1>2. t.slots \in [Positions(t) -> Cells] /\ t.size \in Nat /\ t.tombstones \in Nat
  BY <1>1 DEF WellFormed
<1>3. PICK k : k = t.slots[i].key
  OBVIOUS
<1>4. /\ i \in Positions(t) /\ t.slots[i].state = "occupied" /\ k \in TableKeys
      /\ e[k] = t.slots[i].value /\ e[k] # NoEntry
  <2>1. i \in Positions(t) /\ t.slots[i].state = "occupied" /\ t.slots[i] \in Cells
    BY <1>2 DEF Occ
  <2>2. e[k] = t.slots[i].value
    BY <1>1, <1>3 DEF Holds
  <2> QED
    BY <1>3, <2>1, <2>2, CellFacts, TablesAssumption
<1>5. PICK f : f = [e EXCEPT ![k] = NoEntry]
  OBVIOUS
<1>6. e \in [TableKeys -> TableValues \union {NoEntry}]
  BY <1>1 DEF Holds
<1>7. /\ f \in [TableKeys -> TableValues \union {NoEntry}] /\ f[k] = NoEntry
      /\ \A c \in TableKeys : c # k => f[c] = e[c]
      /\ KeysOf(f) = KeysOf(e) \ {k} /\ k \in KeysOf(e)
  BY <1>4, <1>5, <1>6 DEF KeysOf
<1>8. /\ IsFiniteSet(Occ(t)) /\ IsFiniteSet(Tom(t))
      /\ Cardinality(Occ(t)) \in Nat /\ Cardinality(Tom(t)) \in Nat
  <2>1. Occ(t) \subseteq Positions(t) /\ Tom(t) \subseteq Positions(t)
    BY DEF Occ, Tom
  <2>2. RingSize(t) \in Nat
    BY <1>1, <1>4, ProbesVisit
  <2>3. IsFiniteSet(Positions(t))
    <3>1. 0 \in Int /\ RingSize(t) - 1 \in Int
      BY <2>2
    <3> QED
      BY <3>1, FS_Interval DEF Positions
  <2> QED
    BY <2>1, <2>3, FS_Subset, FS_CardinalityType
<1>9. t.size \in Nat \ {0}
  <2>1. Occ(t) # {}
    OBVIOUS
  <2> QED
    BY <1>1, <1>2, <1>8, <2>1, FS_EmptySet DEF Counts
<1>10. /\ u.capacity = t.capacity /\ u.is_static = t.is_static
       /\ u.size = t.size - 1 /\ u.tombstones = t.tombstones + 1
       /\ u.slots = [t.slots EXCEPT ![i] = Deleted]
  BY <1>1 DEF WellFormed, Taken
<1>11. WellFormed(u)
  <2>1. u.slots \in [Positions(t) -> Cells] /\ u.size \in Nat /\ u.tombstones \in Nat
    <3>1. Deleted \in Cells
      BY CellFacts
    <3>2. t.size - 1 \in Nat /\ t.tombstones + 1 \in Nat
      BY <1>2, <1>9
    <3>3. u.size \in Nat /\ u.tombstones \in Nat
      BY <1>10, <3>2
    <3>4. u.slots \in [Positions(t) -> Cells]
      <4>1. \A s, d : s \in [Positions(t) -> Cells] /\ d \in Cells =>
                         [s EXCEPT ![i] = d] \in [Positions(t) -> Cells]
        OBVIOUS
      <4> QED
        BY <1>2, <1>10, <3>1, <4>1
    <3> QED
      BY <3>3, <3>4
  <2>2. t \in [capacity : {t.capacity}, size : Nat, tombstones : Nat, is_static : BOOLEAN,
               slots : [Positions(t) -> Cells]]
    BY <1>1 DEF WellFormed
  <2>3. u = [capacity |-> t.capacity, size |-> u.size, tombstones |-> u.tombstones,
             is_static |-> t.is_static, slots |-> u.slots]
    BY <2>2 DEF Taken
  <2>4. u \in [capacity : {t.capacity}, size : Nat, tombstones : Nat, is_static : BOOLEAN,
               slots : [Positions(t) -> Cells]]
    BY <2>1, <2>2, <2>3
  <2>5. Positions(u) = Positions(t)
    BY <1>10 DEF Positions, RingSize
  <2> QED
    BY <1>1, <1>10, <2>4, <2>5 DEF WellFormed
<1>12. /\ RingSize(u) = RingSize(t) /\ Positions(u) = Positions(t)
       /\ \A c \in TableKeys, n \in Positions(t) : ProbeSlot(u, c, n) = ProbeSlot(t, c, n)
  BY <1>10 DEF RingSize, Positions, ProbeSlot
<1>13. /\ u.slots[i] = Deleted /\ \A n \in Positions(t) : n # i => u.slots[n] = t.slots[n]
  BY <1>2, <1>4, <1>10
<1>14. Occ(u) = Occ(t) \ {i}
  BY <1>12, <1>13, CellFacts DEF Occ
<1>15. Tom(u) = Tom(t) \union {i} /\ i \notin Tom(t)
  BY <1>4, <1>12, <1>13, CellFacts DEF Tom
<1>16. Distinct(u)
  <2>1. \A n \in Occ(u) : n \in Occ(t) /\ u.slots[n] = t.slots[n]
    BY <1>13, <1>14 DEF Occ
  <2> QED
    BY <1>1, <2>1 DEF Distinct
<1>17. Reached(u)
  <2> SUFFICES ASSUME NEW c \in TableKeys, NEW j \in Positions(t),
                      At(u, c, j).state = "occupied", At(u, c, j).key = c,
                      NEW m \in 0 .. j - 1
               PROVE  At(u, c, m) # Empty
    BY <1>12 DEF Reached
  <2>1. RingSize(t) \in Nat /\ \A n \in Positions(t) : ProbeSlot(t, c, n) \in Positions(t)
    BY <1>1, ProbesVisit
  <2>2. m \in Positions(t)
    BY <2>1 DEF Positions
  <2>3. PICK a \in Positions(t), b \in Positions(t) :
            a = ProbeSlot(t, c, j) /\ b = ProbeSlot(t, c, m)
    BY <2>1, <2>2
  <2>4. /\ At(u, c, j) = u.slots[a] /\ At(u, c, m) = u.slots[b]
        /\ At(t, c, j) = t.slots[a] /\ At(t, c, m) = t.slots[b]
    BY <1>12, <2>2, <2>3 DEF At
  <2>5. a # i
    BY <1>13, <2>4, CellFacts
  <2>6. t.slots[b] # Empty
    BY <1>1, <1>13, <2>4, <2>5 DEF Reached
  <2>7. b = i => u.slots[b] # Empty
    BY <1>13, CellFacts
  <2> QED
    BY <1>13, <2>4, <2>6, <2>7
<1>18. Holds(u, f)
  <2>1. ASSUME NEW c \in KeysOf(f) PROVE \E n \in Occ(u) : u.slots[n].key = c
    <3>1. c \in KeysOf(e) /\ c # k
      BY <1>7
    <3>2. PICK n \in Occ(t) : t.slots[n].key = c
      BY <1>1, <3>1 DEF Holds
    <3>3. n # i /\ n \in Positions(t)
      BY <1>3, <3>1, <3>2 DEF Occ
    <3> QED
      BY <1>13, <1>14, <3>2, <3>3
  <2>2. ASSUME NEW n \in Occ(u) PROVE f[u.slots[n].key] = u.slots[n].value
    <3>1. n \in Occ(t) /\ n # i /\ n \in Positions(t) /\ t.slots[n].state = "occupied"
      BY <1>14 DEF Occ
    <3>2. u.slots[n] = t.slots[n] /\ t.slots[n] \in Cells
      BY <1>2, <1>13, <3>1
    <3>3. t.slots[n].key \in TableKeys
      BY <3>1, <3>2, CellFacts
    <3>4. t.slots[n].key # k
      BY <1>1, <1>3, <3>1 DEF Distinct
    <3>5. e[t.slots[n].key] = t.slots[n].value
      BY <1>1, <3>1 DEF Holds
    <3> QED
      BY <1>7, <3>2, <3>3, <3>4, <3>5
  <2> QED
    BY <1>7, <2>1, <2>2 DEF Holds
<1>19. Counts(u, f)
  <2>1. Cardinality(Occ(u)) = Cardinality(Occ(t)) - 1
    BY <1>8, <1>14, FS_RemoveElement
  <2>2. Cardinality(Tom(u)) = Cardinality(Tom(t)) + 1
    BY <1>8, <1>15, FS_AddElement
  <2>3. IsFiniteSet(KeysOf(f)) /\ Cardinality(KeysOf(f)) = Cardinality(KeysOf(e)) - 1
    BY <1>1, <1>7, FS_RemoveElement DEF Counts
  <2> QED
    BY <1>1, <1>10, <2>1, <2>2, <2>3 DEF Counts
<1> QED
  BY <1>2, <1>3, <1>5, <1>10, <1>11, <1>16, <1>17, <1>18, <1>19 DEF Sound

\* A cleared table holds nothing.
LEMMA ClearedSound ==
    ASSUME NEW c \in Nat \ {0}, NEW static \in BOOLEAN
    PROVE  /\ Sound(Cleared(c, static), [k \in TableKeys |-> NoEntry])
           /\ Cleared(c, static).capacity = c /\ Cleared(c, static).is_static = static
           /\ Cleared(c, static).size = 0 /\ Cleared(c, static).tombstones = 0
<1>1. PICK t : t = Cleared(c, static)
  OBVIOUS
<1>2. PICK e : e = [k \in TableKeys |-> NoEntry]
  OBVIOUS
<1>3. /\ t = [capacity |-> c, size |-> 0, tombstones |-> 0, is_static |-> static,
              slots |-> [i \in 0 .. c + MaxProbe - 2 |-> Empty]]
  BY <1>1 DEF Cleared
<1>4. t.capacity = c /\ t.size = 0 /\ t.tombstones = 0 /\ t.is_static = static
  BY <1>3
<1>5. Positions(t) = 0 .. c + MaxProbe - 2
  <2>1. c + MaxProbe - 1 - 1 = c + MaxProbe - 2
    BY TablesAssumption
  <2>2. RingSize(t) = c + MaxProbe - 1
    BY <1>4 DEF RingSize
  <2>3. Positions(t) = 0 .. RingSize(t) - 1
    BY DEF Positions
  <2> QED
    BY <2>1, <2>2, <2>3, TablesAssumption
<1>6. t.slots = [i \in Positions(t) |-> Empty]
  BY <1>3, <1>5
<1>7. WellFormed(t)
  <2>1. t.slots \in [Positions(t) -> Cells]
    BY <1>6, CellFacts
  <2>2. t = [capacity |-> t.capacity, size |-> 0, tombstones |-> 0, is_static |-> static,
             slots |-> t.slots]
    BY <1>3
  <2> QED
    BY <1>4, <2>1, <2>2 DEF WellFormed
<1>8. Occ(t) = {} /\ Tom(t) = {}
  BY <1>6, CellFacts DEF Occ, Tom
<1>9. KeysOf(e) = {} /\ e \in [TableKeys -> TableValues \union {NoEntry}]
  BY <1>2 DEF KeysOf
<1>10. Holds(t, e) /\ Distinct(t)
  BY <1>8, <1>9 DEF Holds, Distinct
<1>11. Counts(t, e)
  BY <1>4, <1>8, <1>9, FS_EmptySet DEF Counts
<1>12. Reached(t)
  <2> SUFFICES ASSUME NEW k \in TableKeys, NEW j \in Positions(t), At(t, k, j).state = "occupied"
               PROVE  FALSE
    BY DEF Reached
  <2>1. ProbeSlot(t, k, j) \in Positions(t)
    BY <1>7, ProbesVisit
  <2> QED
    BY <1>6, <2>1, CellFacts DEF At
<1> QED
  BY <1>1, <1>2, <1>4, <1>7, <1>10, <1>11, <1>12 DEF Sound

-----------------------------------------------------------------------------
(* Rehashing. *)

\* One slot of a rehash, the tables it goes through, and what it has put after i slots.
Moved(live, s) == IF s.state = "occupied" THEN Insert(live, s.key, s.value) ELSE live
Moves(f, start, s, last) ==
    f = [i \in 0 .. last |-> IF i = 0 THEN start ELSE Moved(f[i-1], s[i-1])]
PutSoFar(t, e, i) ==
    [k \in TableKeys |-> IF \E n \in Occ(t) : n < i /\ t.slots[n].key = k THEN e[k] ELSE NoEntry]

\* The tables a rehash goes through exist: a least number of slots for which they
\* did not would have a predecessor for which they do.
LEMMA MovesExist ==
    ASSUME NEW start, NEW s, NEW last \in Nat
    PROVE  \E f : Moves(f, start, s, last)
<1> USE DEF Moves
<1> DEFINE Through(n) == \E f : Moves(f, start, s, n)
           B == {n \in 0 .. last : ~Through(n)}
<1>1. SUFFICES ASSUME B # {} PROVE FALSE
  OBVIOUS
<1>2. PICK m \in B : \A y \in B : m <= y
  <2>1. 0 \in Int /\ last \in Int /\ B \subseteq 0 .. last /\ B \subseteq Int
    OBVIOUS
  <2>2. IsFiniteSet(B)
    <3>1. IsFiniteSet(0 .. last)
      BY <2>1, FS_Interval
    <3> QED
      BY <2>1, <3>1, FS_Subset
  <2> HIDE DEF B
  <2>3. Min(B) \in B /\ \A y \in B : Min(B) <= y
    BY <1>1, <2>1, <2>2, LeastOfFinite
  <2> QED
    BY <2>3
<1>3. Through(0)
  <2>1. PICK f : f = [i \in 0 .. 0 |-> start]
    OBVIOUS
  <2>2. f = [i \in 0 .. 0 |-> IF i = 0 THEN start ELSE Moved(f[i-1], s[i-1])]
    BY <2>1
  <2> QED
    BY <2>2
<1>4. m \in Nat \ {0} /\ m \in 0 .. last /\ ~Through(m)
  <2> HIDE DEF Through
  <2>1. m \in 0 .. last /\ ~Through(m) /\ m # 0
    BY <1>3
  <2> QED
    BY <2>1
<1>5. m - 1 \in 0 .. last /\ Through(m - 1)
  <2>1. m - 1 \in 0 .. last /\ ~(m <= m - 1)
    BY <1>4
  <2>2. m - 1 \notin B
    BY <1>2, <2>1
  <2> QED
    BY <2>1, <2>2
<1>6. PICK f : f = [i \in 0 .. m - 1 |-> IF i = 0 THEN start ELSE Moved(f[i-1], s[i-1])]
  BY <1>5
<1>7. PICK g : g = [i \in 0 .. m |-> IF i = 0 THEN start ELSE Moved(f[i-1], s[i-1])]
  OBVIOUS
<1>8. \A i \in 0 .. m - 1 : g[i] = f[i]
  <2> SUFFICES ASSUME NEW i \in 0 .. m - 1 PROVE g[i] = f[i]
    OBVIOUS
  <2>1. i \in 0 .. m
    BY <1>4
  <2>2. g[i] = IF i = 0 THEN start ELSE Moved(f[i-1], s[i-1])
    BY <1>7, <2>1
  <2>3. f[i] = IF i = 0 THEN start ELSE Moved(f[i-1], s[i-1])
    BY <1>6
  <2> QED
    BY <2>2, <2>3
<1>9. \A i \in 0 .. m : i # 0 => g[i-1] = f[i-1]
  <2> SUFFICES ASSUME NEW i \in 0 .. m, i # 0 PROVE g[i-1] = f[i-1]
    OBVIOUS
  <2>1. i - 1 \in 0 .. m - 1
    BY <1>4
  <2> QED
    BY <1>8, <2>1
<1>10. g = [i \in 0 .. m |-> IF i = 0 THEN start ELSE Moved(g[i-1], s[i-1])]
  BY <1>7, <1>9
<1> QED
  BY <1>4, <1>10

\* A rehash keeps the entries and drops the tombstones.
LEMMA RehashKeeps ==
    ASSUME NEW t, NEW e, Sound(t, e), NEW c \in Nat \ {0}, t.size < c + MaxProbe - 1
    PROVE  /\ Sound(Rehash(t, c), e) /\ Rehash(t, c).capacity = c
           /\ Rehash(t, c).is_static = t.is_static
           /\ Rehash(t, c).size = t.size /\ Rehash(t, c).tombstones = 0
<1>1. WellFormed(t) /\ Distinct(t) /\ Holds(t, e) /\ Counts(t, e)
  BY DEF Sound
<1>2. PICK last : last = t.capacity + MaxProbe - 1
  OBVIOUS
<1>3. /\ last \in Nat \ {0} /\ Positions(t) = 0 .. last - 1 /\ t.is_static \in BOOLEAN
      /\ t.slots \in [Positions(t) -> Cells] /\ t.size \in Nat
  <2>1. t.capacity \in Nat \ {0} /\ MaxProbe \in Nat \ {0, 1}
    BY <1>1, TablesAssumption DEF WellFormed
  <2>2. last \in Nat \ {0}
    BY <1>2, <2>1
  <2> QED
    BY <1>1, <1>2, <2>2 DEF WellFormed, Positions, RingSize
<1>4. PICK start : start = Cleared(c, t.is_static)
  OBVIOUS
<1>5. PICK slots : slots = t.slots
  OBVIOUS
<1>6. PICK live : live = CHOOSE f : Moves(f, start, slots, last)
  OBVIOUS
<1>7. live = [i \in 0 .. last |-> IF i = 0 THEN start ELSE Moved(live[i-1], slots[i-1])]
  <2>1. \E f : Moves(f, start, slots, last)
    BY <1>3, MovesExist
  <2>2. Moves(live, start, slots, last)
    BY <1>6, <2>1
  <2> QED
    BY <2>2 DEF Moves
<1>8. Rehash(t, c) = live[last]
  BY <1>2, <1>4, <1>5, <1>6 DEF Rehash, Moved, Moves
<1>9. live[0] = start
  BY <1>3, <1>7
<1>10. \A i \in 0 .. last - 1 : live[i+1] = Moved(live[i], slots[i])
  <2> SUFFICES ASSUME NEW i \in 0 .. last - 1 PROVE live[i+1] = Moved(live[i], slots[i])
    OBVIOUS
  <2>1. i + 1 \in 0 .. last /\ i + 1 # 0 /\ (i + 1) - 1 = i
    BY <1>3
  <2>2. live[i+1] = Moved(live[(i+1)-1], slots[(i+1)-1])
    BY <1>7, <2>1
  <2> QED
    BY <2>1, <2>2
<1> DEFINE Right(i) == /\ Sound(live[i], PutSoFar(t, e, i)) /\ live[i].capacity = c
                       /\ live[i].is_static = t.is_static /\ live[i].tombstones = 0
<1>11. Right(0)
  <2>1. PutSoFar(t, e, 0) = [k \in TableKeys |-> NoEntry]
    <3>1. \A n \in Occ(t) : ~(n < 0)
      BY <1>3 DEF Occ
    <3> QED
      BY <3>1 DEF PutSoFar
  <2> QED
    BY <1>3, <1>4, <1>9, <2>1, ClearedSound
<1>12. ASSUME NEW i \in 0 .. last - 1, Right(i) PROVE Right(i + 1)
  <2>1. i \in Positions(t) /\ slots[i] \in Cells
    BY <1>3, <1>5
  <2>2. CASE slots[i].state # "occupied"
    <3>1. i \notin Occ(t)
      BY <1>5, <2>2 DEF Occ
    <3>2. \A n \in Occ(t) : n < i + 1 <=> n < i
      <4> SUFFICES ASSUME NEW n \in Occ(t) PROVE n < i + 1 <=> n < i
        OBVIOUS
      <4>1. n # i /\ n \in Int /\ i \in Int
        BY <1>3, <3>1 DEF Occ
      <4> QED
        BY <4>1
    <3>3. PutSoFar(t, e, i + 1) = PutSoFar(t, e, i)
      BY <3>2 DEF PutSoFar
    <3>4. live[i + 1] = live[i]
      BY <1>10, <2>2 DEF Moved
    <3> QED
      BY <1>12, <3>3, <3>4
  <2>3. CASE slots[i].state = "occupied"
    <3>1. PICK k, v : k = slots[i].key /\ v = slots[i].value
      OBVIOUS
    <3>2. k \in TableKeys /\ v \in TableValues
      BY <2>1, <2>3, <3>1, CellFacts
    <3>3. i \in Occ(t) /\ e[k] = v
      <4>1. i \in Occ(t)
        BY <1>5, <2>1, <2>3 DEF Occ
      <4> QED
        BY <1>1, <1>5, <3>1, <4>1 DEF Holds
    <3>4. PICK l : l = live[i]
      OBVIOUS
    <3>5. PICK d : d = PutSoFar(t, e, i)
      OBVIOUS
    <3>6. /\ Sound(l, d) /\ l.capacity = c /\ l.is_static = t.is_static /\ l.tombstones = 0
      BY <1>12, <3>4, <3>5
    <3>7. \E n \in Positions(l) : l.slots[n] = Empty
      <4>1. KeysOf(d) \subseteq KeysOf(e)
        BY <3>5 DEF KeysOf, PutSoFar
      <4>2. Cardinality(KeysOf(d)) <= Cardinality(KeysOf(e))
        BY <1>1, <4>1, FS_Subset DEF Counts
      <4>3. l.size <= t.size /\ l.size \in Nat
        BY <1>1, <3>6, <4>2 DEF Sound, Counts, WellFormed
      <4>4. l.size + l.tombstones < RingSize(l)
        <5>1. RingSize(l) = c + MaxProbe - 1 /\ MaxProbe \in Nat
          BY <3>6, TablesAssumption DEF RingSize
        <5> QED
          BY <1>3, <3>6, <4>3, <5>1
      <4> QED
        BY <3>6, <4>4, EmptyLeft
    <3>8. Returns(l, k)
      BY <3>2, <3>6, <3>7, EmptyReturns DEF Sound
    <3>9. Tom(l) = {}
      <4>1. IsFiniteSet(Tom(l))
        <5>1. RingSize(l) \in Nat
          BY <3>2, <3>6, ProbesVisit DEF Sound
        <5>2. 0 \in Int /\ RingSize(l) - 1 \in Int
          BY <5>1
        <5>3. IsFiniteSet(Positions(l)) /\ Tom(l) \subseteq Positions(l)
          BY <5>2, FS_Interval DEF Positions, Tom
        <5> QED
          BY <5>3, FS_Subset
      <4> QED
        BY <3>6, <4>1, FS_EmptySet DEF Sound, Counts
    <3>10. PICK u : u = Insert(l, k, v)
      OBVIOUS
    <3>11. /\ Sound(u, [d EXCEPT ![k] = v]) /\ u.capacity = c /\ u.is_static = t.is_static
           /\ u.tombstones = 0
      BY <3>2, <3>6, <3>8, <3>9, <3>10, InsertKeeps
    <3>12. PutSoFar(t, e, i + 1) = [d EXCEPT ![k] = v]
      <4>1. \A n \in Occ(t) : n < i + 1 <=> (n < i \/ n = i)
        <5> SUFFICES ASSUME NEW n \in Occ(t) PROVE n < i + 1 <=> (n < i \/ n = i)
          OBVIOUS
        <5>1. n \in Int /\ i \in Int
          BY <1>3 DEF Occ
        <5> QED
          BY <5>1
      <4>2. \A b \in TableKeys : (\E n \in Occ(t) : n < i + 1 /\ t.slots[n].key = b)
                                 <=> b = k \/ \E n \in Occ(t) : n < i /\ t.slots[n].key = b
        BY <1>5, <3>1, <3>3, <4>1
      <4> QED
        BY <3>2, <3>3, <3>5, <4>2 DEF PutSoFar
    <3>13. live[i + 1] = u
      BY <1>10, <2>3, <3>1, <3>4, <3>10 DEF Moved
    <3> QED
      BY <3>11, <3>12, <3>13
  <2> QED
    BY <2>2, <2>3
<1>13. Right(last)
  <2> DEFINE B == {i \in 0 .. last : ~Right(i)}
  <2>1. SUFFICES ASSUME B # {} PROVE FALSE
    BY <1>3
  <2>2. PICK m \in B : \A y \in B : m <= y
    <3>1. 0 \in Int /\ last \in Int /\ B \subseteq 0 .. last /\ B \subseteq Int
      BY <1>3
    <3>2. IsFiniteSet(B)
      <4>1. IsFiniteSet(0 .. last)
        BY <3>1, FS_Interval
      <4> QED
        BY <3>1, <4>1, FS_Subset
    <3> HIDE DEF B
    <3>3. Min(B) \in B /\ \A y \in B : Min(B) <= y
      BY <2>1, <3>1, <3>2, LeastOfFinite
    <3> QED
      BY <3>3
  <2>3. m \in 0 .. last /\ ~Right(m) /\ m # 0
    BY <1>11
  <2> HIDE DEF Right
  <2>4. m - 1 \in 0 .. last /\ m - 1 \in 0 .. last - 1 /\ ~(m <= m - 1) /\ (m - 1) + 1 = m
    BY <1>3, <2>3
  <2>5. Right(m - 1)
    BY <2>2, <2>4
  <2>6. Right((m - 1) + 1)
    BY <1>12, <2>4, <2>5
  <2> QED
    BY <2>3, <2>4, <2>6
<1>14. PutSoFar(t, e, last) = e
  <2>1. \A n \in Occ(t) : n < last
    <3>1. Occ(t) \subseteq 0 .. last - 1
      BY <1>3 DEF Occ
    <3> QED
      BY <1>3, <3>1
  <2>2. \A k \in TableKeys : (\E n \in Occ(t) : n < last /\ t.slots[n].key = k) <=> e[k] # NoEntry
    <3> SUFFICES ASSUME NEW k \in TableKeys
                 PROVE  (\E n \in Occ(t) : n < last /\ t.slots[n].key = k) <=> e[k] # NoEntry
      OBVIOUS
    <3>1. e[k] # NoEntry => \E n \in Occ(t) : t.slots[n].key = k
      BY <1>1 DEF Holds, KeysOf
    <3>2. ASSUME NEW n \in Occ(t), t.slots[n].key = k PROVE e[k] # NoEntry
      <4>1. n \in Positions(t) /\ t.slots[n].state = "occupied" /\ t.slots[n] \in Cells
        BY <1>3 DEF Occ
      <4>2. t.slots[n].value \in TableValues
        BY <4>1, CellFacts
      <4>3. e[k] = t.slots[n].value
        BY <1>1, <3>2 DEF Holds
      <4> QED
        BY <4>2, <4>3, TablesAssumption
    <3> QED
      BY <2>1, <3>1, <3>2
  <2>3. e \in [TableKeys -> TableValues \union {NoEntry}]
    BY <1>1 DEF Holds
  <2> QED
    BY <2>2, <2>3 DEF PutSoFar
<1>15. Sound(live[last], e) /\ live[last].size = Cardinality(KeysOf(e))
  BY <1>13, <1>14 DEF Sound, Counts
<1> QED
  BY <1>1, <1>8, <1>13, <1>15 DEF Counts

-----------------------------------------------------------------------------
(* The table. *)

\* Making room leaves a dynamic table below its load limit.
LEMMA RoomyKeeps ==
    ASSUME NEW t, NEW e, Sound(t, e), t.is_static \/ Spacious(t)
    PROVE  /\ Sound(Roomy(t), e) /\ Roomy(t).is_static = t.is_static
           /\ ~t.is_static => (Roomy(t).size + Roomy(t).tombstones) * 10 < Roomy(t).capacity * 7
<1>1. /\ t.capacity \in Nat \ {0} /\ t.size \in Nat /\ t.tombstones \in Nat /\ t.is_static \in BOOLEAN
      /\ MaxProbe \in Nat \ {0, 1}
  BY TablesAssumption DEF Sound, WellFormed
<1>2. CASE t.is_static \/ ~Loaded(t)
  <2>1. Roomy(t) = t
    BY <1>2 DEF Roomy
  <2>2. ~t.is_static => ~((t.size + t.tombstones) * 10 >= t.capacity * 7)
    BY <1>2 DEF Loaded
  <2> QED
    BY <1>1, <2>1, <2>2
<1>3. CASE ~(t.is_static \/ ~Loaded(t))
  <2>1. (t.size + t.tombstones) * 10 < t.capacity * 7 + 10
    BY <1>3 DEF Spacious
  <2>2. PICK c : c = IF t.size * 10 >= t.capacity * 7 THEN t.capacity * 2 ELSE t.capacity
    OBVIOUS
  <2>3. Roomy(t) = Rehash(t, c)
    BY <1>3, <2>2 DEF Roomy
  <2>4. c \in Nat \ {0} /\ t.size * 10 < c * 7
    <3>1. CASE t.size * 10 >= t.capacity * 7
      BY <1>1, <2>1, <2>2, <3>1
    <3>2. CASE ~(t.size * 10 >= t.capacity * 7)
      BY <1>1, <2>2, <3>2
    <3> QED
      BY <3>1, <3>2
  <2>5. t.size < c + MaxProbe - 1
    BY <1>1, <2>4
  <2>6. /\ Sound(Rehash(t, c), e) /\ Rehash(t, c).capacity = c
        /\ Rehash(t, c).is_static = t.is_static
        /\ Rehash(t, c).size = t.size /\ Rehash(t, c).tombstones = 0
    BY <2>4, <2>5, RehashKeeps
  <2>7. t.size + 0 = t.size
    BY <1>1
  <2> QED
    BY <2>3, <2>4, <2>6, <2>7
<1> QED
  BY <1>2, <1>3

\* A dynamic table is never so full that a walk does not return.
LEMMA SpaciousReturns ==
    ASSUME NEW t, NEW e, Sound(t, e), Spacious(t)
    PROVE  /\ \E i \in Positions(t) : t.slots[i] = Empty
           /\ \A k \in TableKeys : Returns(t, k)
<1>1. /\ t.capacity \in Nat \ {0} /\ t.size \in Nat /\ t.tombstones \in Nat
      /\ MaxProbe \in Nat \ {0, 1}
  BY TablesAssumption DEF Sound, WellFormed
<1>2. t.size + t.tombstones < t.capacity + MaxProbe - 1
  BY <1>1 DEF Spacious
<1>3. \E i \in Positions(t) : t.slots[i] = Empty
  BY <1>2, EmptyLeft DEF RingSize
<1> QED
  BY <1>3, EmptyReturns DEF Sound

\* The invariant holds of a new table,
LEMMA TableInvInit == TableInit => TableInv
<1> SUFFICES ASSUME TableInit PROVE TableInv
  OBVIOUS
<1>1. PICK static \in BOOLEAN : table = Cleared(TableCapacity, static)
  BY DEF TableInit
<1>2. entries = [k \in TableKeys |-> NoEntry] /\ ~endless /\ TableCapacity \in Nat \ {0}
  BY TablesAssumption DEF TableInit
<1>3. Sound(table, entries) /\ table.size = 0 /\ table.tombstones = 0 /\ table.capacity = TableCapacity
  BY <1>1, <1>2, ClearedSound
<1>4. Spacious(table)
  BY <1>2, <1>3 DEF Spacious
<1> QED
  BY <1>2, <1>3, <1>4 DEF TableInv

\* and every call keeps it.
LEMMA TableInvNext == TableInv /\ [TableNext]_tableVars => TableInv'
<1> SUFFICES ASSUME TableInv, [TableNext]_tableVars PROVE TableInv'
  OBVIOUS
<1>1. PICK t, e, c : t = table /\ e = entries /\ c = endless
  OBVIOUS
<1>2. PICK u, f, d : u = table' /\ f = entries' /\ d = endless'
  OBVIOUS
<1>3. Sound(t, e) /\ (t.is_static \/ (Spacious(t) /\ ~c))
  BY <1>1 DEF TableInv
<1>4. SUFFICES Sound(u, f) /\ (u.is_static \/ (Spacious(u) /\ ~d))
  BY <1>2 DEF TableInv
<1>5. CASE UNCHANGED tableVars
  BY <1>1, <1>2, <1>3, <1>5 DEF tableVars
<1>6. ASSUME NEW k \in TableKeys, NEW v \in TableValues, NEW replace \in BOOLEAN, ~endless,
             TablePut(k, v, replace)
      PROVE  Sound(u, f) /\ (u.is_static \/ (Spacious(u) /\ ~d))
  <2>1. PICK r : r = Roomy(t)
    OBVIOUS
  <2>2. /\ Sound(r, e) /\ r.is_static = t.is_static
        /\ ~t.is_static => (r.size + r.tombstones) * 10 < r.capacity * 7
    BY <1>3, <2>1, RoomyKeeps
  <2>3. r.size \in Nat /\ r.tombstones \in Nat /\ r.capacity \in Nat
    BY <2>2 DEF Sound, WellFormed
  <2>4. ~t.is_static => Spacious(r)
    BY <2>2, <2>3 DEF Spacious
  <2>5. CASE ~Returns(r, k)
    <3>1. u = t /\ f = e
      BY <1>1, <1>2, <1>6, <2>1, <2>5 DEF TablePut, Hang
    <3>2. t.is_static
      BY <2>2, <2>4, <2>5, SpaciousReturns
    <3> QED
      BY <1>3, <3>1, <3>2
  <2>6. CASE Returns(r, k)
    <3>1. /\ u = IF Hit(r, k) /\ ~replace THEN r ELSE Insert(r, k, v)
          /\ f = IF Hit(r, k) /\ ~replace THEN e ELSE [e EXCEPT ![k] = v]
          /\ ~d
      BY <1>1, <1>2, <1>6, <2>1, <2>6 DEF TablePut
    <3>2. CASE Hit(r, k) /\ ~replace
      BY <2>2, <2>4, <3>1, <3>2
    <3>3. CASE ~(Hit(r, k) /\ ~replace)
      <4>1. /\ Sound(u, f) /\ u.capacity = r.capacity /\ u.is_static = r.is_static
            /\ u.size + u.tombstones <= r.size + r.tombstones + 1
        BY <1>6, <2>2, <2>6, <3>1, <3>3, InsertKeeps
      <4>2. u.size \in Nat /\ u.tombstones \in Nat
        BY <4>1 DEF Sound, WellFormed
      <4>3. ~t.is_static => Spacious(u)
        BY <2>2, <2>3, <4>1, <4>2 DEF Spacious
      <4>4. t.is_static \in BOOLEAN
        BY <1>3 DEF Sound, WellFormed
      <4> QED
        BY <2>2, <3>1, <4>1, <4>3, <4>4
    <3> QED
      BY <3>2, <3>3
  <2> QED
    BY <2>5, <2>6
<1>7. ASSUME NEW k \in TableKeys, ~endless, TableRemove(k)
      PROVE  Sound(u, f) /\ (u.is_static \/ (Spacious(u) /\ ~d))
  <2>1. CASE ~Returns(t, k)
    <3>1. u = t /\ f = e
      BY <1>1, <1>2, <1>7, <2>1 DEF TableRemove, Hang
    <3>2. t.is_static
      BY <1>3, <2>1, SpaciousReturns
    <3> QED
      BY <1>3, <3>1, <3>2
  <2>2. CASE Returns(t, k)
    <3>1. PICK i : i = ProbeSlot(t, k, Stop(t, k))
      OBVIOUS
    <3>2. /\ Hit(t, k) /\ f = [e EXCEPT ![k] = NoEntry] /\ d = c
          /\ u = [t EXCEPT !.slots[i] = Deleted, !.size = @ - 1, !.tombstones = @ + 1]
      BY <1>1, <1>2, <1>7, <2>2, <3>1 DEF TableRemove
    <3>3. i \in Occ(t) /\ t.slots[i].key = k
      BY <1>3, <1>7, <2>2, <3>1, <3>2, LookupFinds
    <3>4. /\ Sound(u, f) /\ u.capacity = t.capacity /\ u.is_static = t.is_static
          /\ u.size + u.tombstones = t.size + t.tombstones
      <4>1. /\ Sound(u, [e EXCEPT ![t.slots[i].key] = NoEntry])
            /\ u.capacity = t.capacity /\ u.is_static = t.is_static
            /\ u.size + u.tombstones = t.size + t.tombstones
        <5>1. u = Taken(t, i)
          BY <3>2 DEF Taken
        <5> QED
          BY <1>3, <3>3, <5>1, RemoveKeeps
      <4> QED
        BY <3>2, <3>3, <4>1
    <3> QED
      BY <1>3, <3>2, <3>4 DEF Spacious
  <2> QED
    BY <2>1, <2>2
<1>8. ASSUME NEW k \in TableKeys, ~endless, TableLookup(k)
      PROVE  Sound(u, f) /\ (u.is_static \/ (Spacious(u) /\ ~d))
  <2>1. u = t /\ f = e /\ ~Returns(t, k)
    BY <1>1, <1>2, <1>8 DEF TableLookup, Hang
  <2>2. t.is_static
    BY <1>3, <1>8, <2>1, SpaciousReturns
  <2> QED
    BY <1>3, <2>1, <2>2
<1> QED
  BY <1>5, <1>6, <1>7, <1>8 DEF TableNext

\* Every stored key is found with its last value and no other key is, size and
\* tombstones count the slots (ttak_table_put, ttak_table_get, ttak_table_remove and
\* ttak_table_rehash), and no call on a dynamic table probes forever.
THEOREM KeysFound == TableSpec => []TableFinds
<1>1. TableInv => TableFinds
  <2> SUFFICES ASSUME TableInv PROVE TableFinds
    OBVIOUS
  <2>1. PICK t, e : t = table /\ e = entries
    OBVIOUS
  <2>2. Sound(t, e) /\ (t.is_static \/ (Spacious(t) /\ ~endless))
    BY <2>1 DEF TableInv
  <2>3. \A k \in TableKeys : Returns(t, k) => TableGet(t, k) = e[k]
    BY <2>2, LookupFinds
  <2>4. t.size = Cardinality(KeysOf(e)) /\ t.tombstones = Cardinality(Tom(t))
    BY <2>2 DEF Sound, Counts
  <2>5. DOMAIN t.slots = Positions(t)
    BY <2>2 DEF Sound, WellFormed
  <2>6. t.is_static \/ (~endless /\ \E i \in Positions(t) : t.slots[i] = Empty)
    BY <2>2, SpaciousReturns
  <2>7. t.tombstones = Cardinality({i \in DOMAIN t.slots : t.slots[i] = Deleted})
    BY <2>4, <2>5 DEF Tom
  <2> QED
    BY <2>1, <2>3, <2>4, <2>5, <2>6, <2>7 DEF TableFinds, KeysOf
<1> QED
  BY <1>1, TableInvInit, TableInvNext, PTL DEF TableSpec

(***************************************************************************)
(* The ring buffer.                                                         *)
(***************************************************************************)

\* Positions wrap at most once.
Around(n, a) == IF a < n THEN a ELSE a - n

\* Between two calls the items are those from the tail on, and full tells a
\* full ring from an empty one.
RingInv ==
    /\ ring \in [capacity : RingSizes, head : 0 .. ring.capacity - 1, tail : 0 .. ring.capacity - 1,
                 full : BOOLEAN, buffer : [0 .. ring.capacity - 1 -> Payloads \union {Nothing}]]
    /\ line \in Seq(Payloads) /\ Len(line) <= ring.capacity
    /\ ring.full <=> Len(line) = ring.capacity
    /\ ring.head = Around(ring.capacity, ring.tail + Len(line))
    /\ \A i \in 1 .. Len(line) : ring.buffer[Around(ring.capacity, ring.tail + i - 1)] = line[i]

\* Advancing by a mask or by a comparison is the same.
LEMMA Advances ==
    ASSUME NEW n \in RingSizes, NEW i \in 0 .. n - 1
    PROVE  Advance(n, i) = Around(n, i + 1) /\ Around(n, i + 1) \in 0 .. n - 1
<1>1. n \in Nat \ {0}
  BY ContainersAssumption
<1>2. CASE Masks(n)
  <2>1. i + 1 \in 0 .. n
    BY <1>1
  <2>2. WordAnd(i + 1, n - 1) = (i + 1) % n
    BY <1>2, <2>1, RingAssumption
  <2>3. \A a \in 0 .. n : a % n = Around(n, a)
    BY <1>1 DEF Around
  <2>4. (i + 1) % n = Around(n, i + 1)
    BY <2>1, <2>3
  <2>5. Around(n, i + 1) \in 0 .. n - 1
    BY <1>1 DEF Around
  <2> QED
    BY <1>2, <2>2, <2>4, <2>5 DEF Advance
<1>3. CASE ~Masks(n)
  <2>1. Advance(n, i) = IF i + 1 < n THEN i + 1 ELSE 0
    BY <1>3 DEF Advance
  <2> QED
    BY <1>1, <2>1 DEF Around
<1> QED
  BY <1>2, <1>3

\* The invariant holds of a new ring, and each push and pop keeps it.
LEMMA RingInvInit == RingInit => RingInv
<1> SUFFICES ASSUME RingInit PROVE RingInv
  OBVIOUS
<1>1. PICK n \in RingSizes :
          ring = [capacity |-> n, head |-> 0, tail |-> 0, full |-> FALSE,
                  buffer |-> [i \in 0..n-1 |-> Nothing]]
  BY DEF RingInit
<1>2. line = <<>> /\ n \in Nat \ {0}
  BY ContainersAssumption DEF RingInit
<1>3. /\ ring \in [capacity : RingSizes, head : 0 .. ring.capacity - 1, tail : 0 .. ring.capacity - 1,
                   full : BOOLEAN, buffer : [0 .. ring.capacity - 1 -> Payloads \union {Nothing}]]
  <2>1. 0 \in 0 .. n - 1 /\ ring.capacity = n
    BY <1>1, <1>2
  <2>2. [i \in 0..n-1 |-> Nothing] \in [0 .. n - 1 -> Payloads \union {Nothing}]
    OBVIOUS
  <2> QED
    BY <1>1, <2>1, <2>2
<1> QED
  BY <1>1, <1>2, <1>3 DEF RingInv, Around

LEMMA RingInvNext == RingInv /\ [RingNext]_ringVars => RingInv'
<1> SUFFICES ASSUME RingInv, [RingNext]_ringVars PROVE RingInv'
  OBVIOUS
<1>1. PICK n, h, t, full, b, s : n = ring.capacity /\ h = ring.head /\ t = ring.tail
                                 /\ full = ring.full /\ b = ring.buffer /\ s = line
  OBVIOUS
<1>2. /\ n \in RingSizes /\ n \in Nat \ {0} /\ h \in 0 .. n - 1 /\ t \in 0 .. n - 1
      /\ full \in BOOLEAN /\ b \in [0 .. n - 1 -> Payloads \union {Nothing}]
      /\ s \in Seq(Payloads) /\ Len(s) \in 0 .. n
  <2>1. Len(s) \in Nat /\ Len(s) <= n
    BY <1>1 DEF RingInv
  <2> QED
    BY <1>1, <2>1, ContainersAssumption DEF RingInv
<1>3. PICK m \in 0 .. n : m = Len(s)
  BY <1>2
<1>4. /\ full <=> m = n
      /\ h = Around(n, t + m)
      /\ \A i \in 1 .. m : b[Around(n, t + i - 1)] = s[i]
  BY <1>1, <1>3 DEF RingInv
<1>5. ring = [capacity |-> n, head |-> h, tail |-> t, full |-> full, buffer |-> b]
  BY <1>1 DEF RingInv
<1>6. CASE UNCHANGED ringVars
  BY <1>6 DEF ringVars, RingInv
<1>7. ASSUME NEW v \in Payloads, RingPush(v) PROVE RingInv'
  <2>1. PICK next : next = Advance(n, h)
    OBVIOUS
  <2>2. next = Around(n, h + 1) /\ next \in 0 .. n - 1
    BY <1>2, <2>1, Advances
  <2>3. PICK r : r = ring'
    OBVIOUS
  <2>4. /\ ~full /\ line' = Append(s, v)
        /\ r = [ring EXCEPT !.buffer[h] = v, !.head = next, !.full = (next = t)]
    BY <1>1, <1>7, <2>1, <2>3 DEF RingPush
  <2>5. PICK c : c = [b EXCEPT ![h] = v]
    OBVIOUS
  <2>6. r = [capacity |-> n, head |-> next, tail |-> t, full |-> (next = t), buffer |-> c]
    BY <1>1, <1>5, <2>4, <2>5
  <2>7. c \in [0 .. n - 1 -> Payloads \union {Nothing}]
    BY <1>2, <1>7, <2>5
  <2>8. /\ Len(line') = m + 1 /\ line' \in Seq(Payloads)
        /\ \A i \in 1 .. m : line'[i] = s[i]
        /\ line'[m + 1] = v
    BY <1>2, <1>3, <1>7, <2>4, AppendProperties
  <2>9. m < n /\ m \in 0 .. n - 1
    BY <1>2, <1>4, <2>4
  <2>10. next = Around(n, t + (m + 1))
    BY <1>2, <1>4, <2>2, <2>9 DEF Around
  <2>11. next = t <=> m + 1 = n
    BY <1>2, <2>9, <2>10 DEF Around
  <2>12. \A i \in 1 .. m : Around(n, t + i - 1) # h /\ Around(n, t + i - 1) \in 0 .. n - 1
    BY <1>2, <1>4, <2>9 DEF Around
  <2>13. c[h] = v /\ \A j \in 0 .. n - 1 : j # h => c[j] = b[j]
    BY <1>2, <2>5
  <2>14. ASSUME NEW i \in 1 .. m + 1 PROVE c[Around(n, t + i - 1)] = line'[i]
    <3>1. CASE i = m + 1
      <4>1. t + i - 1 = t + m
        BY <1>2, <2>9, <3>1
      <4> QED
        BY <1>4, <2>8, <2>13, <3>1, <4>1
    <3>2. CASE i \in 1 .. m
      <4>1. c[Around(n, t + i - 1)] = b[Around(n, t + i - 1)]
        BY <2>12, <2>13, <3>2
      <4> QED
        BY <1>4, <2>8, <3>2, <4>1
    <3>3. i = m + 1 \/ i \in 1 .. m
      BY <1>2, <2>9
    <3> QED
      BY <3>1, <3>2, <3>3
  <2>15. r \in [capacity : RingSizes, head : 0 .. r.capacity - 1, tail : 0 .. r.capacity - 1,
                full : BOOLEAN, buffer : [0 .. r.capacity - 1 -> Payloads \union {Nothing}]]
    <3>1. r.capacity = n /\ (next = t) \in BOOLEAN
      BY <2>6
    <3> QED
      BY <1>2, <2>2, <2>6, <2>7, <3>1
  <2>16. m + 1 <= n
    BY <1>2, <2>9
  <2>17. /\ r.capacity = n /\ r.head = next /\ r.tail = t /\ r.buffer = c
         /\ r.full <=> next = t
    BY <2>6
  <2> QED
    BY <2>3, <2>8, <2>10, <2>11, <2>14, <2>15, <2>16, <2>17 DEF RingInv
<1>8. ASSUME RingPop PROVE RingInv'
  <2>1. PICK next : next = Advance(n, t)
    OBVIOUS
  <2>2. next = Around(n, t + 1) /\ next \in 0 .. n - 1
    BY <1>2, <2>1, Advances
  <2>3. PICK r : r = ring'
    OBVIOUS
  <2>4. /\ full \/ h # t
        /\ line' = Tail(s)
        /\ r = [ring EXCEPT !.tail = next, !.full = FALSE]
    BY <1>1, <1>8, <2>1, <2>3 DEF RingPop, RingIsEmpty
  <2>5. m \in 1 .. n
    BY <1>2, <1>4, <2>4 DEF Around
  <2>6. r = [capacity |-> n, head |-> h, tail |-> next, full |-> FALSE, buffer |-> b]
    BY <1>5, <2>4
  <2>7. /\ Len(line') = m - 1 /\ line' \in Seq(Payloads)
        /\ \A i \in 1 .. m - 1 : line'[i] = s[i + 1]
    <3>1. s # <<>>
      BY <1>3, <2>5
    <3> QED
      BY <1>2, <1>3, <2>4, <3>1, HeadTailProperties
  <2>8. h = Around(n, next + (m - 1)) /\ m - 1 # n /\ m - 1 <= n
    BY <1>2, <1>4, <2>2, <2>5 DEF Around
  <2>9. ASSUME NEW i \in 1 .. m - 1 PROVE b[Around(n, next + i - 1)] = line'[i]
    <3>1. i + 1 \in 1 .. m
      BY <2>5
    <3>2. Around(n, next + i - 1) = Around(n, t + (i + 1) - 1)
      BY <1>2, <2>2, <2>5 DEF Around
    <3> QED
      BY <1>4, <2>7, <3>1, <3>2
  <2>10. r \in [capacity : RingSizes, head : 0 .. r.capacity - 1, tail : 0 .. r.capacity - 1,
                full : BOOLEAN, buffer : [0 .. r.capacity - 1 -> Payloads \union {Nothing}]]
    <3>1. r.capacity = n
      BY <2>6
    <3> QED
      BY <1>2, <2>2, <2>6, <3>1
  <2>11. /\ r.capacity = n /\ r.head = h /\ r.tail = next /\ r.buffer = b /\ ~r.full
    BY <2>6
  <2> QED
    BY <2>3, <2>7, <2>8, <2>9, <2>10, <2>11 DEF RingInv
<1> QED
  BY <1>6, <1>7, <1>8 DEF RingNext

\* The ring buffer is a first-in first-out queue of its capacity, whether its index is
\* masked or compared (ttak_ringbuf_push and ttak_ringbuf_pop).
THEOREM RingOrdered == RingSpec => []RingFifo
<1>1. RingInv => RingFifo
  <2> SUFFICES ASSUME RingInv PROVE RingFifo
    OBVIOUS
  <2>1. PICK n, h, t, m : n = ring.capacity /\ h = ring.head /\ t = ring.tail /\ m = Len(line)
    OBVIOUS
  <2>2. /\ n \in Nat \ {0} /\ h \in 0 .. n - 1 /\ t \in 0 .. n - 1 /\ m \in 0 .. n
        /\ ring.full \in BOOLEAN /\ line \in Seq(Payloads)
    <3>1. m \in Nat /\ m <= n
      BY <2>1 DEF RingInv
    <3> QED
      BY <2>1, <3>1, ContainersAssumption DEF RingInv
  <2>3. /\ ring.full <=> m = n
        /\ h = Around(n, t + m)
        /\ \A i \in 1 .. m : ring.buffer[Around(n, t + i - 1)] = line[i]
    BY <2>1 DEF RingInv
  <2>4. RingCount = m
    BY <2>1, <2>2, <2>3 DEF RingCount, Around
  <2>5. RingIsEmpty <=> m = 0
    BY <2>1, <2>2, <2>3 DEF RingIsEmpty, Around
  <2>6. line = <<>> <=> m = 0
    BY <2>1, <2>2, EmptySeq
  <2>7. \A a \in 0 .. 2 * n - 1 : a % n = Around(n, a)
    BY <2>2 DEF Around
  <2>8. \A i \in 1 .. m : t + i - 1 \in 0 .. 2 * n - 1
    BY <2>2
  <2>9. \A i \in 1 .. m : (t + i - 1) % n = Around(n, t + i - 1)
    BY <2>7, <2>8
  <2> QED
    BY <2>1, <2>3, <2>4, <2>5, <2>6, <2>9 DEF RingFifo
<1> QED
  BY <1>1, RingInvInit, RingInvNext, PTL DEF RingSpec

(***************************************************************************)
(* The object pool.                                                         *)
(***************************************************************************)

\* The bits are the items handed out; the free list of a chained pool holds
\* the others, each once, and only a chained pool has one.
PoolTypes ==
    /\ pool \in [capacity : PoolSizes, chained : BOOLEAN, bitmap : {lent}, used : Nat,
                 free : Seq(0 .. pool.capacity - 1), recycled : {pool.recycled},
                 lane : {pool.lane}, chunk : {pool.chunk}]
    /\ denied \in BOOLEAN
    /\ IsFiniteSet(lent) /\ pool.used = Cardinality(lent)
ChainInv ==
    /\ ~pool.chained => pool.free = <<>>
    /\ pool.chained =>
          /\ lent \subseteq 0 .. pool.capacity - 1
          /\ \A i \in 0 .. pool.capacity - 1 :
                i \in lent \/ \E k \in 1 .. Len(pool.free) : pool.free[k] = i
          /\ \A k \in 1 .. Len(pool.free) : pool.free[k] \notin lent
          /\ \A k, m \in 1 .. Len(pool.free) : pool.free[k] = pool.free[m] => k = m
          /\ Len(pool.free) + pool.used = pool.capacity
          /\ denied => pool.used = pool.capacity
PoolInv == PoolTypes /\ ChainInv

\* The invariant holds of a new pool,
LEMMA PoolInvInit == PoolInit => PoolInv
<1> SUFFICES ASSUME PoolInit PROVE PoolInv
  OBVIOUS
<1>1. PICK n \in PoolSizes, chained \in BOOLEAN :
          pool = [capacity |-> n, chained |-> chained, bitmap |-> {}, used |-> 0,
                  free |-> IF chained THEN [i \in 1..n |-> n - i] ELSE <<>>,
                  recycled |-> Nothing, lane |-> 1, chunk |-> 0]
  BY DEF PoolInit
<1>2. lent = {} /\ denied = FALSE /\ n \in Nat \ {0}
  BY ContainersAssumption DEF PoolInit
<1>3. IsFiniteSet({}) /\ Cardinality({}) = 0
  BY FS_EmptySet
<1>4. PICK f : f = pool.free
  OBVIOUS
<1>5. f \in Seq(0 .. n - 1) /\ (~chained => f = <<>>)
  <2>1. CASE chained
    <3>1. f = [i \in 1..n |-> n - i]
      BY <1>1, <1>4, <2>1
    <3>2. \A i \in 1 .. n : n - i \in 0 .. n - 1
      BY <1>2
    <3> QED
      BY <1>2, <2>1, <3>1, <3>2
  <2>2. CASE ~chained
    BY <1>1, <1>4, <2>2
  <2> QED
    BY <2>1, <2>2
<1>6. PoolTypes
  <2>1. pool = [capacity |-> n, chained |-> chained, bitmap |-> {}, used |-> 0, free |-> f,
                recycled |-> pool.recycled, lane |-> pool.lane, chunk |-> pool.chunk]
    BY <1>1, <1>4
  <2>2. /\ pool.capacity = n /\ pool.bitmap = lent /\ pool.used = 0 /\ pool.free = f
        /\ pool.chained = chained
    BY <1>2, <2>1
  <2>3. pool \in [capacity : PoolSizes, chained : BOOLEAN, bitmap : {lent}, used : Nat,
                  free : Seq(0 .. pool.capacity - 1), recycled : {pool.recycled},
                  lane : {pool.lane}, chunk : {pool.chunk}]
    BY <1>2, <1>5, <2>1, <2>2
  <2> QED
    BY <1>2, <1>3, <2>2, <2>3 DEF PoolTypes
<1>7. ASSUME chained
      PROVE  /\ Len(f) = n
             /\ \A i \in 0 .. n - 1 : \E k \in 1 .. n : f[k] = i
             /\ \A k, m \in 1 .. n : f[k] = f[m] => k = m
  <2>1. f = [i \in 1..n |-> n - i]
    BY <1>1, <1>4, <1>7
  <2>2. Len(f) = n
    BY <1>2, <2>1, <1>5
  <2>3. ASSUME NEW i \in 0 .. n - 1 PROVE \E k \in 1 .. n : f[k] = i
    <3>1. n - i \in 1 .. n /\ n - (n - i) = i
      BY <1>2
    <3>2. f[n - i] = i
      BY <2>1, <3>1
    <3> QED
      BY <3>1, <3>2
  <2>4. \A k, m \in 1 .. n : f[k] = f[m] => k = m
    BY <1>2, <2>1
  <2> QED
    BY <2>2, <2>3, <2>4
<1>8. ChainInv
  <2>1. /\ pool.capacity = n /\ pool.chained = chained /\ pool.used = 0
    BY <1>1
  <2>2. Len(f) + 0 = Len(f)
    BY <1>5, LenProperties
  <2>3. CASE ~chained
    BY <1>4, <1>5, <2>1, <2>3 DEF ChainInv
  <2>4. CASE chained
    <3>1. /\ Len(f) = n
          /\ \A i \in 0 .. n - 1 : \E k \in 1 .. Len(f) : f[k] = i
          /\ \A k, m \in 1 .. Len(f) : f[k] = f[m] => k = m
      BY <1>7, <2>4
    <3> HIDE <1>1
    <3> QED
      BY <1>2, <1>4, <2>1, <2>2, <2>4, <3>1 DEF ChainInv
  <2> QED
    BY <2>3, <2>4
<1> QED
  BY <1>6, <1>8 DEF PoolInv

\* An item that is not handed out yet is.
LEMMA Lends ==
    ASSUME PoolTypes, NEW idx, idx \notin lent, pool' \in [capacity : {pool.capacity},
               chained : {pool.chained}, bitmap : {pool.bitmap \union {idx}}, used : {pool.used + 1},
               free : Seq(0 .. pool.capacity - 1), recycled : {pool'.recycled},
               lane : {pool'.lane}, chunk : {pool'.chunk}],
           Lend(idx)
    PROVE  /\ PoolTypes' /\ lent' = lent \union {idx} /\ denied' = FALSE
           /\ pool'.capacity = pool.capacity /\ pool'.chained = pool.chained
           /\ pool'.used = pool.used + 1
<1>1. lent' = lent \union {idx} /\ denied' = FALSE
  BY DEF Lend
<1>2. IsFiniteSet(lent') /\ Cardinality(lent') = Cardinality(lent) + 1
  BY <1>1, FS_AddElement DEF PoolTypes
<1>3. /\ pool'.capacity = pool.capacity /\ pool'.chained = pool.chained
      /\ pool'.used = pool.used + 1 /\ pool.used \in Nat
  BY DEF PoolTypes
<1>4. pool.bitmap = lent /\ pool.capacity \in PoolSizes /\ pool.chained \in BOOLEAN
  BY DEF PoolTypes
<1>5. PoolTypes'
  <2>1. pool.used + 1 \in Nat /\ pool'.free \in Seq(0 .. pool'.capacity - 1)
    BY <1>3
  <2>2. pool' = [capacity |-> pool'.capacity, chained |-> pool'.chained, bitmap |-> pool'.bitmap,
                 used |-> pool'.used, free |-> pool'.free, recycled |-> pool'.recycled,
                 lane |-> pool'.lane, chunk |-> pool'.chunk]
    OBVIOUS
  <2>3. /\ pool'.capacity \in PoolSizes /\ pool'.chained \in BOOLEAN /\ pool'.bitmap = lent'
        /\ pool'.used \in Nat
    BY <1>1, <1>3, <1>4, <2>1
  <2>4. pool' \in [capacity : PoolSizes, chained : BOOLEAN, bitmap : {lent'}, used : Nat,
                   free : Seq(0 .. pool'.capacity - 1), recycled : {pool'.recycled},
                   lane : {pool'.lane}, chunk : {pool'.chunk}]
    BY <2>1, <2>2, <2>3
  <2>5. IsFiniteSet(lent') /\ pool'.used = Cardinality(lent')
    BY <1>2, <1>3 DEF PoolTypes
  <2> QED
    BY <1>1, <2>4, <2>5 DEF PoolTypes
<1> QED
  BY <1>1, <1>3, <1>5

\* and each call keeps it.
LEMMA PoolInvNext == PoolInv /\ [PoolNext]_poolVars => PoolInv'
<1> SUFFICES ASSUME PoolInv, [PoolNext]_poolVars PROVE PoolInv'
  OBVIOUS
<1> DEFINE Same == [capacity : {pool.capacity}, chained : {pool.chained}, bitmap : {pool.bitmap},
                    used : {pool.used}, free : {pool.free}, recycled : {pool.recycled},
                    lane : {pool.lane}, chunk : {pool.chunk}]
<1>1. PICK n, f, u : n = pool.capacity /\ f = pool.free /\ u = pool.used
  OBVIOUS
<1>2. /\ n \in PoolSizes /\ n \in Nat \ {0} /\ pool.chained \in BOOLEAN /\ pool.bitmap = lent
      /\ u \in Nat /\ u = Cardinality(lent) /\ IsFiniteSet(lent)
      /\ f \in Seq(0 .. n - 1) /\ Len(f) \in Nat /\ PoolTypes
  BY <1>1, ContainersAssumption DEF PoolInv, PoolTypes
<1>3. /\ ~pool.chained => f = <<>>
      /\ pool.chained =>
            /\ lent \subseteq 0 .. n - 1
            /\ \A i \in 0 .. n - 1 : i \in lent \/ \E k \in 1 .. Len(f) : f[k] = i
            /\ \A k \in 1 .. Len(f) : f[k] \notin lent
            /\ \A k, m \in 1 .. Len(f) : f[k] = f[m] => k = m
            /\ Len(f) + u = n
            /\ denied => u = n
  BY <1>1 DEF PoolInv, ChainInv
<1>4. pool \in Same
  BY DEF PoolInv, PoolTypes
<1>5. CASE UNCHANGED poolVars
  BY <1>5 DEF poolVars, PoolInv, PoolTypes, ChainInv
<1>6. CASE PoolAllocChained
  <2>1. f # <<>> /\ Lend(Head(f))
        /\ pool' = [Marked(Head(f)) EXCEPT !.free = Tail(@)]
    BY <1>1, <1>6 DEF PoolAllocChained
  <2>2. PICK i : i = Head(f)
    OBVIOUS
  <2>3. /\ pool.chained /\ i = f[1] /\ 1 \in 1 .. Len(f) /\ i \in 0 .. n - 1
        /\ Tail(f) \in Seq(0 .. n - 1) /\ Len(Tail(f)) = Len(f) - 1
        /\ \A k \in 1 .. Len(f) - 1 : Tail(f)[k] = f[k + 1]
    <3>1. Len(f) # 0
      BY <1>2, <2>1, EmptySeq
    <3>2. /\ Head(f) \in 0 .. n - 1 /\ Tail(f) \in Seq(0 .. n - 1) /\ Len(Tail(f)) = Len(f) - 1
          /\ \A k \in 1 .. Len(f) - 1 : Tail(f)[k] = f[k + 1]
      BY <1>2, <2>1, <3>1, HeadTailProperties
    <3>3. Head(f) = f[1]
      BY <1>2, <2>1
    <3> QED
      BY <1>2, <1>3, <2>1, <2>2, <3>1, <3>2, <3>3
  <2>4. i \notin lent
    BY <1>3, <2>3
  <2>5. pool' = [capacity |-> n, chained |-> pool.chained, bitmap |-> pool.bitmap \union {i},
                 used |-> u + 1, free |-> Tail(f), recycled |-> pool.recycled,
                 lane |-> pool.lane, chunk |-> pool.chunk]
    BY <1>1, <1>4, <2>1, <2>2 DEF Marked
  <2>6. pool' \in [capacity : {pool.capacity},
               chained : {pool.chained}, bitmap : {pool.bitmap \union {i}}, used : {pool.used + 1},
               free : Seq(0 .. pool.capacity - 1), recycled : {pool'.recycled},
               lane : {pool'.lane}, chunk : {pool'.chunk}]
    BY <1>1, <2>3, <2>5
  <2>7. /\ PoolTypes' /\ lent' = lent \union {i} /\ denied' = FALSE
        /\ pool'.capacity = n /\ pool'.chained = pool.chained /\ pool'.used = u + 1
    BY <1>1, <1>2, <2>1, <2>2, <2>4, <2>6, Lends
  <2>8. PICK g : g = pool'.free
    OBVIOUS
  <2>9. g = Tail(f) /\ Len(g) = Len(f) - 1 /\ \A k \in 1 .. Len(g) : k + 1 \in 1 .. Len(f) /\ g[k] = f[k + 1]
    BY <1>2, <2>3, <2>5, <2>8
  <2>10. \A j \in 0 .. n - 1 : j \in lent' \/ \E k \in 1 .. Len(g) : g[k] = j
    <3> SUFFICES ASSUME NEW j \in 0 .. n - 1, j \notin lent, j # i PROVE \E k \in 1 .. Len(g) : g[k] = j
      BY <2>7
    <3>1. PICK k \in 1 .. Len(f) : f[k] = j
      BY <1>3, <2>3
    <3>2. k # 1
      BY <2>3, <3>1
    <3>3. k - 1 \in 1 .. Len(g) /\ (k - 1) + 1 = k
      BY <1>2, <2>9, <3>2
    <3>4. g[k - 1] = j
      BY <2>9, <3>1, <3>3
    <3> QED
      BY <3>3, <3>4
  <2>11. \A k \in 1 .. Len(g) : g[k] \notin lent'
    <3> SUFFICES ASSUME NEW k \in 1 .. Len(g) PROVE g[k] \notin lent'
      OBVIOUS
    <3>1. k + 1 # 1
      BY <1>2, <2>9
    <3>2. f[k + 1] # f[1] /\ f[k + 1] \notin lent
      BY <1>3, <2>3, <2>9, <3>1
    <3> QED
      BY <2>3, <2>7, <2>9, <3>2
  <2>12. \A k, m \in 1 .. Len(g) : g[k] = g[m] => k = m
    <3> SUFFICES ASSUME NEW k \in 1 .. Len(g), NEW m \in 1 .. Len(g), g[k] = g[m] PROVE k = m
      OBVIOUS
    <3>1. k + 1 = m + 1
      BY <1>3, <2>3, <2>9
    <3> QED
      BY <1>2, <2>9, <3>1
  <2>13. Len(g) + (u + 1) = n
    BY <1>2, <1>3, <2>3, <2>9
  <2> QED
    BY <1>3, <2>3, <2>7, <2>8, <2>10, <2>11, <2>12, <2>13 DEF PoolInv, ChainInv
<1>7. CASE PoolFull
  <2>1. UNCHANGED <<pool, lent>> /\ denied' = TRUE /\ f = <<>> /\ u >= n
    BY <1>1, <1>7 DEF PoolFull
  <2>2. pool.chained => u = n
    BY <1>2, <1>3, <2>1, EmptySeq
  <2>3. PoolTypes'
    BY <1>2, <2>1 DEF PoolTypes
  <2>4. ChainInv'
    BY <1>1, <1>3, <2>1, <2>2 DEF ChainInv
  <2> QED
    BY <2>3, <2>4 DEF PoolInv
<1>8. ASSUME f = <<>>, u < n PROVE ~pool.chained
  BY <1>2, <1>3, <1>8, EmptySeq
<1>9. CASE PoolAllocRecycled
  <2>1. PICK i : i = pool.recycled
    OBVIOUS
  <2>2. /\ f = <<>> /\ u < n /\ i \notin lent /\ Lend(i)
        /\ pool' = [Marked(i) EXCEPT !.recycled = Nothing]
    BY <1>1, <1>2, <1>9, <2>1 DEF PoolAllocRecycled, Recyclable, Usable
  <2>3. pool' = [capacity |-> n, chained |-> pool.chained, bitmap |-> pool.bitmap \union {i},
                 used |-> u + 1, free |-> f, recycled |-> Nothing,
                 lane |-> pool.lane, chunk |-> pool.chunk]
    BY <1>1, <1>4, <2>2 DEF Marked
  <2>4. pool' \in [capacity : {pool.capacity},
               chained : {pool.chained}, bitmap : {pool.bitmap \union {i}}, used : {pool.used + 1},
               free : Seq(0 .. pool.capacity - 1), recycled : {pool'.recycled},
               lane : {pool'.lane}, chunk : {pool'.chunk}]
    BY <1>1, <1>2, <2>3
  <2>5. PoolTypes' /\ pool'.chained = pool.chained
    BY <1>2, <2>2, <2>4, Lends
  <2>6. ~pool.chained /\ pool'.free = <<>>
    BY <1>8, <2>2, <2>3
  <2> QED
    BY <2>5, <2>6 DEF PoolInv, ChainInv
<1>10. CASE PoolAllocScan
  <2>1. PICK cursor : cursor = Cursor
    OBVIOUS
  <2> DEFINE H == {k \in 0..pool.capacity - 1 : Usable(Slot(cursor[k]))}
             F == CHOOSE k \in H : \A j \in H : k <= j
             S == IF H = {} THEN pool.capacity ELSE F + 1
             P == IF H = {} THEN pool ELSE Marked(Slot(cursor[F]))
  <2>0. /\ pool.free = <<>> /\ pool.used < pool.capacity
        /\ pool' = [P EXCEPT !.recycled = Nothing, !.lane = cursor[S].lane,
                             !.chunk = cursor[S].chunk]
        /\ IF H = {} THEN denied' = TRUE /\ UNCHANGED lent ELSE Lend(Slot(cursor[F]))
    BY <1>10, <2>1 DEF PoolAllocScan
  <2> HIDE DEF H, F, S
  <2>2. PICK hits : hits = H
    OBVIOUS
  <2>3. PICK first : first = F
    OBVIOUS
  <2>4. PICK stop : stop = S
    OBVIOUS
  <2>5. PICK i : i = Slot(cursor[first])
    OBVIOUS
  <2>6. /\ f = <<>> /\ u < n
        /\ pool' = [(IF hits = {} THEN pool ELSE Marked(i))
                        EXCEPT !.recycled = Nothing, !.lane = cursor[stop].lane,
                               !.chunk = cursor[stop].chunk]
        /\ IF hits = {} THEN denied' = TRUE /\ UNCHANGED lent ELSE Lend(i)
    BY <1>1, <2>0, <2>2, <2>3, <2>4, <2>5
  <2>7. ~pool.chained
    BY <1>8, <2>6
  <2>8. PICK l, c : l = cursor[stop].lane /\ c = cursor[stop].chunk
    OBVIOUS
  <2>9. CASE hits = {}
    <3>1. pool' = [capacity |-> n, chained |-> pool.chained, bitmap |-> pool.bitmap, used |-> u,
                   free |-> f, recycled |-> Nothing, lane |-> l, chunk |-> c]
      BY <1>1, <1>4, <2>6, <2>8, <2>9
    <3>2. PoolTypes'
      BY <1>1, <1>2, <2>6, <2>9, <3>1 DEF PoolTypes
    <3>3. pool'.chained = pool.chained /\ pool'.free = f
      BY <3>1
    <3>4. f = <<>>
      BY <2>6
    <3> QED
      BY <2>7, <3>2, <3>3, <3>4 DEF PoolInv, ChainInv
  <2>10. CASE hits # {}
    <3>1. first \in hits
      <4>1. 0 \in Int /\ n - 1 \in Int /\ hits \subseteq 0 .. n - 1 /\ hits \subseteq Int
        BY <1>1, <1>2, <2>2 DEF H
      <4>2. IsFiniteSet(hits)
        BY <4>1, FS_Interval, FS_Subset
      <4>3. Min(hits) \in hits /\ \A y \in hits : Min(hits) <= y
        BY <2>10, <4>1, <4>2, LeastOfFinite
      <4> QED
        BY <2>2, <2>3, <4>3 DEF F
    <3>2. i \notin lent
      BY <1>2, <2>2, <2>5, <3>1 DEF Usable, H
    <3>3. pool' = [capacity |-> n, chained |-> pool.chained, bitmap |-> pool.bitmap \union {i},
                   used |-> u + 1, free |-> f, recycled |-> Nothing, lane |-> l, chunk |-> c]
      <4>1. pool' = [Marked(i) EXCEPT !.recycled = Nothing, !.lane = l, !.chunk = c]
        BY <2>6, <2>8, <2>10
      <4> QED
        BY <1>1, <1>4, <4>1 DEF Marked
    <3>4. pool' \in [capacity : {pool.capacity},
               chained : {pool.chained}, bitmap : {pool.bitmap \union {i}}, used : {pool.used + 1},
               free : Seq(0 .. pool.capacity - 1), recycled : {pool'.recycled},
               lane : {pool'.lane}, chunk : {pool'.chunk}]
      BY <1>1, <1>2, <3>3
    <3>5. PoolTypes' /\ pool'.chained = pool.chained
      BY <1>2, <2>6, <2>10, <3>2, <3>4, Lends
    <3>6. pool'.free = f
      BY <3>3
    <3>7. f = <<>>
      BY <2>6
    <3> QED
      BY <2>7, <3>5, <3>6, <3>7 DEF PoolInv, ChainInv
  <2> QED
    BY <2>9, <2>10
<1>11. ASSUME NEW c \in PoolSizes, NEW i \in 0 .. c - 1, PoolFree(i) PROVE PoolInv'
  <2>1. /\ i < n /\ i \in lent /\ lent' = lent \ {i} /\ denied' = FALSE
        /\ pool' = [pool EXCEPT !.bitmap = @ \ {i}, !.used = IF @ = 0 THEN @ ELSE @ - 1,
                                !.recycled = i,
                                !.free = IF pool.chained THEN <<i>> \o @ ELSE @]
    BY <1>1, <1>2, <1>11 DEF PoolFree, Allocated
  <2>0. i < n /\ i \in lent /\ lent' = lent \ {i} /\ denied' = FALSE
    BY <2>1
  <2>2. i \in 0 .. n - 1
    BY <1>2, <2>0, ContainersAssumption
  <2>3. u # 0
    BY <1>2, <2>1, FS_EmptySet
  <2>4. PICK g : g = IF pool.chained THEN <<i>> \o f ELSE f
    OBVIOUS
  <2>5. pool' = [capacity |-> n, chained |-> pool.chained, bitmap |-> pool.bitmap \ {i},
                 used |-> u - 1, free |-> g, recycled |-> i, lane |-> pool.lane,
                 chunk |-> pool.chunk]
    BY <1>1, <1>4, <2>1, <2>3, <2>4
  <2>6. /\ <<i>> \in Seq(0 .. n - 1) /\ Len(<<i>>) = 1 /\ <<i>>[1] = i
    BY <2>2
  <2>7. /\ <<i>> \o f \in Seq(0 .. n - 1) /\ Len(<<i>> \o f) = 1 + Len(f)
        /\ \A k \in 1 .. 1 + Len(f) : (<<i>> \o f)[k] = IF k <= 1 THEN <<i>>[k] ELSE f[k - 1]
    BY <1>2, <2>6, ConcatProperties
  <2>8. g \in Seq(0 .. n - 1)
    BY <1>2, <2>4, <2>7
  <2>9. IsFiniteSet(lent') /\ Cardinality(lent') = u - 1
    BY <1>2, <2>1, FS_RemoveElement
  <2>10. u - 1 \in Nat
    BY <1>2, <2>3
  <2>11. PoolTypes'
    <3>1. /\ pool'.capacity = n /\ pool'.chained = pool.chained /\ pool'.bitmap = lent'
          /\ pool'.used = u - 1 /\ pool'.free = g
      BY <1>2, <2>0, <2>5
    <3>2. pool' = [capacity |-> n, chained |-> pool.chained, bitmap |-> lent', used |-> u - 1,
                   free |-> g, recycled |-> pool'.recycled, lane |-> pool'.lane,
                   chunk |-> pool'.chunk]
      BY <1>2, <2>0, <2>5
    <3>3. pool' \in [capacity : PoolSizes, chained : BOOLEAN, bitmap : {lent'}, used : Nat,
                     free : Seq(0 .. pool'.capacity - 1), recycled : {pool'.recycled},
                     lane : {pool'.lane}, chunk : {pool'.chunk}]
      BY <1>2, <2>8, <2>10, <3>1, <3>2
    <3> QED
      BY <2>0, <2>9, <3>1, <3>3 DEF PoolTypes
  <2>12. pool'.capacity = n /\ pool'.chained = pool.chained /\ pool'.used = u - 1 /\ pool'.free = g
    BY <2>5
  <2>13. CASE ~pool.chained
    BY <1>3, <2>4, <2>11, <2>12, <2>13 DEF PoolInv, ChainInv
  <2>14. CASE pool.chained
    <3>1. /\ Len(g) = 1 + Len(f) /\ g[1] = i /\ 1 \in 1 .. Len(g)
          /\ \A k \in 1 .. Len(f) : k + 1 \in 1 .. Len(g) /\ g[k + 1] = f[k]
          /\ \A k \in 1 .. Len(g) : k = 1 \/ (k - 1 \in 1 .. Len(f) /\ g[k] = f[k - 1])
      <4>1. g = <<i>> \o f
        BY <2>4, <2>14
      <4>2. Len(g) = 1 + Len(f) /\ \A k \in 1 .. 1 + Len(f) : g[k] = IF k <= 1 THEN i ELSE f[k - 1]
        <5>1. \A k \in 1 .. 1 + Len(f) : k <= 1 => <<i>>[k] = i
          BY <2>6
        <5> QED
          BY <2>7, <4>1, <5>1
      <4> HIDE <4>1
      <4>3. g[1] = i /\ 1 \in 1 .. Len(g)
        BY <1>2, <4>2
      <4>4. ASSUME NEW k \in 1 .. Len(f) PROVE k + 1 \in 1 .. Len(g) /\ g[k + 1] = f[k]
        <5>1. k + 1 \in 1 .. 1 + Len(f) /\ ~(k + 1 <= 1) /\ (k + 1) - 1 = k
          BY <1>2
        <5> QED
          BY <4>2, <5>1
      <4>5. ASSUME NEW k \in 1 .. Len(g), k # 1 PROVE k - 1 \in 1 .. Len(f) /\ g[k] = f[k - 1]
        <5>1. k \in 1 .. 1 + Len(f) /\ ~(k <= 1) /\ k - 1 \in 1 .. Len(f)
          BY <1>2, <4>2, <4>5
        <5> QED
          BY <4>2, <5>1
      <4> QED
        BY <4>2, <4>3, <4>4, <4>5
    <3>2. \A j \in 0 .. n - 1 : j \in lent' \/ \E k \in 1 .. Len(g) : g[k] = j
      <4> SUFFICES ASSUME NEW j \in 0 .. n - 1, j \notin lent', j # i
                   PROVE  \E k \in 1 .. Len(g) : g[k] = j
        BY <3>1
      <4>1. PICK k \in 1 .. Len(f) : f[k] = j
        BY <1>3, <2>1, <2>14
      <4> QED
        BY <3>1, <4>1
    <3>3. \A k \in 1 .. Len(g) : g[k] \notin lent'
      <4> SUFFICES ASSUME NEW k \in 1 .. Len(g), k # 1 PROVE g[k] \notin lent'
        BY <2>1, <3>1
      <4> QED
        BY <1>3, <2>1, <2>14, <3>1
    <3>4. \A k, m \in 1 .. Len(g) : g[k] = g[m] => k = m
      <4> SUFFICES ASSUME NEW k \in 1 .. Len(g), NEW m \in 1 .. Len(g), g[k] = g[m] PROVE k = m
        OBVIOUS
      <4>1. \A p \in 1 .. Len(g) : p # 1 => g[p] # i
        BY <1>3, <2>1, <2>14, <3>1
      <4>2. CASE k # 1 /\ m # 1
        <5>1. k - 1 = m - 1
          BY <1>3, <2>14, <3>1, <4>2
        <5> QED
          BY <1>2, <3>1, <5>1
      <4> QED
        BY <3>1, <4>1, <4>2
    <3>5. Len(g) + (u - 1) = n
      BY <1>2, <1>3, <2>14, <3>1
    <3>6. lent' \subseteq 0 .. n - 1
      BY <1>3, <2>1, <2>14
    <3>7. ChainInv'
      <4> HIDE <2>4
      <4> QED
        BY <2>0, <2>12, <2>14, <3>2, <3>3, <3>4, <3>5, <3>6 DEF ChainInv
    <3> QED
      BY <2>11, <3>7 DEF PoolInv
  <2> QED
    BY <2>13, <2>14
<1> QED
  BY <1>5, <1>6, <1>7, <1>9, <1>10, <1>11 DEF PoolNext

\* No item is handed out twice, whatever is freed, and a chained pool refuses only when
\* every item is handed out (ttak_object_pool_alloc and ttak_object_pool_free).
THEOREM ItemsLent == PoolSpec => []PoolItems
<1>1. PoolInv => PoolItems
  <2> SUFFICES ASSUME PoolInv PROVE PoolItems
    OBVIOUS
  <2>1. PICK n, f : n = pool.capacity /\ f = pool.free
    OBVIOUS
  <2>2. f \in Seq(0 .. n - 1) /\ pool.bitmap = lent /\ pool.used = Cardinality(lent)
    BY <2>1 DEF PoolInv, PoolTypes
  <2>3. DOMAIN f = 1 .. Len(f) /\ \A k \in 1 .. Len(f) : f[k] \in 0 .. n - 1
    BY <2>2, LenProperties, ElementOfSeq
  <2>4. ASSUME pool.chained PROVE lent \union {f[i] : i \in DOMAIN f} = 0 .. n - 1
    <3>1. lent \subseteq 0 .. n - 1
      BY <2>1, <2>4 DEF PoolInv, ChainInv
    <3>2. \A i \in 0 .. n - 1 : i \in lent \/ \E k \in 1 .. Len(f) : f[k] = i
      BY <2>1, <2>4 DEF PoolInv, ChainInv
    <3>3. \A k \in DOMAIN f : f[k] \in 0 .. n - 1
      BY <2>3
    <3>4. ASSUME NEW i \in 0 .. n - 1, i \notin lent PROVE \E k \in DOMAIN f : f[k] = i
      BY <2>3, <3>2, <3>4
    <3> QED
      BY <3>1, <3>3, <3>4
  <2>5. pool.chained => Len(f) + Cardinality(lent) = n /\ (denied => Cardinality(lent) = n)
    BY <2>1, <2>2 DEF PoolInv, ChainInv
  <2> QED
    BY <2>1, <2>2, <2>4, <2>5 DEF PoolItems
<1> QED
  BY <1>1, PoolInvInit, PoolInvNext, PTL DEF PoolSpec

-----------------------------------------------------------------------------
(***************************************************************************)
(* The task queue.                                                          *)
(***************************************************************************)

\* The least number with a property, of those up to a bound.
LEMMA LeastUpTo ==
    ASSUME NEW n \in Nat, NEW B, B \subseteq 0 .. n, B # {}
    PROVE  \E m \in B : \A y \in B : m <= y
<1>1. 0 \in Int /\ n \in Int /\ B \subseteq Int
  OBVIOUS
<1>2. IsFiniteSet(B)
  <2>1. IsFiniteSet(0 .. n)
    BY <1>1, FS_Interval
  <2> QED
    BY <2>1, FS_Subset
<1> QED
  BY <1>1, <1>2, LeastOfFinite

\* The turns of a loop: a function F from each stage T[i-1] to the next.
Turns(f, F, start, n) == f = [i \in 0 .. n |-> IF i = 0 THEN start ELSE F[f[i-1]]]
LEMMA TurnsExist ==
    ASSUME NEW n \in Nat, NEW F, NEW start
    PROVE  \E f : Turns(f, F, start, n)
<1> DEFINE B == {m \in 0 .. n : ~\E f : Turns(f, F, start, m)}
<1>1. SUFFICES ASSUME B # {} PROVE FALSE
  OBVIOUS
<1>2. PICK m \in B : \A y \in B : m <= y
  BY <1>1, LeastUpTo
<1>3. m \in 0 .. n /\ ~\E f : Turns(f, F, start, m)
  OBVIOUS
<1>4. m # 0
  <2>1. Turns([i \in 0 .. 0 |-> start], F, start, 0)
    BY DEF Turns
  <2> QED
    BY <1>3, <2>1
<1>5. PICK f : Turns(f, F, start, m - 1)
  <2>1. m - 1 \in 0 .. n /\ ~(m <= m - 1)
    BY <1>3, <1>4
  <2>2. m - 1 \notin B
    BY <1>2, <2>1
  <2> QED
    BY <2>1, <2>2
<1>6. PICK g : g = [i \in 0 .. m |-> IF i = 0 THEN start ELSE F[f[i-1]]]
  OBVIOUS
<1>7. \A i \in 0 .. m - 1 : g[i] = f[i]
  <2> SUFFICES ASSUME NEW i \in 0 .. m - 1 PROVE g[i] = f[i]
    OBVIOUS
  <2>1. i \in 0 .. m
    BY <1>3
  <2>2. g[i] = IF i = 0 THEN start ELSE F[f[i-1]]
    BY <1>6, <2>1
  <2>3. f[i] = IF i = 0 THEN start ELSE F[f[i-1]]
    BY <1>5 DEF Turns
  <2> QED
    BY <2>2, <2>3
<1>8. \A i \in 0 .. m : i # 0 => F[g[i-1]] = F[f[i-1]]
  <2> SUFFICES ASSUME NEW i \in 0 .. m, i # 0 PROVE F[g[i-1]] = F[f[i-1]]
    OBVIOUS
  <2>1. i - 1 \in 0 .. m - 1
    BY <1>3
  <2> QED
    BY <1>7, <2>1
<1>9. Turns(g, F, start, m)
  BY <1>6, <1>8 DEF Turns
<1> QED
  BY <1>3, <1>9

\* What each turn keeps, every stage has.
LEMMA StagesStay ==
    ASSUME NEW n \in Nat, NEW f, NEW T, f[0] \in T[0],
           \A i \in 1 .. n : f[i-1] \in T[i-1] => f[i] \in T[i]
    PROVE  \A i \in 0 .. n : f[i] \in T[i]
<1> DEFINE B == {m \in 0 .. n : f[m] \notin T[m]}
<1>1. SUFFICES ASSUME B # {} PROVE FALSE
  OBVIOUS
<1>2. PICK m \in B : \A y \in B : m <= y
  BY <1>1, LeastUpTo
<1>3. m \in 0 .. n /\ f[m] \notin T[m] /\ m # 0
  OBVIOUS
<1>4. f[m-1] \in T[m-1]
  <2>1. m - 1 \in 0 .. n /\ ~(m <= m - 1)
    BY <1>3
  <2>2. m - 1 \notin B
    BY <1>2, <2>1
  <2> QED
    BY <2>1, <2>2
<1>5. m \in 1 .. n
  BY <1>3
<1> QED
  BY <1>3, <1>4, <1>5

-----------------------------------------------------------------------------
(* The heap. *)

Entries == [priority : Priorities, slot : Nat]
Elems(s) == {s[i] : i \in 1 .. Len(s)}
Apart(s) == \A i, j \in 1 .. Len(s) : s[i].slot = s[j].slot => i = j
Heaped(s) == \A i \in 2 .. Len(s) : s[i \div 2].priority >= s[i].priority

LEMMA Halves ==
    /\ \A i \in Nat : i > 1 => i \div 2 \in Nat /\ 1 <= i \div 2 /\ i \div 2 < i
    /\ \A i, j \in Nat : j \div 2 = i <=> j = 2 * i \/ j = 2 * i + 1
OBVIOUS

\* A swap changes the order only.
Exchanged(s, i, j, t) ==
    /\ t \in Seq(Entries) /\ Len(t) = Len(s) /\ t[i] = s[j] /\ t[j] = s[i]
    /\ \A k \in 1 .. Len(s) : k # i /\ k # j => t[k] = s[k]
    /\ Elems(t) = Elems(s) /\ (Apart(s) => Apart(t))
LEMMA SwapKeeps ==
    ASSUME NEW s \in Seq(Entries), NEW i \in 1 .. Len(s), NEW j \in 1 .. Len(s),
           NEW t, t = Swap(s, i, j)
    PROVE  Exchanged(s, i, j, t)
<1>1. \A k \in 1 .. Len(s) : s[k] \in Entries
  BY ElementOfSeq
<1>2. PICK u : u = [s EXCEPT ![i] = s[j]]
  OBVIOUS
<1>3. /\ u \in Seq(Entries) /\ Len(u) = Len(s) /\ u[i] = s[j]
      /\ \A k \in 1 .. Len(s) : k # i => u[k] = s[k]
  BY <1>1, <1>2, ExceptSeq
<1>4. t = [u EXCEPT ![j] = s[i]]
  BY <1>2 DEF Swap
<1>5. /\ t \in Seq(Entries) /\ Len(t) = Len(u) /\ t[j] = s[i]
      /\ \A k \in 1 .. Len(s) : k # j => t[k] = u[k]
  BY <1>1, <1>3, <1>4, ExceptSeq
<1>6. t[i] = s[j]
  BY <1>3, <1>5
<1>7. \A k \in 1 .. Len(s) : k # i /\ k # j => t[k] = s[k]
  BY <1>3, <1>5
<1>8. Elems(t) = Elems(s)
  <2>1. ASSUME NEW k \in 1 .. Len(s) PROVE t[k] \in Elems(s) /\ s[k] \in Elems(t)
    BY <1>3, <1>5, <1>6, <1>7 DEF Elems
  <2>2. Len(t) = Len(s)
    BY <1>3, <1>5
  <2>3. ASSUME NEW x \in Elems(t) PROVE x \in Elems(s)
    <3>1. PICK k \in 1 .. Len(s) : x = t[k]
      BY <2>2 DEF Elems
    <3> QED
      BY <2>1, <3>1
  <2>4. ASSUME NEW x \in Elems(s) PROVE x \in Elems(t)
    <3>1. PICK k \in 1 .. Len(s) : x = s[k]
      BY DEF Elems
    <3> QED
      BY <2>1, <3>1
  <2> QED
    BY <2>3, <2>4
<1>9. ASSUME Apart(s) PROVE Apart(t)
  BY <1>3, <1>5, <1>6, <1>7, <1>9 DEF Apart
<1> QED
  BY <1>3, <1>5, <1>6, <1>7, <1>8, <1>9 DEF Exchanged

\* An array in order but for the element at a, which may have to rise,
RisingAt(s, a) ==
    /\ a \in 1 .. Len(s)
    /\ \A i \in 2 .. Len(s) : i # a => s[i \div 2].priority >= s[i].priority
    /\ a > 1 => \A i \in 2 .. Len(s) : i \div 2 = a => s[a \div 2].priority >= s[i].priority
\* or to sink.
SinkingAt(s, a) ==
    /\ a \in 1 .. Len(s)
    /\ \A i \in 2 .. Len(s) : i \div 2 # a => s[i \div 2].priority >= s[i].priority
    /\ a > 1 => \A i \in 2 .. Len(s) : i \div 2 = a => s[a \div 2].priority >= s[i].priority

LEMMA PriorityNat ==
    ASSUME NEW s \in Seq(Entries)
    PROVE  Len(s) \in Nat /\ \A i \in 1 .. Len(s) : s[i].priority \in Nat
<1>1. \A i \in 1 .. Len(s) : s[i] \in Entries
  BY ElementOfSeq
<1>2. Priorities \subseteq Nat
  BY TaskQueueAssumption
<1>3. \A e \in Entries : e.priority \in Nat
  BY <1>2 DEF Entries
<1> QED
  BY <1>1, <1>3

LEMMA RiseStep ==
    ASSUME NEW s \in Seq(Entries), NEW a, RisingAt(s, a), a > 1, NEW b, b = a \div 2, Above(s, a, b),
           NEW t, t = Swap(s, a, b)
    PROVE  RisingAt(t, b) /\ b < a
<1>0. \A i \in 2 .. Len(s) : i # a => s[i \div 2].priority >= s[i].priority
  BY DEF RisingAt
<1>00. \A i \in 2 .. Len(s) : i \div 2 = a => s[a \div 2].priority >= s[i].priority
  BY DEF RisingAt
<1>1. a \in 2 .. Len(s) /\ b \in 1 .. Len(s) /\ b < a /\ a \in Nat /\ b \in Nat /\ Len(s) \in Nat
  BY Halves, PriorityNat DEF RisingAt
<1>2. a \in 1 .. Len(s)
  BY <1>1
<1>3. /\ Len(t) = Len(s) /\ t[a] = s[b] /\ t[b] = s[a]
      /\ \A k \in 1 .. Len(s) : k # a /\ k # b => t[k] = s[k]
  <2>1. Exchanged(s, a, b, t)
    BY <1>1, <1>2, SwapKeeps
  <2> QED
    BY <2>1 DEF Exchanged
<1>4. s[a].priority > s[b].priority
  BY DEF Above
<1>5. \A i \in 2 .. Len(s) : i \in 1 .. Len(s) /\ i \div 2 \in 1 .. Len(s) /\ i \div 2 < i
  BY <1>1, Halves
<1>6. \A i \in 1 .. Len(s) : s[i].priority \in Nat
  BY PriorityNat
<1>7. ASSUME NEW i \in 2 .. Len(s), i # b PROVE t[i \div 2].priority >= t[i].priority
  <2>1. PICK h : h = i \div 2
    OBVIOUS
  <2>2. h \in 1 .. Len(s) /\ i \in 1 .. Len(s)
    BY <1>5, <2>1
  <2>3. CASE i = a
    BY <1>1, <1>2, <1>3, <1>4, <1>6, <2>1, <2>3
  <2>4. CASE i # a
    <3>1. s[h].priority >= s[i].priority /\ t[i] = s[i]
      BY <1>0, <1>3, <1>7, <2>1, <2>2, <2>4
    <3>2. CASE h = a
      <4>1. s[b].priority >= s[i].priority
        BY <1>00, <2>1, <3>2
      <4> QED
        BY <1>3, <2>1, <3>1, <3>2, <4>1
    <3>3. CASE h = b
      <4>1. t[h] = s[a]
        BY <1>3, <3>3
      <4>2. s[b].priority >= s[i].priority
        BY <3>1, <3>3
      <4>3. s[a].priority \in Nat /\ s[b].priority \in Nat /\ s[i].priority \in Nat
        BY <1>1, <1>2, <1>6, <2>2
      <4>4. PICK x, y, z : x = s[a].priority /\ y = s[b].priority /\ z = s[i].priority
        OBVIOUS
      <4>5. x > y /\ y >= z /\ x \in Nat /\ y \in Nat /\ z \in Nat
        BY <1>4, <4>2, <4>3, <4>4
      <4>6. x >= z
        BY <4>5
      <4> QED
        BY <2>1, <3>1, <4>1, <4>4, <4>6
    <3>4. CASE h # a /\ h # b
      BY <1>3, <2>1, <2>2, <3>1, <3>4
    <3> QED
      BY <3>2, <3>3, <3>4
  <2> QED
    BY <2>3, <2>4
<1>8. ASSUME b > 1, NEW i \in 2 .. Len(s), i \div 2 = b PROVE t[b \div 2].priority >= t[i].priority
  <2>1. PICK g : g = b \div 2
    OBVIOUS
  <2>2. b \in 2 .. Len(s) /\ g \in 1 .. Len(s) /\ g # b /\ g # a
    BY <1>1, <1>5, <1>8, <2>1
  <2>3. s[g].priority >= s[b].priority /\ t[g] = s[g]
    BY <1>0, <1>1, <1>3, <2>1, <2>2
  <2>4. CASE i = a
    BY <1>3, <2>1, <2>3, <2>4
  <2>5. CASE i # a
    <3>1. s[b].priority >= s[i].priority /\ t[i] = s[i]
      BY <1>0, <1>3, <1>5, <1>8, <2>5
    <3>2. s[g].priority \in Nat /\ s[b].priority \in Nat /\ s[i].priority \in Nat
      BY <1>1, <1>5, <1>6, <2>2
    <3>3. PICK x, y, z : x = s[g].priority /\ y = s[b].priority /\ z = s[i].priority
      OBVIOUS
    <3>4. x >= y /\ y >= z /\ x \in Nat /\ y \in Nat /\ z \in Nat
      BY <2>3, <3>1, <3>2, <3>3
    <3>5. x >= z
      BY <3>4
    <3> QED
      BY <2>1, <2>3, <3>1, <3>3, <3>5
  <2> QED
    BY <2>4, <2>5
<1> QED
  BY <1>1, <1>3, <1>7, <1>8 DEF RisingAt

LEMMA RiseStops ==
    ASSUME NEW s \in Seq(Entries), NEW a, RisingAt(s, a), a = 1 \/ ~Above(s, a, a \div 2)
    PROVE  Heaped(s)
<1> SUFFICES ASSUME NEW i \in 2 .. Len(s) PROVE s[i \div 2].priority >= s[i].priority
  BY DEF Heaped
<1>1. CASE i # a
  BY <1>1 DEF RisingAt
<1>2. CASE i = a
  <2>1. i \in 1 .. Len(s) /\ i \div 2 \in 1 .. Len(s) /\ i # 1
    BY Halves, PriorityNat
  <2>2. s[i].priority \in Nat /\ s[i \div 2].priority \in Nat
    BY <2>1, PriorityNat
  <2>3. ~(s[i].priority > s[i \div 2].priority)
    BY <1>2, <2>1 DEF Above
  <2> QED
    BY <2>2, <2>3
<1> QED
  BY <1>1, <1>2

LEMMA LargestChild ==
    ASSUME NEW s \in Seq(Entries), NEW a, SinkingAt(s, a), NEW l, l = Largest(s, a)
    PROVE  /\ l = a \/ (l \in 2 .. Len(s) /\ l \div 2 = a /\ s[l].priority > s[a].priority)
           /\ \A i \in 2 .. Len(s) : i \div 2 = a => s[l].priority >= s[i].priority
<1>1. a \in 1 .. Len(s) /\ a \in Nat /\ Len(s) \in Nat
  BY PriorityNat DEF SinkingAt
<1>2. PICK left, right : left = 2 * a /\ right = 2 * a + 1
  OBVIOUS
<1>3. PICK u : u = IF left <= Len(s) /\ Above(s, left, a) THEN left ELSE a
  OBVIOUS
<1>4. l = IF right <= Len(s) /\ Above(s, right, u) THEN right ELSE u
  BY <1>2, <1>3 DEF Largest
<1>5. left \in Nat /\ right \in Nat /\ left > 1 /\ right > 1 /\ left \div 2 = a /\ right \div 2 = a
  BY <1>1, <1>2, Halves
<1>6. \A i \in 1 .. Len(s) : s[i].priority \in Nat
  BY PriorityNat
<1>7. /\ u \in 1 .. Len(s) /\ s[u].priority >= s[a].priority
      /\ left <= Len(s) => s[u].priority >= s[left].priority
      /\ u # a => u = left /\ left <= Len(s) /\ s[u].priority > s[a].priority
  <2>1. CASE left <= Len(s) /\ Above(s, left, a)
    <3>1. left \in 1 .. Len(s) /\ u = left /\ s[left].priority > s[a].priority
      BY <1>1, <1>3, <1>5, <2>1 DEF Above
    <3> QED
      BY <1>1, <1>6, <2>1, <3>1
  <2>2. CASE ~(left <= Len(s) /\ Above(s, left, a))
    <3>1. u = a
      BY <1>3, <2>2
    <3>2. ASSUME left <= Len(s) PROVE s[a].priority >= s[left].priority
      <4>1. left \in 1 .. Len(s) /\ ~(s[left].priority > s[a].priority)
        BY <1>1, <1>5, <2>2, <3>2 DEF Above
      <4> QED
        BY <1>1, <1>6, <4>1
    <3>3. s[a].priority >= s[a].priority
      BY <1>1, <1>6
    <3> QED
      BY <1>1, <3>1, <3>2, <3>3
  <2> QED
    BY <2>1, <2>2
<1>8. /\ l \in 1 .. Len(s) /\ s[l].priority >= s[u].priority
      /\ right <= Len(s) => s[l].priority >= s[right].priority
      /\ l # u => l = right /\ right <= Len(s) /\ s[l].priority > s[u].priority
  <2>1. CASE right <= Len(s) /\ Above(s, right, u)
    <3>1. right \in 1 .. Len(s) /\ l = right /\ s[right].priority > s[u].priority
      BY <1>1, <1>4, <1>5, <2>1 DEF Above
    <3> QED
      BY <1>6, <1>7, <2>1, <3>1
  <2>2. CASE ~(right <= Len(s) /\ Above(s, right, u))
    <3>1. l = u
      BY <1>4, <2>2
    <3>2. ASSUME right <= Len(s) PROVE s[u].priority >= s[right].priority
      <4>1. right \in 1 .. Len(s) /\ ~(s[right].priority > s[u].priority)
        BY <1>1, <1>5, <2>2, <3>2 DEF Above
      <4> QED
        BY <1>6, <1>7, <4>1
    <3>3. s[u].priority >= s[u].priority
      BY <1>6, <1>7
    <3> QED
      BY <1>7, <3>1, <3>2, <3>3
  <2> QED
    BY <2>1, <2>2
<1>9. s[l].priority \in Nat /\ s[u].priority \in Nat /\ s[a].priority \in Nat
  BY <1>1, <1>6, <1>7, <1>8
<1>10. l = a \/ (l \in 2 .. Len(s) /\ l \div 2 = a /\ s[l].priority > s[a].priority)
  <2>1. CASE l # u
    <3>1. l = right /\ right <= Len(s) /\ s[l].priority > s[u].priority
      BY <1>8, <2>1
    <3>2. l \in 2 .. Len(s) /\ l \div 2 = a
      BY <1>1, <1>5, <3>1
    <3>3. PICK x, y, z : x = s[l].priority /\ y = s[u].priority /\ z = s[a].priority
      OBVIOUS
    <3>4. x > z
      BY <1>7, <1>9, <3>1, <3>3
    <3> QED
      BY <3>2, <3>3, <3>4
  <2>2. CASE l = u
    BY <1>1, <1>5, <1>7, <2>2
  <2> QED
    BY <2>1, <2>2
<1>11. ASSUME NEW i \in 2 .. Len(s), i \div 2 = a PROVE s[l].priority >= s[i].priority
  <2>1. i = left \/ i = right
    BY <1>1, <1>2, <1>11, Halves
  <2>2. i \in 1 .. Len(s) /\ i <= Len(s) /\ s[i].priority \in Nat
    BY <1>1, <1>6
  <2>3. CASE i = right
    BY <1>8, <2>2, <2>3
  <2>4. CASE i = left
    <3>1. s[u].priority >= s[i].priority
      BY <1>7, <2>2, <2>4
    <3>2. PICK x, y, z : x = s[l].priority /\ y = s[u].priority /\ z = s[i].priority
      OBVIOUS
    <3>3. x >= z
      BY <1>8, <1>9, <2>2, <3>1, <3>2
    <3> QED
      BY <3>2, <3>3
  <2> QED
    BY <2>1, <2>3, <2>4
<1> QED
  BY <1>10, <1>11

LEMMA SinkStep ==
    ASSUME NEW s \in Seq(Entries), NEW a, SinkingAt(s, a), NEW l, l = Largest(s, a), l # a,
           NEW t, t = Swap(s, a, l)
    PROVE  SinkingAt(t, l) /\ a < l
<1>0. \A i \in 2 .. Len(s) : i \div 2 # a => s[i \div 2].priority >= s[i].priority
  BY DEF SinkingAt
<1>00. a > 1 => \A i \in 2 .. Len(s) : i \div 2 = a => s[a \div 2].priority >= s[i].priority
  BY DEF SinkingAt
<1>1. /\ l \in 2 .. Len(s) /\ l \div 2 = a /\ s[l].priority > s[a].priority
      /\ \A i \in 2 .. Len(s) : i \div 2 = a => s[l].priority >= s[i].priority
  BY LargestChild
<1>2. /\ a \in 1 .. Len(s) /\ l \in 1 .. Len(s) /\ a < l /\ a \in Nat /\ l \in Nat /\ Len(s) \in Nat
  BY <1>1, Halves, PriorityNat DEF SinkingAt
<1>3. /\ Len(t) = Len(s) /\ t[a] = s[l] /\ t[l] = s[a]
      /\ \A k \in 1 .. Len(s) : k # a /\ k # l => t[k] = s[k]
  <2>1. Exchanged(s, a, l, t)
    BY <1>2, SwapKeeps
  <2> QED
    BY <2>1 DEF Exchanged
<1>5. \A i \in 2 .. Len(s) : i \in 1 .. Len(s) /\ i \div 2 \in 1 .. Len(s) /\ i \div 2 < i
  BY <1>2, Halves
<1>6. \A i \in 1 .. Len(s) : s[i].priority \in Nat
  BY PriorityNat
<1>7. ASSUME NEW i \in 2 .. Len(s), i \div 2 # l PROVE t[i \div 2].priority >= t[i].priority
  <2>1. PICK h : h = i \div 2
    OBVIOUS
  <2>2. h \in 1 .. Len(s) /\ i \in 1 .. Len(s) /\ h < i /\ h # l
    BY <1>5, <1>7, <2>1
  <2>3. CASE h = a
    <3>1. CASE i = l
      <4>1. t[h] = s[l] /\ t[i] = s[a]
        BY <1>3, <2>3, <3>1
      <4>2. PICK x, y : x = s[l].priority /\ y = s[a].priority
        OBVIOUS
      <4>3. x > y /\ x \in Nat /\ y \in Nat
        BY <1>1, <1>2, <1>6, <4>2
      <4>4. x >= y
        BY <4>3
      <4> QED
        BY <2>1, <4>1, <4>2, <4>4
    <3>2. CASE i # l
      <4>1. i # a
        BY <1>2, <2>2, <2>3
      <4>2. t[h] = s[l] /\ t[i] = s[i]
        BY <1>3, <2>2, <2>3, <3>2, <4>1
      <4>3. s[l].priority >= s[i].priority
        BY <1>1, <2>1, <2>3
      <4> QED
        BY <2>1, <4>2, <4>3
    <3> QED
      BY <3>1, <3>2
  <2>4. CASE h # a
    <3>1. i # l
      BY <1>1, <2>1, <2>4
    <3>2. t[h] = s[h]
      BY <1>3, <2>2, <2>4
    <3>3. CASE i = a
      <4>1. a > 1 /\ t[i] = s[l]
        BY <1>3, <3>3
      <4>2. s[h].priority >= s[l].priority
        BY <1>00, <1>1, <2>1, <3>3, <4>1
      <4> QED
        BY <2>1, <3>2, <4>1, <4>2
    <3>4. CASE i # a
      BY <1>0, <1>3, <2>1, <2>2, <2>4, <3>1, <3>2, <3>4
    <3> QED
      BY <3>3, <3>4
  <2> QED
    BY <2>3, <2>4
<1>8. ASSUME NEW i \in 2 .. Len(s), i \div 2 = l PROVE t[l \div 2].priority >= t[i].priority
  <2>1. i \in 1 .. Len(s) /\ i # l /\ i # a /\ l # a
    BY <1>2, <1>5, <1>8
  <2>2. t[i] = s[i] /\ t[a] = s[l]
    BY <1>3, <2>1
  <2>3. s[l].priority >= s[i].priority
    BY <1>0, <1>8, <2>1
  <2> QED
    BY <1>1, <2>2, <2>3
<1> QED
  BY <1>2, <1>3, <1>7, <1>8 DEF SinkingAt

LEMMA SinkStops ==
    ASSUME NEW s \in Seq(Entries), NEW a, SinkingAt(s, a), a = Largest(s, a)
    PROVE  Heaped(s)
<1> SUFFICES ASSUME NEW i \in 2 .. Len(s) PROVE s[i \div 2].priority >= s[i].priority
  BY DEF Heaped
<1>1. \A k \in 2 .. Len(s) : k \div 2 = a => s[a].priority >= s[k].priority
  BY LargestChild
<1>2. CASE i \div 2 # a
  BY <1>2 DEF SinkingAt
<1>3. CASE i \div 2 = a
  BY <1>1, <1>3
<1> QED
  BY <1>2, <1>3

\* A walk up s, k turns on: it is back at n - k or above, or has stopped.
Walks(s) == {w \in [data : Seq(Entries), at : Nat] :
                /\ Len(w.data) = Len(s) /\ Elems(w.data) = Elems(s)
                /\ Apart(s) => Apart(w.data)}
Stopped(w) == w.at = 1 \/ ~Above(w.data, w.at, w.at \div 2)
RisingWalks(s, k) == {w \in Walks(s) : RisingAt(w.data, w.at) /\ (w.at + k <= Len(s) \/ Stopped(w))}
SinkingWalks(s, k) == {w \in Walks(s) : SinkingAt(w.data, w.at) /\ (w.at > k \/ w.at = Largest(w.data, w.at))}

\* A walk that exchanges two elements is one of the same array.
LEMMA WalkOn ==
    ASSUME NEW s \in Seq(Entries), NEW w \in Walks(s), NEW a \in 1 .. Len(s), NEW b \in 1 .. Len(s),
           NEW t, t = Swap(w.data, a, b)
    PROVE  [data |-> t, at |-> b] \in Walks(s)
<1>1. PICK d : d = w.data
  OBVIOUS
<1>2. d \in Seq(Entries) /\ Len(d) = Len(s) /\ Elems(d) = Elems(s) /\ (Apart(s) => Apart(d))
  BY <1>1 DEF Walks
<1>3. Exchanged(d, a, b, t)
  BY <1>1, <1>2, SwapKeeps
<1>4. b \in Nat
  OBVIOUS
<1> QED
  BY <1>2, <1>3, <1>4 DEF Exchanged, Walks

LEMMA RisenStays ==
    ASSUME NEW s \in Seq(Entries), NEW k \in Nat, NEW w \in RisingWalks(s, k)
    PROVE  Risen(w) \in RisingWalks(s, k + 1)
<1>1. PICK d, a, b : d = w.data /\ a = w.at /\ b = a \div 2
  OBVIOUS
<1>2. /\ w \in Walks(s) /\ d \in Seq(Entries) /\ Len(d) = Len(s) /\ RisingAt(d, a)
      /\ a + k <= Len(s) \/ a = 1 \/ ~Above(d, a, b)
  BY <1>1 DEF RisingWalks, Walks, Stopped
<1>3. a \in 1 .. Len(s) /\ a \in Nat /\ Len(s) \in Nat
  BY <1>2, PriorityNat DEF RisingAt
<1>4. CASE a > 1 /\ Above(d, a, b)
  <2>1. PICK t : t = Swap(d, a, b)
    OBVIOUS
  <2>2. RisingAt(t, b) /\ b < a
    BY <1>1, <1>2, <1>4, <2>1, RiseStep
  <2>3. b \in 1 .. Len(s)
    BY <1>1, <1>3, <1>4, Halves
  <2>4. Risen(w) = [data |-> t, at |-> b]
    BY <1>1, <1>4, <2>1 DEF Risen
  <2>5. [data |-> t, at |-> b] \in Walks(s)
    BY <1>1, <1>2, <1>3, <2>1, <2>3, WalkOn
  <2>6. b + (k + 1) <= Len(s)
    BY <1>2, <1>3, <1>4, <2>2, <2>3
  <2> QED
    BY <2>2, <2>4, <2>5, <2>6 DEF RisingWalks
<1>5. CASE ~(a > 1 /\ Above(d, a, b))
  <2>1. Risen(w) = w
    BY <1>1, <1>5 DEF Risen
  <2>2. Stopped(w)
    BY <1>1, <1>3, <1>5 DEF Stopped
  <2> QED
    BY <1>1, <1>2, <2>1, <2>2 DEF RisingWalks
<1> QED
  BY <1>4, <1>5

LEMMA SunkStays ==
    ASSUME NEW s \in Seq(Entries), NEW k \in Nat, NEW w \in SinkingWalks(s, k)
    PROVE  Sunk(w) \in SinkingWalks(s, k + 1)
<1>1. PICK d, a, l : d = w.data /\ a = w.at /\ l = Largest(d, a)
  OBVIOUS
<1>2. /\ w \in Walks(s) /\ d \in Seq(Entries) /\ Len(d) = Len(s) /\ SinkingAt(d, a)
      /\ a > k \/ a = l
  BY <1>1 DEF SinkingWalks, Walks
<1>3. a \in 1 .. Len(s) /\ a \in Nat /\ Len(s) \in Nat
  BY <1>2, PriorityNat DEF SinkingAt
<1>4. CASE l # a
  <2>1. PICK t : t = Swap(d, a, l)
    OBVIOUS
  <2>2. SinkingAt(t, l) /\ a < l
    BY <1>1, <1>2, <1>4, <2>1, SinkStep
  <2>3. l \in 1 .. Len(s) /\ l \in Nat
    <3>1. l \in 2 .. Len(d)
      BY <1>1, <1>2, <1>4, LargestChild
    <3> QED
      BY <1>2, <3>1
  <2>4. Sunk(w) = [data |-> t, at |-> l]
    BY <1>1, <1>4, <2>1 DEF Sunk
  <2>5. [data |-> t, at |-> l] \in Walks(s)
    BY <1>1, <1>2, <1>3, <2>1, <2>3, WalkOn
  <2>6. l > k + 1
    BY <1>2, <1>3, <1>4, <2>2, <2>3
  <2> QED
    BY <2>2, <2>4, <2>5, <2>6 DEF SinkingWalks
<1>5. CASE l = a
  <2>1. Sunk(w) = w
    BY <1>1, <1>5 DEF Sunk
  <2> QED
    BY <1>1, <1>2, <1>5, <2>1 DEF SinkingWalks
<1> QED
  BY <1>4, <1>5

\* The whole loop up, from an array in order but for its last element,
LEMMA UpHeaps ==
    ASSUME NEW s \in Seq(Entries), NEW n, n = Len(s), RisingAt(s, n), NEW u, u = HeapifyUp(s, n)
    PROVE  u \in Seq(Entries) /\ Len(u) = n /\ Elems(u) = Elems(s) /\ (Apart(s) => Apart(u)) /\ Heaped(u)
<1>1. n \in Nat
  BY PriorityNat
<1>2. PICK start, F, T : /\ start = [data |-> s, at |-> n]
                         /\ F = [w \in Walks(s) |-> Risen(w)]
                         /\ T = [k \in 0 .. n |-> RisingWalks(s, k)]
  OBVIOUS
<1>3. start \in T[0]
  <2>1. start \in RisingWalks(s, 0)
    BY <1>1, <1>2 DEF RisingWalks, Walks
  <2> QED
    BY <1>1, <1>2, <2>1
<1>4. ASSUME NEW i \in 1 .. n, NEW w \in T[i-1] PROVE Risen(w) \in T[i] /\ F[w] = Risen(w)
  <2>1. i - 1 \in 0 .. n /\ i - 1 \in Nat /\ i \in 0 .. n /\ (i - 1) + 1 = i
    BY <1>1
  <2>2. PICK k : k = i - 1
    OBVIOUS
  <2>3. w \in RisingWalks(s, k)
    BY <1>2, <1>4, <2>1, <2>2
  <2>4. Risen(w) \in RisingWalks(s, k + 1)
    BY <2>1, <2>2, <2>3, RisenStays
  <2>5. w \in Walks(s)
    BY <2>3 DEF RisingWalks
  <2> QED
    BY <1>2, <2>1, <2>2, <2>4, <2>5
<1>5. PICK f : Turns(f, F, start, n)
  BY <1>1, TurnsExist
<1>6. f[0] = start /\ \A i \in 1 .. n : f[i] = F[f[i-1]]
  BY <1>1, <1>5 DEF Turns
<1>7. \A i \in 1 .. n : f[i-1] \in T[i-1] => f[i] \in T[i]
  BY <1>4, <1>6
<1>8. \A i \in 0 .. n : f[i] \in T[i]
  BY <1>1, <1>3, <1>6, <1>7, StagesStay
<1>9. f = [k \in 0 .. n |-> IF k = 0 THEN [data |-> s, at |-> n] ELSE Risen(f[k-1])]
  <2>1. ASSUME NEW i \in 0 .. n, i # 0 PROVE F[f[i-1]] = Risen(f[i-1])
    <3>1. i \in 1 .. n /\ i - 1 \in 0 .. n
      BY <1>1, <2>1
    <3> QED
      BY <1>4, <1>8, <3>1
  <2> QED
    BY <1>2, <1>5, <2>1 DEF Turns
<1>10. PICK walk : /\ walk = [k \in 0 .. n |-> IF k = 0 THEN [data |-> s, at |-> n] ELSE Risen(walk[k-1])]
                   /\ u = walk[n].data
  BY <1>9 DEF HeapifyUp
<1>11. walk[0] = start /\ \A i \in 1 .. n : walk[i] = Risen(walk[i-1])
  <2>1. 0 \in 0 .. n /\ \A i \in 1 .. n : i \in 0 .. n /\ i # 0
    BY <1>1
  <2>2. \A k \in 0 .. n : walk[k] = IF k = 0 THEN [data |-> s, at |-> n] ELSE Risen(walk[k-1])
    BY <1>10
  <2> QED
    BY <1>2, <2>1, <2>2
<1>12. \A i \in 1 .. n : walk[i-1] \in T[i-1] => walk[i] \in T[i]
  BY <1>4, <1>11
<1>13. walk[n] \in RisingWalks(s, n)
  <2>0. walk[0] \in T[0]
    BY <1>3, <1>11
  <2>1. \A i \in 0 .. n : walk[i] \in T[i]
    BY <1>1, <1>12, <2>0, StagesStay
  <2> QED
    BY <1>1, <1>2, <2>1
<1>14. PICK w : w = walk[n]
  OBVIOUS
<1>15. /\ w \in Walks(s) /\ RisingAt(u, w.at) /\ w.at \in 1 .. n /\ (w.at + n <= n \/ Stopped(w))
       /\ u \in Seq(Entries) /\ Len(u) = n /\ Elems(u) = Elems(s) /\ (Apart(s) => Apart(u))
  <2>1. u = w.data /\ w \in RisingWalks(s, n)
    BY <1>10, <1>13, <1>14
  <2>2. w \in Walks(s) /\ RisingAt(u, w.at) /\ (w.at + n <= n \/ Stopped(w))
    BY <2>1 DEF RisingWalks
  <2>3. u \in Seq(Entries) /\ Len(u) = n /\ Elems(u) = Elems(s) /\ (Apart(s) => Apart(u))
    BY <2>1, <2>2 DEF Walks
  <2>4. w.at \in 1 .. n
    BY <2>2, <2>3 DEF RisingAt
  <2> QED
    BY <2>2, <2>3, <2>4
<1>16. Stopped(w)
  BY <1>1, <1>15
<1>17. Heaped(u)
  BY <1>10, <1>14, <1>15, <1>16, RiseStops DEF Stopped
<1> QED
  BY <1>15, <1>17

\* and down, from one in order but for its first.
LEMMA DownHeaps ==
    ASSUME NEW s \in Seq(Entries), SinkingAt(s, 1), NEW u, u = HeapifyDown(s, 1)
    PROVE  u \in Seq(Entries) /\ Len(u) = Len(s) /\ Elems(u) = Elems(s) /\ (Apart(s) => Apart(u)) /\ Heaped(u)
<1>1. PICK n : n = Len(s)
  OBVIOUS
<1>1a. n \in Nat
  BY <1>1, PriorityNat
<1>2. PICK start, F, T : /\ start = [data |-> s, at |-> 1]
                         /\ F = [w \in Walks(s) |-> Sunk(w)]
                         /\ T = [k \in 0 .. n |-> SinkingWalks(s, k)]
  OBVIOUS
<1>3. start \in T[0]
  <2>1. start \in SinkingWalks(s, 0)
    BY <1>2 DEF SinkingWalks, Walks
  <2> QED
    BY <1>1a, <1>2, <2>1
<1>4. ASSUME NEW i \in 1 .. n, NEW w \in T[i-1] PROVE Sunk(w) \in T[i] /\ F[w] = Sunk(w)
  <2>1. i - 1 \in 0 .. n /\ i - 1 \in Nat /\ i \in 0 .. n /\ (i - 1) + 1 = i
    BY <1>1a
  <2>2. PICK k : k = i - 1
    OBVIOUS
  <2>3. w \in SinkingWalks(s, k)
    BY <1>2, <1>4, <2>1, <2>2
  <2>4. Sunk(w) \in SinkingWalks(s, k + 1)
    BY <2>1, <2>2, <2>3, SunkStays
  <2>5. w \in Walks(s)
    BY <2>3 DEF SinkingWalks
  <2> QED
    BY <1>2, <2>1, <2>2, <2>4, <2>5
<1>5. PICK f : Turns(f, F, start, n)
  BY <1>1a, TurnsExist
<1>6. f[0] = start /\ \A i \in 1 .. n : f[i] = F[f[i-1]]
  BY <1>1a, <1>5 DEF Turns
<1>7. \A i \in 1 .. n : f[i-1] \in T[i-1] => f[i] \in T[i]
  BY <1>4, <1>6
<1>8. \A i \in 0 .. n : f[i] \in T[i]
  BY <1>1a, <1>3, <1>6, <1>7, StagesStay
<1>9. f = [k \in 0 .. n |-> IF k = 0 THEN [data |-> s, at |-> 1] ELSE Sunk(f[k-1])]
  <2>1. ASSUME NEW i \in 0 .. n, i # 0 PROVE F[f[i-1]] = Sunk(f[i-1])
    <3>1. i \in 1 .. n /\ i - 1 \in 0 .. n
      BY <1>1a, <2>1
    <3> QED
      BY <1>4, <1>8, <3>1
  <2> QED
    BY <1>2, <1>5, <2>1 DEF Turns
<1>10. PICK walk : /\ walk = [k \in 0 .. n |-> IF k = 0 THEN [data |-> s, at |-> 1] ELSE Sunk(walk[k-1])]
                   /\ u = walk[n].data
  BY <1>1, <1>9 DEF HeapifyDown
<1>11. walk[0] = start /\ \A i \in 1 .. n : walk[i] = Sunk(walk[i-1])
  <2>1. 0 \in 0 .. n /\ \A i \in 1 .. n : i \in 0 .. n /\ i # 0
    BY <1>1a
  <2>2. \A k \in 0 .. n : walk[k] = IF k = 0 THEN [data |-> s, at |-> 1] ELSE Sunk(walk[k-1])
    BY <1>10
  <2> QED
    BY <1>2, <2>1, <2>2
<1>12. \A i \in 1 .. n : walk[i-1] \in T[i-1] => walk[i] \in T[i]
  BY <1>4, <1>11
<1>13. walk[n] \in SinkingWalks(s, n)
  <2>0. walk[0] \in T[0]
    BY <1>3, <1>11
  <2>1. \A i \in 0 .. n : walk[i] \in T[i]
    BY <1>1a, <1>12, <2>0, StagesStay
  <2> QED
    BY <1>1a, <1>2, <2>1
<1>14. PICK w : w = walk[n]
  OBVIOUS
<1>15. /\ w \in Walks(s) /\ SinkingAt(u, w.at) /\ w.at \in 1 .. n /\ (w.at > n \/ w.at = Largest(u, w.at))
       /\ u \in Seq(Entries) /\ Len(u) = n /\ Elems(u) = Elems(s) /\ (Apart(s) => Apart(u))
  <2>1. u = w.data /\ w \in SinkingWalks(s, n)
    BY <1>10, <1>13, <1>14
  <2>2. w \in Walks(s) /\ SinkingAt(u, w.at) /\ (w.at > n \/ w.at = Largest(u, w.at))
    BY <2>1 DEF SinkingWalks
  <2>3. u \in Seq(Entries) /\ Len(u) = n /\ Elems(u) = Elems(s) /\ (Apart(s) => Apart(u))
    BY <1>1, <2>1, <2>2 DEF Walks
  <2>4. w.at \in 1 .. n
    BY <2>2, <2>3 DEF SinkingAt
  <2> QED
    BY <2>2, <2>3, <2>4
<1>16. w.at = Largest(u, w.at)
  BY <1>1a, <1>15
<1>17. Heaped(u)
  BY <1>15, <1>16, SinkStops
<1> QED
  BY <1>1, <1>15, <1>17

\* What a push does to the heap's elements,
HeapOk(s) == s \in Seq(Entries) /\ Apart(s) /\ Heaped(s)
LEMMA PushHeaps ==
    ASSUME NEW s, HeapOk(s), NEW e \in Entries, \A x \in Elems(s) : x.slot # e.slot,
           NEW u, u = HeapifyUp(Append(s, e), Len(s) + 1)
    PROVE  HeapOk(u) /\ Len(u) = Len(s) + 1 /\ Elems(u) = Elems(s) \union {e}
<1>1. s \in Seq(Entries) /\ Apart(s) /\ Heaped(s)
  BY DEF HeapOk
<1>2. PICK g, n : g = Append(s, e) /\ n = Len(s) + 1
  OBVIOUS
<1>3. /\ g \in Seq(Entries) /\ Len(g) = n /\ g[n] = e /\ \A i \in 1 .. Len(s) : g[i] = s[i]
      /\ Len(s) \in Nat /\ n \in Nat
  BY <1>1, <1>2, AppendProperties, PriorityNat
<1>4. \A i \in 1 .. n : i \in 1 .. Len(s) \/ i = n
  BY <1>2, <1>3
<1>5. Elems(g) = Elems(s) \union {e}
  <2>1. ASSUME NEW x \in Elems(g) PROVE x \in Elems(s) \union {e}
    BY <1>3, <1>4 DEF Elems
  <2>2. ASSUME NEW x \in Elems(s) PROVE x \in Elems(g)
    <3>1. PICK i \in 1 .. Len(s) : x = s[i]
      BY DEF Elems
    <3>2. i \in 1 .. n /\ g[i] = x
      BY <1>2, <1>3, <3>1
    <3> QED
      BY <1>3, <3>2 DEF Elems
  <2>3. n \in 1 .. n
    BY <1>2, <1>3
  <2>4. e \in Elems(g)
    BY <1>3, <2>3 DEF Elems
  <2> QED
    BY <2>1, <2>2, <2>4
<1>6. Apart(g)
  <2>1. \A i \in 1 .. Len(s) : s[i].slot # e.slot
    BY DEF Elems
  <2> SUFFICES ASSUME NEW i \in 1 .. n, NEW j \in 1 .. n, g[i].slot = g[j].slot PROVE i = j
    BY <1>3 DEF Apart
  <2> QED
    BY <1>1, <1>3, <1>4, <2>1 DEF Apart
<1>7. RisingAt(g, n)
  <2>1. n \in 1 .. Len(g)
    BY <1>2, <1>3
  <2>2. ASSUME NEW i \in 2 .. Len(g), i # n PROVE g[i \div 2].priority >= g[i].priority
    <3>1. i \in 2 .. Len(s) /\ i \in 1 .. Len(s) /\ i \div 2 \in 1 .. Len(s)
      BY <1>2, <1>3, <2>2, Halves
    <3>2. g[i] = s[i] /\ g[i \div 2] = s[i \div 2]
      BY <1>3, <3>1
    <3> QED
      BY <1>1, <3>1, <3>2 DEF Heaped
  <2>3. \A i \in 2 .. Len(g) : i \div 2 # n
    BY <1>2, <1>3, Halves
  <2> QED
    BY <2>1, <2>2, <2>3 DEF RisingAt
<1>8. u = HeapifyUp(g, n) /\ n = Len(g)
  BY <1>2, <1>3
<1>9. u \in Seq(Entries) /\ Len(u) = n /\ Elems(u) = Elems(g) /\ (Apart(g) => Apart(u)) /\ Heaped(u)
  BY <1>3, <1>7, <1>8, UpHeaps
<1> QED
  BY <1>2, <1>5, <1>6, <1>9 DEF HeapOk

\* and what lies at the root: no element of a higher priority.
LEMMA RootGreatest ==
    ASSUME NEW s, HeapOk(s)
    PROVE  \A i \in 1 .. Len(s) : s[1].priority >= s[i].priority
<1>1. Len(s) \in Nat /\ Heaped(s) /\ \A i \in 1 .. Len(s) : s[i].priority \in Nat
  BY PriorityNat DEF HeapOk
<1> DEFINE B == {i \in 1 .. Len(s) : ~(s[1].priority >= s[i].priority)}
<1>2. SUFFICES ASSUME B # {} PROVE FALSE
  OBVIOUS
<1>3. PICK m \in B : \A y \in B : m <= y
  <2>1. B \subseteq 0 .. Len(s)
    BY <1>1
  <2> HIDE DEF B
  <2> QED
    BY <1>1, <1>2, <2>1, LeastUpTo
<1>4. m \in 1 .. Len(s) /\ ~(s[1].priority >= s[m].priority)
  OBVIOUS
<1>5. m # 1 /\ 1 \in 1 .. Len(s)
  BY <1>1, <1>4
<1>6. PICK h : h = m \div 2
  OBVIOUS
<1>7. h \in 1 .. Len(s) /\ ~(m <= h) /\ m \in 2 .. Len(s)
  BY <1>1, <1>4, <1>5, <1>6, Halves
<1>8. h \notin B
  BY <1>3, <1>7
<1>9. s[1].priority >= s[h].priority
  BY <1>7, <1>8
<1>10. s[h].priority >= s[m].priority
  BY <1>1, <1>6, <1>7 DEF Heaped
<1>11. PICK x, y, z : x = s[1].priority /\ y = s[h].priority /\ z = s[m].priority
  OBVIOUS
<1>12. x >= y /\ y >= z /\ x \in Nat /\ y \in Nat /\ z \in Nat
  BY <1>1, <1>4, <1>5, <1>7, <1>9, <1>10, <1>11
<1>13. x >= z
  BY <1>12
<1> QED
  BY <1>4, <1>11, <1>13

\* A pop takes the root and leaves the rest.
LEMMA PopHeaps ==
    ASSUME NEW s, HeapOk(s), Len(s) # 0, NEW u, u = HeapPop(s)
    PROVE  /\ s[1] \in Elems(s) /\ \A x \in Elems(s) : s[1].priority >= x.priority
           /\ HeapOk(u) /\ Len(u) = Len(s) - 1 /\ Elems(u) = Elems(s) \ {s[1]}
<1>1. s \in Seq(Entries) /\ Apart(s) /\ Heaped(s)
  BY DEF HeapOk
<1>2. PICK n : n = Len(s)
  OBVIOUS
<1>3. n \in Nat /\ n # 0 /\ 1 \in 1 .. n /\ n \in 1 .. n /\ \A i \in 1 .. n : s[i] \in Entries
  BY <1>1, <1>2, PriorityNat, ElementOfSeq
<1>4. s[1] \in Elems(s)
  BY <1>2, <1>3 DEF Elems
<1>5. \A x \in Elems(s) : s[1].priority >= x.priority
  BY RootGreatest DEF Elems
<1>6. \A i, j \in 1 .. n : s[i] = s[j] => i = j
  BY <1>1, <1>2 DEF Apart
<1>7. CASE n = 1
  <2>1. u = <<>>
    BY <1>2, <1>7 DEF HeapPop
  <2>2. u \in Seq(Entries) /\ Len(u) = 0
    BY <2>1, EmptySeq
  <2>3. HeapOk(u)
    BY <2>2 DEF HeapOk, Apart, Heaped
  <2>4. Elems(u) = {} /\ Elems(s) = {s[1]}
    BY <1>2, <1>7, <2>2 DEF Elems
  <2> QED
    BY <1>2, <1>4, <1>5, <1>7, <2>2, <2>3, <2>4
<1>8. CASE n # 1
  <2>1. PICK m : m = n - 1
    OBVIOUS
  <2>2. m \in Nat /\ 1 \in 1 .. m /\ \A i \in 1 .. m : i \in 1 .. n /\ i # n
    BY <1>3, <1>8, <2>1
  <2>3. PICK f : f = SubSeq(s, 1, m)
    OBVIOUS
  <2>4. f \in Seq(Entries) /\ Len(f) = m /\ \A i \in 1 .. m : f[i] = s[i]
    <3>1. \A i \in 1 .. m : s[i] \in Entries
      BY <1>3, <2>2
    <3>2. 1 \in Int /\ m \in Int /\ m - 1 + 1 = m /\ 1 <= m
      BY <2>2
    <3>3. /\ f \in Seq(Entries) /\ Len(f) = IF 1 <= m THEN m - 1 + 1 ELSE 0
          /\ \A i \in 1 .. m - 1 + 1 : f[i] = s[1 + i - 1]
      BY <2>3, <3>1, <3>2, SubSeqProperties
    <3>4. \A i \in 1 .. m : 1 + i - 1 = i
      OBVIOUS
    <3> QED
      BY <3>2, <3>3, <3>4
  <2>5. PICK g : g = [f EXCEPT ![1] = s[n]]
    OBVIOUS
  <2>6. g \in Seq(Entries) /\ Len(g) = m /\ g[1] = s[n] /\ \A i \in 1 .. m : i # 1 => g[i] = s[i]
    BY <1>3, <2>2, <2>4, <2>5, ExceptSeq
  <2>7. Elems(g) = Elems(s) \ {s[1]}
    <3>1. ASSUME NEW x \in Elems(g) PROVE x \in Elems(s) /\ x # s[1]
      <4>1. PICK i \in 1 .. m : x = g[i]
        BY <2>6 DEF Elems
      <4>2. PICK j \in 1 .. n : x = s[j] /\ j # 1
        <5>1. CASE i = 1
          BY <1>3, <1>8, <2>6, <4>1, <5>1
        <5>2. CASE i # 1
          BY <2>2, <2>6, <4>1, <5>2
        <5> QED
          BY <5>1, <5>2
      <4> QED
        BY <1>2, <1>3, <1>6, <4>2 DEF Elems
    <3>2. ASSUME NEW x \in Elems(s), x # s[1] PROVE x \in Elems(g)
      <4>1. PICK j \in 1 .. n : x = s[j]
        BY <1>2 DEF Elems
      <4>2. j # 1
        BY <3>2, <4>1
      <4>3. PICK i \in 1 .. m : g[i] = x
        <5>1. CASE j = n
          BY <2>2, <2>6, <4>1, <5>1
        <5>2. CASE j # n
          <6>1. j \in 1 .. m
            BY <1>3, <2>1, <5>2
          <6> QED
            BY <2>6, <4>1, <4>2, <6>1
        <5> QED
          BY <5>1, <5>2
      <4> QED
        BY <2>6, <4>3 DEF Elems
    <3> QED
      BY <3>1, <3>2
  <2>8. Apart(g)
    <3> SUFFICES ASSUME NEW i \in 1 .. m, NEW j \in 1 .. m, g[i].slot = g[j].slot PROVE i = j
      BY <2>6 DEF Apart
    <3>1. \A k, l \in 1 .. n : s[k].slot = s[l].slot => k = l
      BY <1>1, <1>2 DEF Apart
    <3>2. PICK k, l : k = (IF i = 1 THEN n ELSE i) /\ l = (IF j = 1 THEN n ELSE j)
      OBVIOUS
    <3>3. k \in 1 .. n /\ l \in 1 .. n /\ g[i] = s[k] /\ g[j] = s[l]
      BY <1>3, <2>2, <2>6, <3>2
    <3>4. k = l
      BY <3>1, <3>3
    <3> QED
      BY <2>2, <3>2, <3>4
  <2>9. SinkingAt(g, 1)
    <3>1. ASSUME NEW i \in 2 .. Len(g), i \div 2 # 1 PROVE g[i \div 2].priority >= g[i].priority
      <4>1. i \in 2 .. Len(s) /\ i \in 1 .. m /\ i # 1 /\ i \div 2 \in 1 .. m
        <5>1. i \in Nat /\ i > 1 /\ i <= m
          BY <2>2, <2>6
        <5>2. i \div 2 \in Nat /\ 1 <= i \div 2 /\ i \div 2 < i
          BY <5>1, Halves
        <5>3. m <= n /\ n = Len(s)
          BY <1>2, <1>3, <2>1
        <5> QED
          BY <1>3, <2>2, <5>1, <5>2, <5>3
      <4>2. g[i] = s[i] /\ g[i \div 2] = s[i \div 2]
        BY <2>6, <3>1, <4>1
      <4> QED
        BY <1>1, <4>1, <4>2 DEF Heaped
    <3> QED
      BY <2>2, <2>6, <3>1 DEF SinkingAt
  <2>10. u = HeapifyDown(g, 1)
    BY <1>2, <1>8, <2>1, <2>3, <2>5 DEF HeapPop
  <2>11. u \in Seq(Entries) /\ Len(u) = m /\ Elems(u) = Elems(g) /\ (Apart(g) => Apart(u)) /\ Heaped(u)
    BY <2>6, <2>9, <2>10, DownHeaps
  <2> QED
    BY <1>2, <1>4, <1>5, <2>1, <2>7, <2>8, <2>11 DEF HeapOk
<1> QED
  BY <1>7, <1>8

-----------------------------------------------------------------------------
(* Tasks and slots. *)

\* Every element is a waiting task's, under its priority, and every waiting
\* task has one.
TasksOf(E, task, w) ==
    /\ \A e \in E : /\ e.slot \in DOMAIN task /\ task[e.slot] \in DOMAIN w
                    /\ w[task[e.slot]] = e.priority
    /\ \A e, f \in E : task[e.slot] = task[f.slot] => e = f
    /\ \A x \in DOMAIN w : \E e \in E : task[e.slot] = x

\* Every slot is an element's, on the stack or leaked, and one of these only.
SlotsOf(E) == {e.slot : e \in E}
Stack(slots) == {slots[i] : i \in 1 .. Len(slots)}
Once(slots) == \A i, j \in 1 .. Len(slots) : slots[i] = slots[j] => i = j
Divided(H, K, L, D) == /\ H \union K \union L = D
                       /\ H \intersect K = {} /\ H \intersect L = {} /\ K \intersect L = {}

LEMMA TasksSame ==
    ASSUME NEW E, NEW task, NEW w, TasksOf(E, task, w), NEW u,
           \A e \in E : e.slot \in DOMAIN u /\ u[e.slot] = task[e.slot]
    PROVE  TasksOf(E, u, w)
BY DEF TasksOf

LEMMA TasksMore ==
    ASSUME NEW E, NEW task, NEW w, TasksOf(E, task, w), NEW u,
           \A e \in E : e.slot \in DOMAIN u /\ u[e.slot] = task[e.slot],
           NEW t, t \notin DOMAIN w, NEW k \in DOMAIN u, u[k] = t, NEW p,
           NEW e1, e1.slot = k, e1.priority = p,
           NEW v, v = [x \in DOMAIN w \union {t} |-> IF x = t THEN p ELSE w[x]]
    PROVE  TasksOf(E \union {e1}, u, v)
<1>1. e1.slot = k /\ e1.priority = p /\ DOMAIN v = DOMAIN w \union {t} /\ v[t] = p
  OBVIOUS
<1>2. \A x \in DOMAIN w : x # t /\ v[x] = w[x]
  OBVIOUS
<1>3. \A e \in E : u[e.slot] \in DOMAIN w /\ u[e.slot] # t /\ w[u[e.slot]] = e.priority
  BY DEF TasksOf
<1>4. ASSUME NEW e \in E \union {e1}
      PROVE  e.slot \in DOMAIN u /\ u[e.slot] \in DOMAIN v /\ v[u[e.slot]] = e.priority
  <2>1. CASE e \in E
    BY <1>1, <1>2, <1>3, <2>1
  <2>2. CASE e = e1
    BY <1>1, <2>2
  <2> QED
    BY <2>1, <2>2
<1>5. ASSUME NEW e \in E \union {e1}, NEW f \in E \union {e1}, u[e.slot] = u[f.slot] PROVE e = f
  <2>1. CASE e \in E /\ f \in E
    BY <1>5, <2>1 DEF TasksOf
  <2>2. CASE e = e1 \/ f = e1
    BY <1>1, <1>3, <1>5, <2>2
  <2> QED
    BY <2>1, <2>2
<1>6. ASSUME NEW x \in DOMAIN v PROVE \E e \in E \union {e1} : u[e.slot] = x
  <2>1. CASE x = t
    BY <1>1, <2>1
  <2>2. CASE x # t
    <3>1. PICK e \in E : task[e.slot] = x
      BY <1>1, <2>2 DEF TasksOf
    <3> QED
      BY <3>1
  <2> QED
    BY <2>1, <2>2
<1> QED
  BY <1>4, <1>5, <1>6 DEF TasksOf

LEMMA TasksLess ==
    ASSUME NEW E, NEW task, NEW w, TasksOf(E, task, w), NEW r \in E, NEW t, t = task[r.slot],
           NEW v, v = [x \in DOMAIN w \ {t} |-> w[x]]
    PROVE  TasksOf(E \ {r}, task, v)
<1>1. DOMAIN v = DOMAIN w \ {t} /\ \A x \in DOMAIN w : x # t => v[x] = w[x]
  OBVIOUS
<1>2. \A e \in E \ {r} : task[e.slot] # t
  BY DEF TasksOf
<1>3. ASSUME NEW e \in E \ {r}
      PROVE  e.slot \in DOMAIN task /\ task[e.slot] \in DOMAIN v /\ v[task[e.slot]] = e.priority
  BY <1>1, <1>2 DEF TasksOf
<1>4. ASSUME NEW x \in DOMAIN v PROVE \E e \in E \ {r} : task[e.slot] = x
  <2>1. x # t /\ x \in DOMAIN w
    BY <1>1
  <2>2. PICK e \in E : task[e.slot] = x
    BY <2>1 DEF TasksOf
  <2> QED
    BY <2>1, <2>2
<1> QED
  BY <1>3, <1>4 DEF TasksOf

\* Slots pushed on the stack, popped from it and counted.
LEMMA StackPush ==
    ASSUME NEW s \in Seq(Nat), Once(s), NEW k \in Nat, k \notin Stack(s), NEW u, u = Append(s, k)
    PROVE  u \in Seq(Nat) /\ Len(u) = Len(s) + 1 /\ Once(u) /\ Stack(u) = Stack(s) \union {k}
<1>1. PICK n, m : n = Len(s) /\ m = n + 1
  OBVIOUS
<1>2. n \in Nat /\ u \in Seq(Nat) /\ Len(u) = m /\ u[m] = k /\ \A i \in 1 .. n : u[i] = s[i]
  BY <1>1, AppendProperties, LenProperties
<1>3. \A i \in 1 .. m : i \in 1 .. n \/ i = m
  BY <1>1, <1>2
<1>4. m \in 1 .. m /\ \A i \in 1 .. n : i \in 1 .. m
  BY <1>1, <1>2
<1>5. Stack(u) = Stack(s) \union {k}
  BY <1>1, <1>2, <1>3, <1>4 DEF Stack
<1>6. Once(u)
  <2>1. \A i \in 1 .. n : s[i] # k
    BY <1>1 DEF Stack
  <2>2. \A i, j \in 1 .. n : s[i] = s[j] => i = j
    BY <1>1 DEF Once
  <2> SUFFICES ASSUME NEW i \in 1 .. m, NEW j \in 1 .. m, u[i] = u[j] PROVE i = j
    BY <1>2 DEF Once
  <2> QED
    BY <1>2, <1>3, <2>1, <2>2
<1> QED
  BY <1>1, <1>2, <1>5, <1>6

LEMMA StackPop ==
    ASSUME NEW s \in Seq(Nat), Once(s), s # <<>>, NEW k, k = s[Len(s)],
           NEW u, u = SubSeq(s, 1, Len(s) - 1)
    PROVE  /\ u \in Seq(Nat) /\ Len(s) \in Nat /\ Len(u) = Len(s) - 1 /\ Once(u)
           /\ k \in Stack(s) /\ Stack(u) = Stack(s) \ {k}
<1>1. PICK n, m : n = Len(s) /\ m = n - 1
  OBVIOUS
<1>2. n \in Nat /\ n # 0
  BY <1>1, LenProperties, EmptySeq
<1>3. m \in Nat /\ n \in 1 .. n /\ \A i \in 1 .. m : i \in 1 .. n /\ i # n
  BY <1>1, <1>2
<1>4. \A i \in 1 .. n : s[i] \in Nat
  BY <1>1, ElementOfSeq
<1>5. u \in Seq(Nat) /\ Len(u) = m /\ \A i \in 1 .. m : u[i] = s[i]
  <2>0. u = SubSeq(s, 1, m)
    BY <1>1
  <2>1. 1 \in Int /\ m \in Int /\ m - 1 + 1 = m /\ (1 <= m \/ m = 0)
    BY <1>3
  <2>2. \A i \in 1 .. m : s[i] \in Nat /\ 1 + i - 1 = i
    BY <1>3, <1>4
  <2>3. /\ u \in Seq(Nat) /\ Len(u) = IF 1 <= m THEN m - 1 + 1 ELSE 0
        /\ \A i \in 1 .. m - 1 + 1 : u[i] = s[1 + i - 1]
    BY <2>0, <2>1, <2>2, SubSeqProperties
  <2> QED
    BY <2>1, <2>2, <2>3
<1>6. \A i, j \in 1 .. n : s[i] = s[j] => i = j
  BY <1>1 DEF Once
<1>7. Once(u)
  <2> SUFFICES ASSUME NEW i \in 1 .. m, NEW j \in 1 .. m, u[i] = u[j] PROVE i = j
    BY <1>5 DEF Once
  <2>1. i \in 1 .. n /\ j \in 1 .. n /\ s[i] = s[j]
    BY <1>3, <1>5
  <2> QED
    BY <1>6, <2>1
<1>8. k \in Stack(s)
  BY <1>1, <1>3 DEF Stack
<1>9. ASSUME NEW x \in Stack(s), x # k PROVE x \in Stack(u)
  <2>1. PICK i \in 1 .. n : x = s[i]
    BY <1>1 DEF Stack
  <2>2. i \in 1 .. m
    BY <1>1, <1>2, <1>9, <2>1
  <2> QED
    BY <1>5, <2>1, <2>2 DEF Stack
<1>10. ASSUME NEW x \in Stack(u) PROVE x \in Stack(s) /\ x # k
  <2>1. PICK i \in 1 .. m : x = s[i]
    BY <1>5 DEF Stack
  <2>2. i \in 1 .. n /\ i # n
    BY <1>3
  <2>3. x # k
    BY <1>1, <1>3, <1>6, <2>1, <2>2
  <2> QED
    BY <1>1, <2>1, <2>2, <2>3 DEF Stack
<1> QED
  BY <1>1, <1>2, <1>5, <1>7, <1>8, <1>9, <1>10

LEMMA StackCount ==
    ASSUME NEW s \in Seq(Nat), Once(s)
    PROVE  Cardinality(Stack(s)) = Len(s)
<1>1. PICK n : n = Len(s)
  OBVIOUS
<1>2. n \in Nat /\ s \in [1 .. n -> Nat]
  BY <1>1, LenProperties
<1>3. s \in Bijection(1 .. n, Stack(s))
  BY <1>1, <1>2 DEF Bijection, Injection, Surjection, IsInjective, Stack, Once
<1>4. IsFiniteSet(1 .. n) /\ Cardinality(1 .. n) = n
  <2>1. 1 \in Int /\ n \in Int
    BY <1>2
  <2>2. IsFiniteSet(1 .. n) /\ Cardinality(1 .. n) = IF 1 > n THEN 0 ELSE n - 1 + 1
    BY <2>1, FS_Interval
  <2> QED
    BY <1>2, <2>2
<1>5. Cardinality(Stack(s)) = Cardinality(1 .. n)
  BY <1>3, <1>4, FS_Bijection DEF ExistsBijection
<1> QED
  BY <1>1, <1>4, <1>5

-----------------------------------------------------------------------------
(* The inductive invariant. *)

QueueTypes ==
    /\ heap = [data |-> heap.data, capacity |-> heap.capacity]
    /\ items = [task |-> items.task, capacity |-> items.capacity]
    /\ unused = [slots |-> unused.slots, capacity |-> unused.capacity]
    /\ items.task \in Seq(QueuedTasks) /\ unused.slots \in Seq(Nat) /\ unused.capacity \in Nat
    /\ inOrder = TRUE
Counted == /\ size = Len(heap.data)
           /\ IsFiniteSet(DOMAIN waiting) /\ size = Cardinality(DOMAIN waiting)
StackOk == Once(unused.slots) /\ Len(unused.slots) <= unused.capacity
SlotsShared == Divided(SlotsOf(Elems(heap.data)), Stack(unused.slots), leaked, 1 .. Len(items.task))
QueueInv == /\ QueueTypes /\ HeapOk(heap.data) /\ Counted
            /\ TasksOf(Elems(heap.data), items.task, waiting)
            /\ StackOk /\ SlotsShared

LEMMA QueueInvInit == QueueInit => QueueInv
<1> SUFFICES ASSUME QueueInit PROVE QueueInv
  OBVIOUS
<1>1. /\ heap.data = <<>> /\ items.task = <<>> /\ unused.slots = <<>> /\ unused.capacity = 0
      /\ size = 0 /\ waiting = <<>> /\ leaked = {} /\ inOrder = TRUE
      /\ heap = [data |-> heap.data, capacity |-> heap.capacity]
      /\ items = [task |-> items.task, capacity |-> items.capacity]
      /\ unused = [slots |-> unused.slots, capacity |-> unused.capacity]
  BY DEF QueueInit
<1>2. PICK z : z = << >>
  OBVIOUS
<1>3. Len(z) = 0 /\ DOMAIN z = {} /\ z \in Seq(Entries) /\ z \in Seq(QueuedTasks) /\ z \in Seq(Nat)
  BY <1>2, EmptySeq
<1>4. QueueTypes
  BY <1>1, <1>2, <1>3 DEF QueueTypes
<1>5. HeapOk(z) /\ Elems(z) = {} /\ Stack(z) = {} /\ Once(z)
  BY <1>3 DEF HeapOk, Apart, Heaped, Elems, Stack, Once
<1>6. Counted
  <2>1. IsFiniteSet({}) /\ Cardinality({}) = 0
    BY FS_EmptySet
  <2> QED
    BY <1>1, <1>2, <1>3, <2>1 DEF Counted
<1>7. TasksOf(Elems(heap.data), items.task, waiting)
  BY <1>1, <1>2, <1>3, <1>5 DEF TasksOf
<1>8. StackOk
  BY <1>1, <1>2, <1>3, <1>5 DEF StackOk
<1>9. SlotsShared
  <2>1. SlotsOf(Elems(z)) = {} /\ 1 .. Len(z) = {}
    BY <1>3, <1>5 DEF SlotsOf
  <2>2. Divided({}, {}, {}, {})
    BY DEF Divided
  <2> QED
    BY <1>1, <1>2, <1>5, <2>1, <2>2 DEF SlotsShared
<1> QED
  BY <1>1, <1>2, <1>4, <1>5, <1>6, <1>7, <1>8, <1>9 DEF QueueInv

\* What the invariant says, in terms of rigid names for the state.
LEMMA QueueFacts ==
    ASSUME QueueInv, NEW d, d = heap.data, NEW k, k = items.task, NEW st, st = unused.slots,
           NEW E, E = Elems(d)
    PROVE  /\ d \in Seq(Entries) /\ Len(d) \in Nat /\ k \in Seq(QueuedTasks) /\ Len(k) \in Nat
           /\ DOMAIN k = 1 .. Len(k) /\ st \in Seq(Nat) /\ Len(st) \in Nat /\ Once(st)
           /\ Len(st) <= unused.capacity /\ unused.capacity \in Nat
           /\ \A e \in E : e.slot \in 1 .. Len(k) /\ e.slot \in SlotsOf(E)
           /\ Stack(st) \subseteq 1 .. Len(k)
           /\ Divided(SlotsOf(E), Stack(st), leaked, 1 .. Len(k)) /\ TasksOf(E, k, waiting)
<1>1. d \in Seq(Entries) /\ k \in Seq(QueuedTasks) /\ st \in Seq(Nat) /\ unused.capacity \in Nat
  BY DEF QueueInv, QueueTypes, HeapOk
<1>2. Len(d) \in Nat /\ Len(k) \in Nat /\ DOMAIN k = 1 .. Len(k) /\ Len(st) \in Nat
  BY <1>1, LenProperties
<1>3. Once(st) /\ Len(st) <= unused.capacity
  BY DEF QueueInv, StackOk
<1>4. Divided(SlotsOf(E), Stack(st), leaked, 1 .. Len(k)) /\ TasksOf(E, k, waiting)
  BY DEF QueueInv, SlotsShared
<1>5. \A e \in E : e.slot \in 1 .. Len(k) /\ e.slot \in SlotsOf(E)
  BY <1>4 DEF Divided, SlotsOf
<1>6. Stack(st) \subseteq 1 .. Len(k)
  BY <1>4 DEF Divided
<1> QED
  BY <1>1, <1>2, <1>3, <1>4, <1>5, <1>6

\* The slot a push takes: none of the heap's, off the stack.
SlotTaken(E, t, k, st, slot) ==
    /\ k \in Seq(QueuedTasks) /\ st \in Seq(Nat) /\ Once(st) /\ slot \in Nat
    /\ slot \in 1 .. Len(k) /\ DOMAIN k = 1 .. Len(k) /\ k[slot] = t /\ slot \notin SlotsOf(E) /\ slot \notin Stack(st)

\* The array of tasks with one of them replaced, or with one more.
LEMMA PlaceOld ==
    ASSUME NEW k \in Seq(QueuedTasks), NEW slot \in 1 .. Len(k), NEW t \in QueuedTasks,
           NEW u, u = [k EXCEPT ![slot] = t]
    PROVE  /\ u \in Seq(QueuedTasks) /\ Len(u) = Len(k) /\ DOMAIN u = 1 .. Len(u) /\ u[slot] = t
           /\ \A i \in 1 .. Len(k) : i # slot => u[i] = k[i]
<1>1. /\ u \in Seq(QueuedTasks) /\ Len(u) = Len(k)
      /\ \A j \in 1 .. Len(k) : u[j] = IF j = slot THEN t ELSE k[j]
  BY ExceptSeq
<1> QED
  BY <1>1, LenProperties

LEMMA PlaceNew ==
    ASSUME NEW k \in Seq(QueuedTasks), NEW t \in QueuedTasks, NEW u, u = Append(k, t),
           NEW slot, slot = Len(k) + 1
    PROVE  /\ u \in Seq(QueuedTasks) /\ Len(u) = slot /\ DOMAIN u = 1 .. Len(u) /\ u[slot] = t
           /\ slot \in Nat /\ slot \in 1 .. Len(u) /\ slot \notin 1 .. Len(k)
           /\ 1 .. Len(u) = (1 .. Len(k)) \union {slot}
           /\ \A i \in 1 .. Len(k) : u[i] = k[i]
<1>1. /\ u \in Seq(QueuedTasks) /\ Len(u) = slot /\ u[slot] = t /\ Len(k) \in Nat
      /\ \A i \in 1 .. Len(k) : u[i] = k[i]
  BY AppendProperties, LenProperties
<1>2. DOMAIN u = 1 .. Len(u)
  BY <1>1, LenProperties
<1>3. /\ slot \in Nat /\ slot \in 1 .. slot /\ slot \notin 1 .. Len(k)
      /\ 1 .. slot = (1 .. Len(k)) \union {slot}
  BY <1>1
<1> QED
  BY <1>1, <1>2, <1>3

\* What a push does to the variables.
Entry(p, slot) == [priority |-> p, slot |-> slot]
Planned(t, p, d, k, st, slot, k1, st1, e1) ==
    /\ d = heap.data /\ k = items.task /\ st = unused.slots
    /\ slot = IF st # <<>> THEN st[Len(st)] ELSE Len(k) + 1
    /\ k1 = IF st # <<>> THEN [k EXCEPT ![slot] = t] ELSE Append(k, t)
    /\ st1 = IF st # <<>> THEN SubSeq(st, 1, Len(st) - 1) ELSE st
    /\ e1 = Entry(p, slot)
Pushed(t, p, ok, d, k1, st1, slot, e1) ==
    /\ t \notin DOMAIN waiting /\ leaked' = leaked /\ inOrder' = inOrder
    /\ heap' = [data |-> heap'.data, capacity |-> heap'.capacity]
    /\ items' = [task |-> items'.task, capacity |-> items'.capacity]
    /\ unused' = [slots |-> unused'.slots, capacity |-> unused'.capacity]
    /\ unused'.capacity = unused.capacity
    /\ ok => /\ heap'.data = HeapifyUp(Append(d, e1), Len(d) + 1)
             /\ items'.task = k1 /\ unused'.slots = st1 /\ size' = size + 1
             /\ waiting' = [x \in DOMAIN waiting \union {t} |-> IF x = t THEN p ELSE waiting[x]]
    /\ ~ok => /\ heap'.data = d /\ size' = size /\ waiting' = waiting
              /\ IF Len(st1) < unused.capacity
                 THEN unused'.slots = Append(st1, slot) /\ items'.task = k1
                 ELSE /\ unused'.slots = st1
                      /\ items'.task = IF slot = Len(k1) THEN SubSeq(k1, 1, slot - 1) ELSE k1
LEMMA PushFacts ==
    ASSUME QueueInv, NEW t, NEW p, NEW ok \in BOOLEAN, QueuePush(t, p, ok),
           NEW d, NEW k, NEW st, NEW slot, NEW k1, NEW st1, NEW e1,
           Planned(t, p, d, k, st, slot, k1, st1, e1)
    PROVE  Pushed(t, p, ok, d, k1, st1, slot, e1)
<1>0. /\ d = heap.data /\ k = items.task /\ st = unused.slots
      /\ slot = IF st # <<>> THEN st[Len(st)] ELSE Len(k) + 1
      /\ k1 = IF st # <<>> THEN [k EXCEPT ![slot] = t] ELSE Append(k, t)
      /\ st1 = IF st # <<>> THEN SubSeq(st, 1, Len(st) - 1) ELSE st
      /\ e1 = Entry(p, slot)
  BY DEF Planned
<1>1. /\ heap = [data |-> d, capacity |-> heap.capacity]
      /\ items = [task |-> k, capacity |-> items.capacity]
      /\ unused = [slots |-> st, capacity |-> unused.capacity]
  BY <1>0 DEF QueueInv, QueueTypes
<1>2. (FreeSlot <=> st # <<>>) /\ slot = SlotFor
  BY <1>0 DEF FreeSlot, SlotFor, NextSlot
<1>3. PICK i1, u1 : i1 = Place(t) /\ u1 = IF FreeSlot THEN Popped(unused) ELSE unused
  OBVIOUS
<1>4. i1.task = k1 /\ i1 = [task |-> i1.task, capacity |-> i1.capacity]
  <2>1. CASE FreeSlot
    <3>1. i1 = [items EXCEPT !.task[slot] = t]
      BY <1>2, <1>3, <2>1 DEF Place
    <3> QED
      BY <1>0, <1>1, <1>2, <2>1, <3>1
  <2>2. CASE ~FreeSlot
    <3>1. PICK c : i1 = [task |-> Append(k, t), capacity |-> c]
      BY <1>0, <1>3, <2>2 DEF Place
    <3> QED
      BY <1>0, <1>2, <2>2, <3>1
  <2> QED
    BY <2>1, <2>2
<1>5. u1 = [slots |-> st1, capacity |-> unused.capacity]
  <2>1. CASE FreeSlot
    <3>1. u1 = [unused EXCEPT !.slots = SubSeq(@, 1, Len(@) - 1)]
      BY <1>3, <2>1 DEF Popped
    <3> QED
      BY <1>0, <1>1, <1>2, <2>1, <3>1
  <2>2. CASE ~FreeSlot
    BY <1>0, <1>1, <1>2, <1>3, <2>2
  <2> QED
    BY <2>1, <2>2
<1>6. PICK back : back = GiveBack(u1, i1, slot)
  OBVIOUS
<1>7. /\ t \notin DOMAIN waiting /\ HeapPush(e1, ok) /\ leaked' = leaked /\ inOrder' = inOrder
      /\ items' = IF ok THEN i1 ELSE back.items
      /\ unused' = IF ok THEN u1 ELSE back.free
      /\ size' = IF ok THEN size + 1 ELSE size
      /\ waiting' = IF ok THEN [x \in DOMAIN waiting \union {t} |-> IF x = t THEN p ELSE waiting[x]]
                    ELSE waiting
  BY <1>0, <1>2, <1>3, <1>6 DEF QueuePush, Entry
<1>8. CASE ok
  <2>1. PICK c : heap' = [data |-> HeapifyUp(Append(d, e1), Len(d) + 1), capacity |-> c]
    BY <1>0, <1>7, <1>8 DEF HeapPush
  <2> QED
    BY <1>4, <1>5, <1>7, <1>8, <2>1 DEF Pushed
<1>9. CASE ~ok
  <2>1. heap' = heap
    BY <1>7, <1>9 DEF HeapPush
  <2>2. CASE Len(st1) < unused.capacity
    <3>1. back = [free |-> [u1 EXCEPT !.slots = Append(@, slot)], items |-> i1]
      BY <1>5, <1>6, <2>2 DEF GiveBack
    <3>2. [u1 EXCEPT !.slots = Append(@, slot)] = [slots |-> Append(st1, slot), capacity |-> unused.capacity]
      <4>1. PICK q : q = Append(st1, slot)
        OBVIOUS
      <4>2. u1.slots = st1
        BY <1>5
      <4>3. [u1 EXCEPT !.slots = q] = [slots |-> q, capacity |-> unused.capacity]
        BY <1>5
      <4> QED
        BY <4>1, <4>2, <4>3
    <3>3. items' = i1 /\ unused' = [slots |-> Append(st1, slot), capacity |-> unused.capacity]
      BY <1>7, <1>9, <3>1, <3>2
    <3> QED
      <4>1. unused'.slots = Append(st1, slot) /\ unused'.capacity = unused.capacity
        BY <3>3
      <4>2. unused' = [slots |-> unused'.slots, capacity |-> unused'.capacity]
        BY <3>3, <4>1
      <4>3. items'.task = k1 /\ items' = [task |-> items'.task, capacity |-> items'.capacity]
        BY <1>4, <3>3
      <4>4. heap'.data = d /\ heap' = [data |-> heap'.data, capacity |-> heap'.capacity]
        BY <1>1, <2>1
      <4> QED
        BY <1>7, <1>9, <2>2, <4>1, <4>2, <4>3, <4>4 DEF Pushed
  <2>3. CASE ~(Len(st1) < unused.capacity)
    <3>1. CASE slot = Len(k1)
      <4>1. back = [free |-> u1, items |-> [i1 EXCEPT !.task = SubSeq(@, 1, slot - 1)]]
        BY <1>4, <1>5, <1>6, <2>3, <3>1 DEF GiveBack
      <4>2. [i1 EXCEPT !.task = SubSeq(@, 1, slot - 1)] = [task |-> SubSeq(k1, 1, slot - 1), capacity |-> i1.capacity]
        <5>1. PICK q : q = SubSeq(k1, 1, slot - 1)
          OBVIOUS
        <5>2. [i1 EXCEPT !.task = q] = [task |-> q, capacity |-> i1.capacity]
          BY <1>4
        <5> QED
          BY <1>4, <5>1, <5>2
      <4>3. items' = [task |-> SubSeq(k1, 1, slot - 1), capacity |-> i1.capacity] /\ unused' = u1
        BY <1>7, <1>9, <4>1, <4>2
      <4> QED
        <5>1. unused'.slots = st1 /\ unused'.capacity = unused.capacity
          BY <1>5, <4>3
        <5>2. unused' = [slots |-> unused'.slots, capacity |-> unused'.capacity]
          BY <1>5, <4>3
        <5>3. items'.task = SubSeq(k1, 1, slot - 1)
          BY <4>3
        <5>4. items' = [task |-> items'.task, capacity |-> items'.capacity]
          BY <4>3, <5>3
        <5>5. heap'.data = d /\ heap' = [data |-> heap'.data, capacity |-> heap'.capacity]
          BY <1>1, <2>1
        <5> QED
          BY <1>7, <1>9, <2>3, <3>1, <5>1, <5>2, <5>3, <5>4, <5>5 DEF Pushed
    <3>2. CASE slot # Len(k1)
      <4>1. back = [free |-> u1, items |-> i1]
        BY <1>4, <1>5, <1>6, <2>3, <3>2 DEF GiveBack
      <4> QED
        BY <1>1, <1>4, <1>5, <1>7, <1>9, <2>1, <2>3, <3>2, <4>1 DEF Pushed
    <3> QED
      BY <3>1, <3>2
  <2> QED
    BY <2>2, <2>3
<1> QED
  BY <1>8, <1>9

Offered(E, k, st, t, k1, st1, slot) ==
    /\ SlotTaken(E, t, k1, st1, slot)
    /\ \A e \in E : e.slot \in DOMAIN k1 /\ k1[e.slot] = k[e.slot]
    /\ Len(st1) \in Nat /\ Len(st1) <= unused.capacity
    /\ Divided(SlotsOf(E) \union {slot}, Stack(st1), leaked, 1 .. Len(k1))
    /\ st # <<>> => Len(st1) < unused.capacity
    /\ st = <<>> => slot = Len(k1) /\ st1 = st
LEMMA SlotFacts ==
    ASSUME QueueInv, NEW t \in QueuedTasks,
           NEW k, k = items.task, NEW st, st = unused.slots, NEW E, E = Elems(heap.data),
           NEW slot, slot = IF st # <<>> THEN st[Len(st)] ELSE Len(k) + 1,
           NEW k1, k1 = IF st # <<>> THEN [k EXCEPT ![slot] = t] ELSE Append(k, t),
           NEW st1, st1 = IF st # <<>> THEN SubSeq(st, 1, Len(st) - 1) ELSE st
    PROVE  Offered(E, k, st, t, k1, st1, slot)
<1>1. PICK d : d = heap.data
  OBVIOUS
<1>2. /\ k \in Seq(QueuedTasks) /\ Len(k) \in Nat /\ DOMAIN k = 1 .. Len(k)
      /\ st \in Seq(Nat) /\ Len(st) \in Nat /\ Once(st)
      /\ Len(st) <= unused.capacity /\ unused.capacity \in Nat
      /\ \A e \in E : e.slot \in 1 .. Len(k) /\ e.slot \in SlotsOf(E)
      /\ Stack(st) \subseteq 1 .. Len(k)
      /\ Divided(SlotsOf(E), Stack(st), leaked, 1 .. Len(k))
  BY <1>1, QueueFacts
<1>3. CASE st # <<>>
  <2>1. slot = st[Len(st)] /\ st1 = SubSeq(st, 1, Len(st) - 1) /\ k1 = [k EXCEPT ![slot] = t]
    BY <1>3
  <2>2. /\ st1 \in Seq(Nat) /\ Len(st1) = Len(st) - 1 /\ Once(st1)
        /\ slot \in Stack(st) /\ Stack(st1) = Stack(st) \ {slot}
    BY <1>2, <1>3, <2>1, StackPop
  <2>3. slot \in 1 .. Len(k) /\ slot \notin SlotsOf(E) /\ slot \notin Stack(st1) /\ slot \in Nat
    BY <1>2, <2>2 DEF Divided
  <2>4. /\ k1 \in Seq(QueuedTasks) /\ Len(k1) = Len(k) /\ DOMAIN k1 = 1 .. Len(k1) /\ k1[slot] = t
        /\ \A i \in 1 .. Len(k) : i # slot => k1[i] = k[i]
    BY <1>2, <2>1, <2>3, PlaceOld
  <2>5. \A e \in E : e.slot \in DOMAIN k1 /\ k1[e.slot] = k[e.slot]
    BY <1>2, <2>3, <2>4
  <2>6. Len(st1) \in Nat /\ Len(st1) < unused.capacity /\ Len(st1) <= unused.capacity
    <3>1. Len(st1) \in Nat
      BY <2>2, LenProperties
    <3> QED
      BY <1>2, <2>2, <3>1
  <2>7. Divided(SlotsOf(E) \union {slot}, Stack(st1), leaked, 1 .. Len(k1))
    BY <1>2, <2>2, <2>3, <2>4 DEF Divided
  <2>8. SlotTaken(E, t, k1, st1, slot)
    BY <2>2, <2>3, <2>4 DEF SlotTaken
  <2> QED
    BY <1>3, <2>5, <2>6, <2>7, <2>8 DEF Offered
<1>4. CASE st = <<>>
  <2>1. slot = Len(k) + 1 /\ st1 = st /\ k1 = Append(k, t)
    BY <1>4
  <2>2. /\ k1 \in Seq(QueuedTasks) /\ Len(k1) = slot /\ DOMAIN k1 = 1 .. Len(k1) /\ k1[slot] = t
        /\ slot \in Nat /\ slot \in 1 .. Len(k1) /\ slot \notin 1 .. Len(k)
        /\ 1 .. Len(k1) = (1 .. Len(k)) \union {slot}
        /\ \A i \in 1 .. Len(k) : k1[i] = k[i]
    BY <1>2, <2>1, PlaceNew
  <2>3. slot \notin SlotsOf(E) /\ slot \notin Stack(st1)
    BY <1>2, <2>1, <2>2 DEF Divided
  <2>4. \A e \in E : e.slot \in DOMAIN k1 /\ k1[e.slot] = k[e.slot]
    BY <1>2, <2>2
  <2>5. Divided(SlotsOf(E) \union {slot}, Stack(st1), leaked, 1 .. Len(k1))
    BY <1>2, <2>1, <2>2 DEF Divided
  <2>6. SlotTaken(E, t, k1, st1, slot)
    BY <1>2, <2>1, <2>2, <2>3 DEF SlotTaken
  <2> QED
    BY <1>2, <1>4, <2>1, <2>2, <2>4, <2>5, <2>6 DEF Offered
<1> QED
  BY <1>3, <1>4

LEMMA PushNext ==
    ASSUME QueueInv, NEW t \in QueuedTasks, NEW p \in Priorities, NEW ok \in BOOLEAN, QueuePush(t, p, ok)
    PROVE  QueueInv'
<1>1. PICK d, k, st, E : d = heap.data /\ k = items.task /\ st = unused.slots /\ E = Elems(d)
  OBVIOUS
<1>2. PICK slot : slot = IF st # <<>> THEN st[Len(st)] ELSE Len(k) + 1
  OBVIOUS
<1>3. PICK k1, st1, e1 : /\ k1 = IF st # <<>> THEN [k EXCEPT ![slot] = t] ELSE Append(k, t)
                         /\ st1 = IF st # <<>> THEN SubSeq(st, 1, Len(st) - 1) ELSE st
                         /\ e1 = Entry(p, slot)
  OBVIOUS
<1>4. /\ k \in Seq(QueuedTasks) /\ Len(k) \in Nat /\ DOMAIN k = 1 .. Len(k)
      /\ st \in Seq(Nat) /\ Once(st) /\ unused.capacity \in Nat
      /\ Divided(SlotsOf(E), Stack(st), leaked, 1 .. Len(k)) /\ TasksOf(E, k, waiting)
      /\ \A e \in E : e.slot \in 1 .. Len(k) /\ e.slot \in SlotsOf(E)
      /\ Len(st) <= unused.capacity
  BY <1>1, QueueFacts
<1>5. /\ SlotTaken(E, t, k1, st1, slot)
      /\ \A e \in E : e.slot \in DOMAIN k1 /\ k1[e.slot] = k[e.slot]
      /\ Len(st1) \in Nat /\ Len(st1) <= unused.capacity
      /\ Divided(SlotsOf(E) \union {slot}, Stack(st1), leaked, 1 .. Len(k1))
      /\ st # <<>> => Len(st1) < unused.capacity
      /\ st = <<>> => slot = Len(k1) /\ st1 = st
  <2>1. Offered(E, k, st, t, k1, st1, slot)
    BY <1>1, <1>2, <1>3, SlotFacts
  <2> QED
    BY <2>1 DEF Offered
<1>6. /\ k1 \in Seq(QueuedTasks) /\ st1 \in Seq(Nat) /\ Once(st1) /\ slot \in Nat
      /\ slot \in 1 .. Len(k1) /\ DOMAIN k1 = 1 .. Len(k1) /\ k1[slot] = t /\ slot \notin SlotsOf(E)
      /\ slot \notin Stack(st1)
  <2>1. SlotTaken(E, t, k1, st1, slot)
    BY <1>5
  <2> QED
    BY <2>1 DEF SlotTaken
<1>7. /\ t \notin DOMAIN waiting /\ leaked' = leaked /\ inOrder' = inOrder
      /\ heap' = [data |-> heap'.data, capacity |-> heap'.capacity]
      /\ items' = [task |-> items'.task, capacity |-> items'.capacity]
      /\ unused' = [slots |-> unused'.slots, capacity |-> unused'.capacity]
      /\ unused'.capacity = unused.capacity
      /\ ok => /\ heap'.data = HeapifyUp(Append(d, e1), Len(d) + 1)
               /\ items'.task = k1 /\ unused'.slots = st1 /\ size' = size + 1
               /\ waiting' = [x \in DOMAIN waiting \union {t} |-> IF x = t THEN p ELSE waiting[x]]
      /\ ~ok => /\ heap'.data = d /\ size' = size /\ waiting' = waiting
                /\ IF Len(st1) < unused.capacity
                   THEN unused'.slots = Append(st1, slot) /\ items'.task = k1
                   ELSE /\ unused'.slots = st1
                        /\ items'.task = IF slot = Len(k1) THEN SubSeq(k1, 1, slot - 1) ELSE k1
  <2>1. Planned(t, p, d, k, st, slot, k1, st1, e1)
    BY <1>1, <1>2, <1>3 DEF Planned
  <2>2. Pushed(t, p, ok, d, k1, st1, slot, e1)
    BY <2>1, PushFacts
  <2> QED
    BY <2>2 DEF Pushed
<1>8. inOrder = TRUE /\ HeapOk(d) /\ size = Len(d) /\ IsFiniteSet(DOMAIN waiting) /\ size = Cardinality(DOMAIN waiting)
  BY <1>1 DEF QueueInv, QueueTypes, Counted
<1>9. PICK d2, k2, st2 : d2 = heap'.data /\ k2 = items'.task /\ st2 = unused'.slots
  OBVIOUS
\* What is left to show, of the new arrays.
<1>10. SUFFICES /\ k2 \in Seq(QueuedTasks) /\ st2 \in Seq(Nat) /\ Once(st2) /\ Len(st2) <= unused.capacity
                /\ HeapOk(d2) /\ Counted' /\ TasksOf(Elems(d2), k2, waiting')
                /\ Divided(SlotsOf(Elems(d2)), Stack(st2), leaked, 1 .. Len(k2))
  <2>1. SUFFICES ASSUME /\ k2 \in Seq(QueuedTasks) /\ st2 \in Seq(Nat) /\ Once(st2) /\ Len(st2) <= unused.capacity
                        /\ HeapOk(d2) /\ Counted' /\ TasksOf(Elems(d2), k2, waiting')
                        /\ Divided(SlotsOf(Elems(d2)), Stack(st2), leaked, 1 .. Len(k2))
                 PROVE  QueueInv'
    OBVIOUS
  <2>2. QueueTypes'
    BY <1>4, <1>7, <1>8, <1>9, <2>1 DEF QueueTypes
  <2>3. StackOk'
    BY <1>7, <1>9, <2>1 DEF StackOk
  <2>4. SlotsShared'
    BY <1>7, <1>9, <2>1 DEF SlotsShared
  <2> QED
    BY <1>9, <2>1, <2>2, <2>3, <2>4 DEF QueueInv
<1>11. CASE ok
  <2>1. d2 = HeapifyUp(Append(d, e1), Len(d) + 1) /\ k2 = k1 /\ st2 = st1
    BY <1>7, <1>9, <1>11
  <2>2. e1 \in Entries /\ e1.slot = slot /\ e1.priority = p
    BY <1>3, <1>6 DEF Entries, Entry
  <2>3. \A x \in Elems(d) : x.slot # e1.slot
    BY <1>1, <1>4, <1>6, <2>2
  <2>4. HeapOk(d2) /\ Len(d2) = Len(d) + 1 /\ Elems(d2) = E \union {e1}
    BY <1>1, <1>8, <2>1, <2>2, <2>3, PushHeaps
  <2>5. Counted'
    <3>1. size' = size + 1 /\ DOMAIN waiting' = DOMAIN waiting \union {t}
      BY <1>7, <1>11
    <3>2. IsFiniteSet(DOMAIN waiting \union {t}) /\ Cardinality(DOMAIN waiting \union {t}) = Cardinality(DOMAIN waiting) + 1
      BY <1>7, <1>8, FS_AddElement
    <3> QED
      BY <1>8, <1>9, <2>4, <3>1, <3>2 DEF Counted
  <2>6. TasksOf(Elems(d2), k2, waiting')
    <3>1. PICK v : v = waiting'
      OBVIOUS
    <3>2. PICK w : w = waiting
      OBVIOUS
    <3>3. v = [x \in DOMAIN w \union {t} |-> IF x = t THEN p ELSE w[x]] /\ t \notin DOMAIN w /\ TasksOf(E, k, w)
      BY <1>4, <1>7, <1>11, <3>1, <3>2
    <3>4. slot \in DOMAIN k1 /\ k1[slot] = t
      BY <1>6
    <3>5. TasksOf(E \union {e1}, k1, v)
      <4>1. \A e \in E : e.slot \in DOMAIN k1 /\ k1[e.slot] = k[e.slot]
        BY <1>5
      <4> QED
        BY <2>2, <3>3, <3>4, <4>1, TasksMore
    <3> QED
      BY <2>1, <2>4, <3>1, <3>5
  <2>7. SlotsOf(Elems(d2)) = SlotsOf(E) \union {slot}
    BY <2>2, <2>4 DEF SlotsOf
  <2> QED
    BY <1>5, <1>6, <2>1, <2>4, <2>5, <2>6, <2>7
<1>12. CASE ~ok
  <2>1. d2 = d /\ size' = size /\ waiting' = waiting
    BY <1>7, <1>9, <1>12
  <2>2. HeapOk(d2) /\ Counted' /\ Elems(d2) = E
    BY <1>1, <1>8, <1>9, <2>1 DEF Counted
  <2>3. CASE Len(st1) < unused.capacity
    <3>1. st2 = Append(st1, slot) /\ k2 = k1
      BY <1>7, <1>9, <1>12, <2>3
    <3>2. st2 \in Seq(Nat) /\ Len(st2) = Len(st1) + 1 /\ Once(st2) /\ Stack(st2) = Stack(st1) \union {slot}
      BY <1>6, <3>1, StackPush
    <3>3. Len(st2) <= unused.capacity
      BY <1>4, <1>5, <2>3, <3>2
    <3>4. TasksOf(E, k2, waiting)
      <4>1. TasksOf(E, k, waiting) /\ \A e \in E : e.slot \in DOMAIN k1 /\ k1[e.slot] = k[e.slot]
        BY <1>4, <1>5
      <4> QED
        BY <3>1, <4>1, TasksSame
    <3>5. Divided(SlotsOf(E), Stack(st2), leaked, 1 .. Len(k2))
      <4>1. /\ Divided(SlotsOf(E) \union {slot}, Stack(st1), leaked, 1 .. Len(k1))
            /\ slot \notin SlotsOf(E) /\ Stack(st2) = Stack(st1) \union {slot} /\ k2 = k1
        <5>1. Divided(SlotsOf(E) \union {slot}, Stack(st1), leaked, 1 .. Len(k1))
          BY <1>5
        <5> QED
          BY <1>6, <3>1, <3>2, <5>1
      <4> QED
        BY <4>1 DEF Divided
    <3> QED
      BY <1>6, <2>1, <2>2, <3>1, <3>2, <3>3, <3>4, <3>5
  <2>4. CASE ~(Len(st1) < unused.capacity)
    <3>1. st = <<>> /\ slot = Len(k1) /\ st1 = st
      BY <1>5, <2>4
    <3>2. st2 = st /\ k2 = SubSeq(k1, 1, slot - 1) /\ k1 = Append(k, t) /\ slot = Len(k) + 1
      BY <1>2, <1>3, <1>7, <1>9, <1>12, <2>4, <3>1
    <3>3. PICK n : n = Len(k)
      OBVIOUS
    <3>4. k2 \in Seq(QueuedTasks) /\ Len(k2) = n /\ DOMAIN k2 = 1 .. n /\ \A i \in 1 .. n : k2[i] = k[i]
      <4>1. n \in Nat /\ 1 \in Int /\ n \in Int /\ n - 1 + 1 = n /\ (1 <= n \/ n = 0)
        BY <1>4, <3>3
      <4>2. slot - 1 = n
        BY <3>2, <3>3, <4>1
      <4>3. k2 = SubSeq(k1, 1, n)
        BY <3>2, <4>2
      <4>4. \A i \in 1 .. n : k1[i] = k[i] /\ k1[i] \in QueuedTasks
        <5>1. \A i \in 1 .. n : k1[i] = k[i]
          BY <1>4, <3>2, <3>3, AppendProperties
        <5>2. \A i \in 1 .. n : k[i] \in QueuedTasks
          BY <1>4, <3>3, ElementOfSeq
        <5> QED
          BY <5>1, <5>2
      <4>5. /\ k2 \in Seq(QueuedTasks) /\ Len(k2) = IF 1 <= n THEN n - 1 + 1 ELSE 0
            /\ \A i \in 1 .. n - 1 + 1 : k2[i] = k1[1 + i - 1]
        BY <4>1, <4>3, <4>4, SubSeqProperties
      <4>6. \A i \in 1 .. n : 1 + i - 1 = i
        OBVIOUS
      <4>7. Len(k2) = n /\ \A i \in 1 .. n : k2[i] = k[i]
        BY <4>1, <4>4, <4>5, <4>6
      <4> QED
        BY <4>5, <4>7, LenProperties
    <3>5. \A e \in E : e.slot \in DOMAIN k2 /\ k2[e.slot] = k[e.slot]
      BY <1>4, <3>3, <3>4
    <3>6. TasksOf(E, k2, waiting)
      BY <1>4, <3>5, TasksSame
    <3> QED
      BY <1>4, <2>1, <2>2, <3>2, <3>3, <3>4, <3>6
  <2> QED
    BY <2>3, <2>4
<1> QED
  BY <1>11, <1>12

LEMMA PopNext ==
    ASSUME QueueInv, NEW ok \in BOOLEAN, QueuePop(ok)
    PROVE  QueueInv'
<1>1. PICK d, k, st, E : d = heap.data /\ k = items.task /\ st = unused.slots /\ E = Elems(d)
  OBVIOUS
<1>2. /\ d \in Seq(Entries) /\ Len(d) \in Nat /\ k \in Seq(QueuedTasks) /\ Len(k) \in Nat
      /\ DOMAIN k = 1 .. Len(k) /\ st \in Seq(Nat) /\ Len(st) \in Nat /\ Once(st)
      /\ Len(st) <= unused.capacity /\ unused.capacity \in Nat
      /\ \A e \in E : e.slot \in 1 .. Len(k) /\ e.slot \in SlotsOf(E)
      /\ Divided(SlotsOf(E), Stack(st), leaked, 1 .. Len(k)) /\ TasksOf(E, k, waiting)
  BY <1>1, QueueFacts
<1>3. /\ heap = [data |-> d, capacity |-> heap.capacity]
      /\ items = [task |-> k, capacity |-> items.capacity]
      /\ unused = [slots |-> st, capacity |-> unused.capacity]
      /\ inOrder = TRUE /\ HeapOk(d) /\ size = Len(d)
      /\ IsFiniteSet(DOMAIN waiting) /\ size = Cardinality(DOMAIN waiting)
  BY <1>1 DEF QueueInv, QueueTypes, Counted
<1>4. PICK r, slot, t, d2 : r = d[1] /\ slot = r.slot /\ t = k[slot] /\ d2 = HeapPop(d)
  OBVIOUS
<1>5. /\ size > 0 /\ items' = items /\ size' = size - 1
      /\ heap' = [heap EXCEPT !.data = HeapPop(@)]
      /\ unused' = IF ok THEN [slots |-> Append(st, slot),
                               capacity |-> IF Len(st) = unused.capacity THEN GrowBuffer(unused.capacity)
                                            ELSE unused.capacity]
                   ELSE unused
      /\ leaked' = IF ok THEN leaked ELSE leaked \union {slot}
      /\ inOrder' = /\ inOrder /\ t \in DOMAIN waiting
                    /\ \A x \in DOMAIN waiting : waiting[t] >= waiting[x]
      /\ waiting' = [x \in DOMAIN waiting \ {t} |-> waiting[x]]
  BY <1>1, <1>4 DEF QueuePop
<1>6. heap' = [data |-> d2, capacity |-> heap.capacity]
  <2>1. heap.data = d
    BY <1>1
  <2>2. heap' = [heap EXCEPT !.data = d2]
    BY <1>4, <1>5, <2>1
  <2> QED
    BY <1>3, <2>2
<1>7. /\ r \in E /\ \A x \in E : r.priority >= x.priority
      /\ HeapOk(d2) /\ Len(d2) = Len(d) - 1 /\ Elems(d2) = E \ {r}
  <2>1. Len(d) # 0
    BY <1>2, <1>3, <1>5
  <2> QED
    BY <1>1, <1>3, <1>4, <2>1, PopHeaps
<1>8. /\ slot \in SlotsOf(E) /\ slot \in 1 .. Len(k) /\ slot \in Nat
      /\ SlotsOf(E \ {r}) = SlotsOf(E) \ {slot}
  <2>1. slot \in SlotsOf(E) /\ slot \in 1 .. Len(k)
    BY <1>2, <1>4, <1>7
  <2>2. \A e, f \in E : e.slot = f.slot => e = f
    BY <1>2 DEF TasksOf
  <2>3. SlotsOf(E \ {r}) = SlotsOf(E) \ {slot}
    BY <1>4, <1>7, <2>2 DEF SlotsOf
  <2> QED
    BY <2>1, <2>3
<1>9. /\ t \in DOMAIN waiting /\ waiting[t] = r.priority
      /\ \A x \in DOMAIN waiting : waiting[t] >= waiting[x]
  <2>1. t \in DOMAIN waiting /\ waiting[t] = r.priority
    BY <1>2, <1>4, <1>7 DEF TasksOf
  <2>2. ASSUME NEW x \in DOMAIN waiting PROVE waiting[t] >= waiting[x]
    <3>1. PICK e \in E : k[e.slot] = x /\ waiting[x] = e.priority
      BY <1>2 DEF TasksOf
    <3> QED
      BY <1>7, <2>1, <3>1
  <2> QED
    BY <2>1, <2>2
<1>10. inOrder' = TRUE
  BY <1>3, <1>5, <1>9
<1>11. PICK w, v : w = waiting /\ v = waiting'
  OBVIOUS
<1>12. TasksOf(E \ {r}, k, v)
  <2>1. v = [x \in DOMAIN w \ {t} |-> w[x]] /\ TasksOf(E, k, w) /\ t = k[r.slot]
    BY <1>2, <1>4, <1>5, <1>11
  <2> QED
    BY <1>7, <2>1, TasksLess
<1>13. Counted'
  <2>1. DOMAIN waiting' = DOMAIN waiting \ {t}
    BY <1>5
  <2>2. IsFiniteSet(DOMAIN waiting \ {t}) /\ Cardinality(DOMAIN waiting \ {t}) = Cardinality(DOMAIN waiting) - 1
    BY <1>3, <1>9, FS_RemoveElement
  <2>3. heap'.data = d2
    BY <1>6
  <2> QED
    BY <1>3, <1>5, <1>7, <2>1, <2>2, <2>3 DEF Counted
<1>14. items'.task = k /\ items' = [task |-> items'.task, capacity |-> items'.capacity]
  BY <1>3, <1>5
<1>15. PICK st2 : st2 = unused'.slots
  OBVIOUS
<1>16. /\ unused' = [slots |-> unused'.slots, capacity |-> unused'.capacity]
       /\ st2 \in Seq(Nat) /\ unused'.capacity \in Nat /\ Once(st2) /\ Len(st2) <= unused'.capacity
       /\ Divided(SlotsOf(E) \ {slot}, Stack(st2), leaked', 1 .. Len(k))
  <2>1. CASE ok
    <3>1. PICK c : c = IF Len(st) = unused.capacity THEN GrowBuffer(unused.capacity) ELSE unused.capacity
      OBVIOUS
    <3>2. unused' = [slots |-> Append(st, slot), capacity |-> c] /\ leaked' = leaked
      BY <1>5, <2>1, <3>1
    <3>3. st2 = Append(st, slot) /\ unused'.capacity = c
      BY <1>15, <3>2
    <3>4. slot \notin Stack(st)
      BY <1>2, <1>8 DEF Divided
    <3>5. st2 \in Seq(Nat) /\ Len(st2) = Len(st) + 1 /\ Once(st2) /\ Stack(st2) = Stack(st) \union {slot}
      BY <1>2, <1>8, <3>3, <3>4, StackPush
    <3>6. c \in Nat /\ Len(st2) <= c
      <4>1. FirstBuffer \in Nat /\ FirstBuffer # 0
        BY TaskQueueAssumption
      <4>2. GrowBuffer(unused.capacity) \in Nat /\ unused.capacity + 1 <= GrowBuffer(unused.capacity)
        BY <1>2, <4>1 DEF GrowBuffer
      <4> QED
        BY <1>2, <3>1, <3>5, <4>2
    <3>7. Divided(SlotsOf(E) \ {slot}, Stack(st2), leaked', 1 .. Len(k))
      BY <1>2, <1>8, <3>2, <3>5 DEF Divided
    <3> QED
      BY <3>2, <3>3, <3>5, <3>6, <3>7
  <2>2. CASE ~ok
    <3>1. unused' = unused /\ leaked' = leaked \union {slot} /\ st2 = st
      BY <1>1, <1>5, <1>15, <2>2
    <3>2. Divided(SlotsOf(E) \ {slot}, Stack(st2), leaked', 1 .. Len(k))
      BY <1>2, <1>8, <3>1 DEF Divided
    <3> QED
      BY <1>2, <1>3, <3>1, <3>2
  <2> QED
    BY <2>1, <2>2
<1>17. heap'.data = d2 /\ heap' = [data |-> heap'.data, capacity |-> heap'.capacity]
  BY <1>6
<1>18. QueueTypes'
  BY <1>2, <1>10, <1>14, <1>15, <1>16, <1>17 DEF QueueTypes
<1>19. StackOk'
  BY <1>15, <1>16 DEF StackOk
<1>20. SlotsShared'
  BY <1>7, <1>8, <1>14, <1>15, <1>16, <1>17 DEF SlotsShared
<1>21. TasksOf(Elems(heap'.data), items'.task, waiting')
  BY <1>7, <1>11, <1>12, <1>14, <1>17
<1>22. HeapOk(heap'.data)
  BY <1>7, <1>17
<1> QED
  BY <1>13, <1>18, <1>19, <1>20, <1>21, <1>22 DEF QueueInv

LEMMA QueueInvNext == QueueInv /\ [QueueNext]_queueVars => QueueInv'
<1> SUFFICES ASSUME QueueInv, [QueueNext]_queueVars PROVE QueueInv'
  OBVIOUS
<1>1. ASSUME NEW ok \in BOOLEAN, QueuePop(ok) PROVE QueueInv'
  BY <1>1, PopNext
<1>2. ASSUME NEW ok \in BOOLEAN, NEW t \in QueuedTasks, NEW p \in Priorities, QueuePush(t, p, ok) PROVE QueueInv'
  BY <1>2, PushNext
<1>3. CASE UNCHANGED queueVars
  BY <1>3 DEF queueVars, QueueInv, QueueTypes, Counted, StackOk, SlotsShared
<1> QED
  BY <1>1, <1>2, <1>3 DEF QueueNext

\* Under TaskQueueAssumption, for any tasks, priorities and buffers: a pop
\* returns an accepted task of the highest priority, and whatever growth
\* failed, the queue's size, heap, slots and stack describe the same tasks.
THEOREM TasksInOrder == QueueSpec => []QueueInStep
<1>1. QueueInv => QueueInStep
  <2> SUFFICES ASSUME QueueInv PROVE QueueInStep
    OBVIOUS
  <2>1. PICK d, k, st, E : d = heap.data /\ k = items.task /\ st = unused.slots /\ E = Elems(d)
    OBVIOUS
  <2>2. /\ d \in Seq(Entries) /\ Len(d) \in Nat /\ DOMAIN k = 1 .. Len(k) /\ st \in Seq(Nat) /\ Once(st)
        /\ Divided(SlotsOf(E), Stack(st), leaked, 1 .. Len(k)) /\ TasksOf(E, k, waiting)
    BY <2>1, QueueFacts
  <2>3. DOMAIN d = 1 .. Len(d) /\ DOMAIN st = 1 .. Len(st)
    BY <2>2, LenProperties
  <2>4. {d[i].slot : i \in DOMAIN d} = SlotsOf(E)
    BY <2>1, <2>3 DEF SlotsOf, Elems
  <2>5. {st[i] : i \in DOMAIN st} = Stack(st)
    BY <2>3 DEF Stack
  <2>6. Cardinality(Stack(st)) = Len(st)
    BY <2>2, StackCount
  <2>7. {k[s] : s \in SlotsOf(E)} = DOMAIN waiting
    <3>1. PICK w : w = waiting
      OBVIOUS
    <3>2. TasksOf(E, k, w)
      BY <2>2, <3>1
    <3>3. \A s \in SlotsOf(E) : k[s] \in DOMAIN w
      BY <3>2 DEF SlotsOf, TasksOf
    <3>4. \A x \in DOMAIN w : \E s \in SlotsOf(E) : k[s] = x
      BY <3>2 DEF SlotsOf, TasksOf
    <3> QED
      BY <3>1, <3>3, <3>4
  <2>8. \A i \in DOMAIN d : waiting[k[d[i].slot]] = d[i].priority
    <3> SUFFICES ASSUME NEW i \in DOMAIN d PROVE waiting[k[d[i].slot]] = d[i].priority
      OBVIOUS
    <3>1. d[i] \in E
      BY <2>1, <2>3 DEF Elems
    <3> QED
      BY <2>2, <3>1 DEF TasksOf
  <2>9. inOrder /\ size = Len(d) /\ size = Cardinality(DOMAIN waiting)
    BY <2>1 DEF QueueInv, QueueTypes, Counted
  <2>10. /\ SlotsOf(E) \union Stack(st) \union leaked = DOMAIN k
         /\ SlotsOf(E) \intersect Stack(st) = {} /\ leaked \intersect (SlotsOf(E) \union Stack(st)) = {}
    BY <2>2 DEF Divided
  <2> QED
    <3>1. {heap.data[i].slot : i \in DOMAIN heap.data} = SlotsOf(E)
      BY <2>1, <2>4
    <3>2. {unused.slots[i] : i \in DOMAIN unused.slots} = Stack(st)
      BY <2>1, <2>5
    <3>3. {items.task[s] : s \in {heap.data[i].slot : i \in DOMAIN heap.data}} = DOMAIN waiting
      <4>1. {items.task[s] : s \in SlotsOf(E)} = DOMAIN waiting
        BY <2>1, <2>7
      <4> QED
        BY <3>1, <4>1, Zenon
    <3>4. Cardinality({unused.slots[i] : i \in DOMAIN unused.slots}) = Len(unused.slots)
      BY <2>1, <2>6, <3>2, Zenon
    <3>5. \A i \in DOMAIN heap.data : waiting[items.task[heap.data[i].slot]] = heap.data[i].priority
      BY <2>1, <2>8
    <3>6. size = Len(heap.data) /\ DOMAIN items.task = DOMAIN k
      BY <2>1, <2>9
    <3>7. /\ {heap.data[i].slot : i \in DOMAIN heap.data} \union {unused.slots[i] : i \in DOMAIN unused.slots}
                \union leaked = DOMAIN items.task
          /\ {heap.data[i].slot : i \in DOMAIN heap.data} \intersect {unused.slots[i] : i \in DOMAIN unused.slots} = {}
          /\ leaked \intersect ({heap.data[i].slot : i \in DOMAIN heap.data}
                                  \union {unused.slots[i] : i \in DOMAIN unused.slots}) = {}
      BY <2>10, <3>1, <3>2, <3>6, Zenon
    <3> QED
      BY <2>9, <3>3, <3>4, <3>5, <3>6, <3>7, Zenon DEF QueueInStep
<1> QED
  BY <1>1, QueueInvInit, QueueInvNext, PTL DEF QueueSpec
=============================================================================
