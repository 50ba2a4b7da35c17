----------------------------- MODULE DynamicMask -----------------------------
(***************************************************************************)
(* The growing bitmap of src/src/mask/dynamic_mask.c: set and clear under   *)
(* a write lock, test without a lock on the array and the capacity it       *)
(* loads one after the other.  Arrays that were outgrown go to the epoch    *)
(* manager, of which only the contract (Reclamation) is used.               *)
(*                                                                          *)
(* A test enters no section itself.  Its caller may have: access_ebr of a   *)
(* shared container does when it was asked for protection (shared.c:202);   *)
(* access(), sync_all and access_ebr without protection do not, and the     *)
(* array they read may be freed under them.                                 *)
(***************************************************************************)
EXTENDS Reclamation, Integers, FiniteSets

CONSTANTS Testers, Setters,   \* threads
          Bits,               \* the bits tested, set and cleared
          FirstCapacity,      \* bits of the first array (64 in the code)
          FirstArray          \* its pointer

ASSUME MaskAssumption == /\ Testers \union Setters \subseteq Threads
                         /\ Testers \intersect Setters = {}
                         /\ Bits \subseteq Nat
                         /\ FirstCapacity \in Nat \ {0}
                         /\ FirstArray \in Ptrs

VARIABLES
    array,     \* pointer -> its length in bits (0 if not allocated) and its set bits
    bits,      \* mask->bits, the current array
    capacity, count,
    at,        \* where each thread is
    job,       \* the bit it was called for
    got,       \* the array a tester has loaded or a setter has allocated
    answer,    \* what a test returns
    wanted,    \* the bits that calls so far have set and not cleared
    seen       \* the values the bit under test has had since the test began

maskVars == <<array, bits, capacity, count, at, job, got, answer, wanted, seen>>

MaskInit ==
    /\ Init
    /\ array = [p \in Ptrs |-> [len |-> IF p = FirstArray THEN FirstCapacity ELSE 0,
                                set |-> {}]]
    /\ bits = FirstArray
    /\ capacity = FirstCapacity /\ count = 0
    /\ at = [t \in Threads |-> "idle"]
    /\ job = [t \in Threads |-> 0]
    /\ got = [t \in Threads |-> FirstArray]
    /\ answer = [t \in Threads |-> FALSE]
    /\ wanted = {}
    /\ seen = [t \in Threads |-> {}]

Step(t, from, to) == at[t] = from /\ at' = [at EXCEPT ![t] = to]

\* The locals of a call end with it.
Reset(t) == /\ job' = [job EXCEPT ![t] = 0]
            /\ got' = [got EXCEPT ![t] = FirstArray]
            /\ answer' = [answer EXCEPT ![t] = FALSE]

InRange(i) == i < capacity

Unlocked == \A t \in Setters : at[t] = "idle"

-----------------------------------------------------------------------------
(* The callers of the test: a section around any number of tests.           *)

CallerEnters(t) == at[t] = "idle" /\ t \notin inside /\ Enter(t) /\ UNCHANGED maskVars

CallerLeaves(t) == at[t] = "idle" /\ t \in inside /\ Leave(t) /\ UNCHANGED maskVars

-----------------------------------------------------------------------------
(* ttak_dynamic_mask_test *)

\* The array is loaded ...
TestBits(t, i) ==
    /\ Step(t, "idle", "cap")
    /\ job' = [job EXCEPT ![t] = i]
    /\ got' = [got EXCEPT ![t] = bits]
    /\ seen' = [seen EXCEPT ![t] = {(i \in wanted)}]
    /\ UNCHANGED <<array, bits, capacity, count, answer, wanted>>
    /\ UNCHANGED contract

\* ... then the capacity ...
TestCapacity(t) ==
    /\ Step(t, "cap", IF InRange(job[t]) THEN "read" ELSE "done")
    /\ answer' = [answer EXCEPT ![t] = FALSE]
    /\ UNCHANGED <<array, bits, capacity, count, job, got, wanted, seen>>
    /\ UNCHANGED contract

\* ... and a word of the array.  Beyond its end, or once it was freed, the word
\* may hold anything.
Readable(t) == job[t] < array[got[t]].len /\ status[got[t]] # "freed"

TestWord(t) ==
    /\ Step(t, "read", "done")
    /\ \E v \in IF Readable(t) THEN {(job[t] \in array[got[t]].set)} ELSE BOOLEAN :
          answer' = [answer EXCEPT ![t] = v]
    /\ UNCHANGED <<array, bits, capacity, count, job, got, wanted, seen>>
    /\ UNCHANGED contract

TestDone(t) ==
    /\ Step(t, "done", "idle")
    /\ seen' = [seen EXCEPT ![t] = {}]
    /\ Reset(t)
    /\ UNCHANGED <<array, bits, capacity, count, wanted>>
    /\ UNCHANGED contract

-----------------------------------------------------------------------------
(* ttak_dynamic_mask_set and _clear, which hold the lock throughout *)

\* The capacity doubled until it has room for bit i: the only such member.
Grown(i) == {c \in 0 .. 2 * i : i < c /\ \E k \in 0 .. i : c = capacity * 2^k}

CopiedMutant == {}                    \* mutant: the new array starts empty
Copied == {b \in array[bits].set : b < capacity}

\* mutant: the old array is freed at once
OutgrownMutant(p) == status' = [status EXCEPT ![p] = "freed"] /\ UNCHANGED <<inside, pinned>>
Outgrown(p) == Retire(p)

Fresh(p) == array[p].len = 0

SetLock(t, i) ==
    /\ Unlocked
    /\ Step(t, "idle", IF InRange(i) THEN "put" ELSE "copy")
    /\ job' = [job EXCEPT ![t] = i]
    /\ UNCHANGED <<array, bits, capacity, count, got, answer, wanted, seen>>
    /\ UNCHANGED contract

\* ttak_dynamic_mask_ensure: a longer array with the words of the old one; if
\* there is no memory the call ends with false.
GrowCopy(t, p) ==
    /\ Step(t, "copy", "cap") /\ Fresh(p)
    /\ \E c \in Grown(job[t]) : array' = [array EXCEPT ![p] = [len |-> c, set |-> Copied]]
    /\ got' = [got EXCEPT ![t] = p]
    /\ UNCHANGED <<bits, capacity, count, job, answer, wanted, seen>>
    /\ UNCHANGED contract

GrowFails(t) ==
    /\ Step(t, "copy", "idle") /\ Reset(t)
    /\ UNCHANGED <<array, bits, capacity, count, wanted, seen>>
    /\ UNCHANGED contract

GrowCapacity(t) ==
    /\ t \in Setters /\ Step(t, "cap", "swap")
    /\ capacity' = array[got[t]].len
    /\ UNCHANGED <<array, bits, count, job, got, answer, wanted, seen>>
    /\ UNCHANGED contract

GrowSwap(t) ==
    /\ Step(t, "swap", "put")
    /\ bits' = got[t]
    /\ Outgrown(bits)
    /\ UNCHANGED <<array, capacity, count, job, got, answer, wanted, seen>>

\* Bit i of the current array becomes v; count follows.
Write(i, v) ==
    LET now == IF v THEN array[bits].set \union {i} ELSE array[bits].set \ {i}
        all == IF v THEN wanted \union {i} ELSE wanted \ {i}
    IN /\ array' = [array EXCEPT ![bits].set = now]
       /\ count' = count + (IF now = array[bits].set THEN 0 ELSE IF v THEN 1 ELSE -1)
       /\ wanted' = all
       /\ seen' = [r \in Threads |-> IF at[r] = "idle" \/ r \notin Testers THEN seen[r]
                                     ELSE seen[r] \union {(job[r] \in all)}]
       /\ UNCHANGED <<bits, capacity>> /\ UNCHANGED contract

Put(t) == Step(t, "put", "idle") /\ Write(job[t], TRUE) /\ Reset(t)

Clear(t, i) ==
    /\ Unlocked /\ InRange(i)
    /\ at[t] = "idle"
    /\ Write(i, FALSE)
    /\ UNCHANGED <<at, job, got, answer>>

\* The epoch manager frees an outgrown array.
Collect(p) == Free(p) /\ UNCHANGED maskVars

MaskNext ==
    \/ \E t \in Testers : \/ CallerEnters(t) \/ CallerLeaves(t)
                          \/ TestCapacity(t) \/ TestWord(t) \/ TestDone(t)
                          \/ \E i \in Bits : TestBits(t, i)
    \/ \E t \in Setters : \/ GrowFails(t) \/ GrowCapacity(t) \/ GrowSwap(t) \/ Put(t)
                          \/ \E i \in Bits : SetLock(t, i) \/ Clear(t, i)
                          \/ \E p \in Ptrs : GrowCopy(t, p)
    \/ \E p \in Ptrs : Collect(p)

MaskSpec == MaskInit /\ [][MaskNext]_<<maskVars, contract>>

-----------------------------------------------------------------------------
\* Between two calls of the writers the current array holds exactly what they
\* set and did not clear, growth included, and count and capacity agree with it.
MaskExact ==
    Unlocked => /\ array[bits].set = wanted
                /\ count = Cardinality(wanted)
                /\ capacity = array[bits].len

\* A test whose caller is in a section reads an array that has not been freed,
\* although it may have been outgrown since; and a test answers with a value its
\* bit had at some moment of the call.  It need not if the capacity it loaded is
\* already that of a longer array than it loaded and the bit lies beyond that
\* array, or if its caller is in no section and the array was freed.
TestLinear ==
    \A t \in Testers :
        /\ at[t] = "read" /\ t \in inside => status[got[t]] # "freed"
        /\ at[t] = "done" =>
              \/ answer[t] \in seen[t]
              \/ array[got[t]].len <= job[t] /\ job[t] < capacity
              \/ t \notin inside /\ status[got[t]] = "freed"
=============================================================================
