------------------------------ MODULE TaskQueue ------------------------------
(***************************************************************************)
(* A shard's priority queue (src/src/priority/queue.c) on a binary max-heap *)
(* (heap.c).  Tasks lie in slots; the heap orders <<priority, slot>>; slots *)
(* of popped tasks are kept on a stack for reuse.  The three buffers grow   *)
(* separately and each growth may fail.  The shard's mutex covers a call.   *)
(***************************************************************************)
EXTENDS Naturals, Sequences, FiniteSets

CONSTANTS QueuedTasks, Priorities,
          HeapCapacity,   \* initial capacity of the heap (16)
          FirstBuffer,    \* first capacity of items and free_slots (16)
          SlotSpace       \* Q_HALF_MASK: slots there can ever be

ASSUME TaskQueueAssumption ==
    {HeapCapacity, FirstBuffer, SlotSpace} \subseteq Nat \ {0} /\ Priorities \subseteq Nat

VARIABLES heap,      \* data, and capacity
          items,     \* slots: contents, items_count, items_cap
          unused,    \* free_slots: the stack and free_cap
          size,      \* q->size
          waiting,   \* tasks a push accepted and no pop returned -> priority
          leaked,    \* slots dropped because free_slots could not grow
          inOrder    \* every pop so far returned a task of the highest priority

queueVars == <<heap, items, unused, size, waiting, leaked, inOrder>>

QueueInit ==
    /\ heap = [data |-> <<>>, capacity |-> HeapCapacity]
    /\ items = [task |-> <<>>, capacity |-> 0]
    /\ unused = [slots |-> <<>>, capacity |-> 0]
    /\ size = 0 /\ waiting = <<>> /\ leaked = {} /\ inOrder = TRUE

-----------------------------------------------------------------------------
(* heap.c; positions are counted from 1, so the parent of i is i \div 2.    *)

Swap(s, i, j) == [s EXCEPT ![i] = s[j], ![j] = s[i]]
Above(s, i, j) == s[i].priority > s[j].priority

\* One turn of each loop: a walk is the array and the position it has come to.
Risen(w) ==
    LET above == w.at \div 2 IN
    IF w.at > 1 /\ Above(w.data, w.at, above)
    THEN [data |-> Swap(w.data, w.at, above), at |-> above] ELSE w
HeapifyUp(s, i) ==
    LET walk[n \in 0..i] == IF n = 0 THEN [data |-> s, at |-> i] ELSE Risen(walk[n-1])
    IN walk[i].data

Largest(s, i) ==
    LET left == 2 * i
        right == 2 * i + 1
        upper == IF left <= Len(s) /\ Above(s, left, i) THEN left ELSE i
    IN IF right <= Len(s) /\ Above(s, right, upper) THEN right ELSE upper
Sunk(w) ==
    LET largest == Largest(w.data, w.at) IN
    IF largest = w.at THEN w ELSE [data |-> Swap(w.data, w.at, largest), at |-> largest]
HeapifyDown(s, i) ==
    LET walk[n \in 0..Len(s)] == IF n = 0 THEN [data |-> s, at |-> i] ELSE Sunk(walk[n-1])
    IN walk[Len(s)].data

\* The last element replaces the root and sinks.
HeapPop(s) ==
    LET n == Len(s) IN
    IF n = 1 THEN <<>> ELSE HeapifyDown([SubSeq(s, 1, n - 1) EXCEPT ![1] = s[n]], 1)

\* ttak_heap_tree_push doubles a full heap; ok is whether it could.
HeapPush(e, ok) ==
    LET full == Len(heap.data) = heap.capacity IN
    /\ full \/ ok
    /\ heap' = IF ok THEN [data |-> HeapifyUp(Append(heap.data, e), Len(heap.data) + 1),
                           capacity |-> IF full THEN heap.capacity * 2 ELSE heap.capacity]
               ELSE heap

-----------------------------------------------------------------------------
(* queue.c *)

GrowBuffer(capacity) == IF capacity = 0 THEN FirstBuffer ELSE capacity * 2

\* A slot for the new task: the top of the stack, else the next item, for
\* which the buffer may have to grow.
FreeSlot == unused.slots # <<>>
NextSlot == Len(items.task) + 1
SlotFor == IF FreeSlot THEN unused.slots[Len(unused.slots)] ELSE NextSlot
Popped(u) == [u EXCEPT !.slots = SubSeq(@, 1, Len(@) - 1)]
Place(t) ==
    IF FreeSlot THEN [items EXCEPT !.task[SlotFor] = t]
    ELSE [task |-> Append(items.task, t),
          capacity |-> IF NextSlot > items.capacity THEN GrowBuffer(items.capacity)
                       ELSE items.capacity]

\* The slot of a task the heap did not take: pushed on the stack if there is
\* room, else given back as the last item.
GiveBackMutant(u, i, slot) == [free |-> u, items |-> i]   \* mutant: the slot is lost
GiveBack(u, i, slot) ==
    IF Len(u.slots) < u.capacity THEN [free |-> [u EXCEPT !.slots = Append(@, slot)], items |-> i]
    ELSE IF slot = Len(i.task) THEN [free |-> u, items |-> [i EXCEPT !.task = SubSeq(@, 1, slot - 1)]]
    ELSE [free |-> u, items |-> i]

\* A push that finds no slot, or no memory for more items, changes nothing.
QueuePush(t, priority, ok) ==
    LET slot == SlotFor
        rest == IF FreeSlot THEN Popped(unused) ELSE unused
        back == GiveBack(rest, Place(t), slot)
    IN /\ t \notin DOMAIN waiting
       /\ FreeSlot \/ Len(items.task) < SlotSpace
       /\ HeapPush([priority |-> priority, slot |-> slot], ok)
       /\ items' = IF ok THEN Place(t) ELSE back.items
       /\ unused' = IF ok THEN rest ELSE back.free
       /\ size' = IF ok THEN size + 1 ELSE size
       /\ waiting' = IF ok THEN [x \in DOMAIN waiting \union {t} |->
                                    IF x = t THEN priority ELSE waiting[x]]
                     ELSE waiting
       /\ UNCHANGED <<leaked, inOrder>>

\* q_pop: the root, its slot pushed on the stack, or leaked when the stack is
\* full and cannot grow.
QueuePop(ok) ==
    LET slot == heap.data[1].slot
        t == items.task[slot]
        full == Len(unused.slots) = unused.capacity
    IN /\ size > 0 /\ (full \/ ok)
       /\ heap' = [heap EXCEPT !.data = HeapPop(@)]
       /\ unused' = IF ok THEN [slots |-> Append(unused.slots, slot),
                                capacity |-> IF full THEN GrowBuffer(unused.capacity)
                                             ELSE unused.capacity]
                    ELSE unused
       /\ leaked' = IF ok THEN leaked ELSE leaked \union {slot}
       /\ size' = size - 1
       /\ inOrder' = /\ inOrder /\ t \in DOMAIN waiting
                     /\ \A x \in DOMAIN waiting : waiting[t] >= waiting[x]
       /\ waiting' = [x \in DOMAIN waiting \ {t} |-> waiting[x]]
       /\ UNCHANGED items

QueueNext ==
    \E ok \in BOOLEAN :
        \/ QueuePop(ok)
        \/ \E t \in QueuedTasks, p \in Priorities : QueuePush(t, p, ok)

QueueSpec == QueueInit /\ [][QueueNext]_queueVars

-----------------------------------------------------------------------------
\* A pop returns an accepted task of the highest priority, and whatever
\* growth failed, size, heap, slots and stack describe the same tasks: every
\* slot is in the heap, on the stack or was leaked by a pop, and in one only.
QueueInStep ==
    LET inHeap == {heap.data[i].slot : i \in DOMAIN heap.data}
        onStack == {unused.slots[i] : i \in DOMAIN unused.slots}
    IN /\ inOrder
       /\ size = Len(heap.data) /\ size = Cardinality(DOMAIN waiting)
       /\ {items.task[s] : s \in inHeap} = DOMAIN waiting
       /\ \A i \in DOMAIN heap.data : waiting[items.task[heap.data[i].slot]] = heap.data[i].priority
       /\ Cardinality(onStack) = Len(unused.slots)
       /\ inHeap \union onStack \union leaked = DOMAIN items.task
       /\ inHeap \intersect onStack = {} /\ leaked \intersect (inHeap \union onStack) = {}
=============================================================================
