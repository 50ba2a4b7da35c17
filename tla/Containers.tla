----------------------------- MODULE Containers -----------------------------
(***************************************************************************)
(* The fixed-size containers: the ring buffer (src/src/container/ringbuf.c) *)
(* and the object pool (pool.c).  Each operation runs under the container's *)
(* lock.  `line` and `lent` are what callers expect the container to hold.  *)
(***************************************************************************)
EXTENDS Naturals, Sequences, FiniteSets, WordOps

CONSTANTS RingSizes,   \* capacities a ring may be created with
          Payloads,    \* items pushed
          PoolSizes,   \* capacities an object pool may be created with
          Nothing      \* no item: SIZE_MAX, NULL

ASSUME ContainersAssumption == RingSizes \union PoolSizes \subseteq Nat \ {0}

VARIABLES ring, line,         \* the ring buffer; the items pushed and not popped
          pool, lent, denied  \* the object pool; items handed out; last alloc was NULL

-----------------------------------------------------------------------------
(* The ring buffer.  The index is masked only for a power of two above one. *)

RingInit ==
    /\ \E n \in RingSizes :
          ring = [capacity |-> n, head |-> 0, tail |-> 0, full |-> FALSE,
                  buffer |-> [i \in 0..n-1 |-> Nothing]]
    /\ line = <<>>

AdvanceMutant(n, i) == WordAnd(i + 1, n - 1)   \* mutant: masked whatever the capacity
Masks(n) == n > 1 /\ \E k \in 1..n : n = 2^k
Advance(n, i) == IF Masks(n) THEN WordAnd(i + 1, n - 1)
                 ELSE IF i + 1 < n THEN i + 1 ELSE 0

ASSUME RingAssumption == \A n \in RingSizes : Masks(n) => \A i \in 0..n : WordAnd(i, n - 1) = i % n

RingIsEmpty == ~ring.full /\ ring.head = ring.tail

RingCount == IF ring.full THEN ring.capacity
             ELSE IF ring.head >= ring.tail THEN ring.head - ring.tail
             ELSE ring.capacity + ring.head - ring.tail

RingPush(v) ==
    LET next == Advance(ring.capacity, ring.head) IN
    /\ ~ring.full
    /\ ring' = [ring EXCEPT !.buffer[ring.head] = v, !.head = next,
                            !.full = next = ring.tail]
    /\ line' = Append(line, v)

RingPop ==
    /\ ~RingIsEmpty
    /\ ring' = [ring EXCEPT !.tail = Advance(ring.capacity, @), !.full = FALSE]
    /\ line' = Tail(line)

RingNext == RingPop \/ \E v \in Payloads : RingPush(v)

ringVars == <<ring, line>>
RingSpec == RingInit /\ [][RingNext]_ringVars

\* The buffer read from the tail is the items pushed and not yet popped, in
\* the order of the pushes, and full, empty and count say how many there are.
RingFifo ==
    /\ RingCount = Len(line)
    /\ RingIsEmpty <=> line = <<>>
    /\ ring.full <=> Len(line) = ring.capacity
    /\ \A i \in 1..Len(line) :
          ring.buffer[(ring.tail + i - 1) % ring.capacity] = line[i]

-----------------------------------------------------------------------------
(* The object pool.  Items that can hold a pointer are chained in a free    *)
(* list; smaller ones are found by walking lanes of a Latin square.         *)

PoolInit ==
    /\ \E n \in PoolSizes, chained \in BOOLEAN :
          pool = [capacity |-> n, chained |-> chained, bitmap |-> {}, used |-> 0,
                  free |-> IF chained THEN [i \in 1..n |-> n - i] ELSE <<>>,
                  recycled |-> Nothing, lane |-> 1, chunk |-> 0]
    /\ lent = {} /\ denied = FALSE

ChunkCount(n) == (n + 63) \div 64
TimesThree == <<0, 3, 6, 5, 7, 4, 1, 2>>   \* in GF(8)
Lane(seed) == LET row == seed % 8
                  col == (seed \div 8) % 8
              IN 8 * WordXor(row, col) + WordXor(TimesThree[row + 1], col)

\* One probe: the slot looked at, then the cursor moved past it.
Slot(c) == 64 * c.chunk + Lane(c.lane)
Jitter(idx) == (64 + (idx % 64) - ((idx \div 64) % 64)) % 64
Probe(n, c) ==
    LET lane == (c.lane + 9 + Jitter(Slot(c))) % 64
    IN [lane |-> lane,
        chunk |-> IF lane = 1 THEN (c.chunk + 1) % ChunkCount(n) ELSE c.chunk]

\* The cursor after k probes; the first probe that meets a free slot.
Cursor == LET at[k \in 0..pool.capacity] ==
                  IF k = 0 THEN [lane |-> pool.lane, chunk |-> pool.chunk]
                  ELSE Probe(pool.capacity, at[k-1])
          IN at
Usable(idx) == idx < pool.capacity /\ idx \notin pool.bitmap
Recyclable == pool.recycled # Nothing /\ Usable(pool.recycled)

Lend(idx) == /\ lent' = lent \union {idx}
             /\ denied' = FALSE
Marked(idx) == [pool EXCEPT !.bitmap = @ \union {idx}, !.used = @ + 1]

PoolAllocChained ==
    LET idx == Head(pool.free) IN
    /\ pool.free # <<>>
    /\ pool' = [Marked(idx) EXCEPT !.free = Tail(@)]
    /\ Lend(idx)

PoolFull ==
    /\ pool.free = <<>> /\ pool.used >= pool.capacity
    /\ denied' = TRUE
    /\ UNCHANGED <<pool, lent>>

PoolAllocRecycled ==
    /\ pool.free = <<>> /\ pool.used < pool.capacity
    /\ Recyclable
    /\ pool' = [Marked(pool.recycled) EXCEPT !.recycled = Nothing]
    /\ Lend(pool.recycled)

PoolAllocScan ==
    LET cursor == Cursor
        hits == {k \in 0..pool.capacity - 1 : Usable(Slot(cursor[k]))}
        first == CHOOSE k \in hits : \A j \in hits : k <= j
        stop == IF hits = {} THEN pool.capacity ELSE first + 1
        here == IF hits = {} THEN pool ELSE Marked(Slot(cursor[first]))
    IN /\ pool.free = <<>> /\ pool.used < pool.capacity
       /\ ~Recyclable
       /\ pool' = [here EXCEPT !.recycled = Nothing, !.lane = cursor[stop].lane,
                               !.chunk = cursor[stop].chunk]
       /\ IF hits = {} THEN denied' = TRUE /\ UNCHANGED lent ELSE Lend(Slot(cursor[first]))

\* Any caller may free any slot, allocated or not: only the bit decides.
AllocatedMutant(idx) == TRUE      \* mutant: the bit is not tested
Allocated(idx) == idx \in pool.bitmap

PoolFree(idx) ==
    /\ idx < pool.capacity /\ Allocated(idx)
    /\ pool' = [pool EXCEPT !.bitmap = @ \ {idx}, !.used = IF @ = 0 THEN @ ELSE @ - 1,
                            !.recycled = idx,
                            !.free = IF pool.chained THEN <<idx>> \o @ ELSE @]
    /\ lent' = lent \ {idx}
    /\ denied' = FALSE

PoolNext ==
    \/ PoolAllocChained \/ PoolFull \/ PoolAllocRecycled \/ PoolAllocScan
    \/ \E n \in PoolSizes : \E idx \in 0..n-1 : PoolFree(idx)

poolVars == <<pool, lent, denied>>
PoolSpec == PoolInit /\ [][PoolNext]_poolVars

\* No slot is handed out twice: the bitmap, the count and the free list agree
\* with what callers hold, whatever is freed, and a chained pool gives NULL
\* only when it is full.  (A lane-walked pool may give up on a free slot: the
\* walk has `capacity` probes and many of them fall outside the pool.)
PoolItems ==
    /\ pool.bitmap = lent /\ pool.used = Cardinality(lent)
    /\ pool.chained =>
          /\ lent \union {pool.free[i] : i \in DOMAIN pool.free} = 0..pool.capacity - 1
          /\ Len(pool.free) + Cardinality(lent) = pool.capacity
          /\ denied => Cardinality(lent) = pool.capacity
=============================================================================
