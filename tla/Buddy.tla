-------------------------------- MODULE Buddy --------------------------------
(***************************************************************************)
(* The buddy allocator (src/src/phys/mem/buddy.c).  Sizes and offsets count *)
(* minimal blocks of 64 bytes, so order 0 stands for order 6 of the code; a *)
(* block is <<segment, offset>>.  Every change happens under the one buddy  *)
(* lock, but an allocation takes it several times: to grow the zone, to     *)
(* take a block, and again for both when the first try found none.          *)
(***************************************************************************)
EXTENDS Integers, Sequences, FiniteSets, SequencesExt

CONSTANTS BuddyClients,  \* threads that allocate and free
          Pools,         \* <<length of the initial pool (0: none), embedded>>
          Orders,        \* orders that clients request
          MinGrowth,     \* TTAK_BUDDY_MIN_GROWTH_BYTES
          MaxSegments    \* TTAK_BUDDY_MAX_SEGMENTS

ASSUME BuddyAssumption == /\ Pools \subseteq Nat \X BOOLEAN /\ Orders \subseteq Nat
                          /\ {MinGrowth, MaxSegments} \subseteq Nat \ {0}

VARIABLES zone,     \* segment lengths, free lists, block headers, counters
          request,  \* client -> the allocation it is in
          strayed   \* a free read a header where no block starts

buddyVars == <<zone, request, strayed>>

TopOrder == 5  \* bound: the largest order of the instance
OrderSize(k) == 2^k
MaxOrderForPool(n) ==
    CHOOSE k \in 0..TopOrder : OrderSize(k) <= n /\ (k = TopOrder \/ OrderSize(k + 1) > n)

-----------------------------------------------------------------------------
(* Free lists.  A pool with anti_fragmentation keeps them in address order; *)
(* it has one segment.                                                      *)

ListPush(z, k, b) ==
    LET l == z.free[k]
        n == IF z.embedded
             THEN Cardinality({i \in DOMAIN l : \A j \in 1..i : l[j][2] < b[2]}) ELSE 0
    IN [z EXCEPT !.free[k] = InsertAt(l, n + 1, b),
                 !.header = [x \in DOMAIN @ \union {b} |->
                                IF x = b THEN [order |-> k, in_use |-> FALSE] ELSE @[x]]]

ListRemove(z, k, b) == [z EXCEPT !.free[k] = SelectSeq(@, LAMBDA x : x # b)]

\* Block a gone as a block of its own: merged into its pair.
Forget(z, b) == [z EXCEPT !.header = [x \in DOMAIN @ \ {b} |-> @[x]]]

\* buddy_pair: the neighbour that differs in the bit of the order, if it
\* starts inside the segment.
PairOffset(b, k) == IF (b[2] \div OrderSize(k)) % 2 = 0 THEN b[2] + OrderSize(k)
                    ELSE b[2] - OrderSize(k)
HasPair(z, b, k) == PairOffset(b, k) < z.length[b[1]]
Pair(b, k) == <<b[1], PairOffset(b, k)>>
Lower(b, c) == IF b[2] < c[2] THEN b ELSE c

PairIsFreeMutant(z, b, k) ==   \* mutant: the orders are not compared
    HasPair(z, b, k) /\ Pair(b, k) \in DOMAIN z.header /\ ~z.header[Pair(b, k)].in_use
PairIsFree(z, b, k) ==
    /\ HasPair(z, b, k) /\ Pair(b, k) \in DOMAIN z.header
    /\ z.header[Pair(b, k)] = [order |-> k, in_use |-> FALSE]

\* buddy_populate_segment: from each offset the largest aligned block that fits.
RECURSIVE Populate(_, _, _)
Populate(z, s, offset) ==
    LET left == z.length[s] - offset
        fits == {k \in 0..MaxOrderForPool(z.length[s]) :
                    OrderSize(k) <= left /\ offset % OrderSize(k) = 0}
        order == CHOOSE k \in fits : \A j \in fits : j <= k
    IN IF left = 0 THEN z
       ELSE Populate(ListPush(z, order, <<s, offset>>), s, offset + OrderSize(order))

AddSegment(z, n) ==
    LET order == MaxOrderForPool(n)
    IN Populate([z EXCEPT !.length = Append(@, n), !.pool_len = @ + n,
                          !.max_order = IF order > @ THEN order ELSE @],
                Len(z.length) + 1, 0)

BuddyInit ==
    /\ \E start \in Pools :
          LET n == start[1]
              empty == [length |-> <<>>, free |-> [k \in 0..TopOrder |-> <<>>],
                        header |-> <<>>, max_order |-> 0, pool_len |-> 0,
                        bytes_in_use |-> 0, embedded |-> start[2]]
          IN zone = IF n = 0 THEN empty ELSE AddSegment(empty, n)
    /\ request = [c \in BuddyClients |-> [at |-> "idle"]]
    /\ strayed = FALSE

-----------------------------------------------------------------------------
(* Allocation *)

\* select_block: the head of the smallest, or for worst fit the largest,
\* order at least as big as the one wanted that has a free block.
Candidates(z, k) == {j \in k..z.max_order : z.free[j] # <<>>}
Chosen(z, k, worst) ==
    CHOOSE j \in Candidates(z, k) :
        \A i \in Candidates(z, k) : IF worst THEN i <= j ELSE j <= i

\* split_block: the upper halves go back to the lists.
RECURSIVE Split(_, _, _, _)
Split(z, b, have, want) ==
    IF have = want
    THEN [z EXCEPT !.header[b] = [order |-> want, in_use |-> TRUE],
                   !.bytes_in_use = @ + OrderSize(want)]
    ELSE Split(ListPush(z, have - 1, <<b[1], b[2] + OrderSize(have - 1)>>), b, have - 1, want)

Take(z, k, worst) ==
    LET j == Chosen(z, k, worst)
        b == Head(z.free[j])
    IN Split(ListRemove(z, j, b), b, j, k)

\* buddy_defragment_locked: free pairs merged, lowest order first.  (As free
\* merges eagerly it finds none: BlocksTile.)
RECURSIVE Defragment(_, _)
Defragment(z, k) ==
    LET paired == {i \in DOMAIN z.free[k] : PairIsFree(z, z.free[k][i], k)}
        b == z.free[k][CHOOSE i \in paired : \A j \in paired : i <= j]
        c == Pair(b, k)
        merged == ListPush(Forget(Forget(ListRemove(ListRemove(z, k, b), k, c), b), c),
                           k + 1, Lower(b, c))
    IN IF k >= z.max_order THEN z
       ELSE IF paired = {} THEN Defragment(z, k + 1) ELSE Defragment(merged, k)

\* buddy_expand_zone asks for twice the capacity, at least the block and at
\* least the minimal growth.
CanExpand == ~zone.embedded /\ Len(zone.length) < MaxSegments
Expansion(k) ==
    LET wanted == IF zone.pool_len = 0 THEN OrderSize(k) ELSE zone.pool_len * 2
    IN CHOOSE n \in {wanted, OrderSize(k), MinGrowth} :
          \A m \in {wanted, OrderSize(k), MinGrowth} : m <= n

\* buddy_should_grow: four fifths of the capacity, in bytes and rounded down.
ShouldGrow(z, k) ==
    LET capacity == 64 * z.pool_len
        projected == 64 * (z.bytes_in_use + OrderSize(k))
    IN /\ ~z.embedded
       /\ \/ capacity = 0 \/ projected >= capacity
          \/ projected >= (capacity \div 100) * 80 + ((capacity % 100) * 80) \div 100

Advances(c, at) == request' = [request EXCEPT ![c].at = at]
Finish(c) == request' = [request EXCEPT ![c] = [at |-> "idle"]]

\* Where a call stands once the order is within the zone: it fails, grows the
\* zone because of the load, or takes a block.  The zone is read unlocked.
Onward(c, z, r) ==
    request' = [request EXCEPT ![c] =
                   IF r.order > z.max_order THEN [at |-> "idle"]
                   ELSE [r EXCEPT !.at = IF ShouldGrow(z, r.order) THEN "grow" ELSE "take"]]

\* ttak_mem_buddy_alloc, up to the first time it takes the lock.
BuddyAlloc(c, k, worst) ==
    LET r == [order |-> k, worst |-> worst, at |-> "reach"] IN
    /\ request[c].at = "idle"
    /\ zone.length # <<>> \/ ~zone.embedded
    /\ IF k > zone.max_order /\ ~zone.embedded
       THEN request' = [request EXCEPT ![c] = r] ELSE Onward(c, zone, r)
    /\ UNCHANGED <<zone, strayed>>

\* The expansions of the call: for an order beyond the zone, for load, and
\* after the first try failed.  The heap may refuse.
Expand(c) ==
    LET r == request[c] IN
    /\ r.at \in {"reach", "grow", "regrow"}
    /\ \/ UNCHANGED zone
       \/ CanExpand /\ zone' = AddSegment(zone, Expansion(r.order))
    /\ CASE r.at = "reach" -> Onward(c, zone', r)
         [] r.at = "grow" -> Advances(c, "take")
         [] r.at = "regrow" -> IF zone' = zone THEN Finish(c) ELSE Advances(c, "retake")
    /\ UNCHANGED strayed

\* buddy_take_block
TakeBlock(c) ==
    LET k == request[c].order
        z == IF Candidates(zone, k) # {} THEN zone ELSE Defragment(zone, 0)
    IN /\ request[c].at \in {"take", "retake"}
       /\ zone' = IF Candidates(z, k) = {} THEN z ELSE Take(z, k, request[c].worst)
       /\ IF Candidates(z, k) = {} /\ request[c].at = "take" /\ ~zone.embedded
          THEN Advances(c, "regrow") ELSE Finish(c)
       /\ UNCHANGED strayed

-----------------------------------------------------------------------------
(* Free: merged with its pair as long as the pair is free and whole.        *)

RECURSIVE Coalesce(_, _, _)
Coalesce(z, b, k) ==
    IF k < z.max_order /\ PairIsFree(z, b, k)
    THEN LET c == Pair(b, k)
         IN Coalesce(Forget(Forget(ListRemove(z, k, c), b), c), Lower(b, c), k + 1)
    ELSE ListPush(z, k, b)

BuddyFree(b) ==
    LET k == zone.header[b].order IN
    /\ zone.header[b].in_use
    /\ zone' = Coalesce([zone EXCEPT !.bytes_in_use = @ - OrderSize(k),
                                     !.header[b].in_use = FALSE], b, k)
    /\ strayed' = (strayed \/ /\ k < zone.max_order /\ HasPair(zone, b, k)
                              /\ Pair(b, k) \notin DOMAIN zone.header)
    /\ UNCHANGED request

BuddyNext ==
    \/ \E b \in DOMAIN zone.header : BuddyFree(b)
    \/ \E c \in BuddyClients :
          \/ Expand(c) \/ TakeBlock(c)
          \/ \E k \in Orders, worst \in BOOLEAN : BuddyAlloc(c, k, worst)

BuddySpec == BuddyInit /\ [][BuddyNext]_buddyVars

-----------------------------------------------------------------------------
SumOver(pairs) == FoldSet(LAMBDA p, sum : p[2] + sum, 0, pairs)
Units(z, b) == {<<b[1], u>> : u \in b[2]..b[2] + OrderSize(z.header[b].order) - 1}

\* The blocks, free or used, tile every segment without overlap; the lists
\* hold exactly the free ones at their order; bytes_in_use counts the used
\* ones; two free halves never stay apart; and a pair that a free looks at is
\* always the start of a block.
BlocksTile ==
    LET blocks == DOMAIN zone.header
        listed == UNION {{<<k, zone.free[k][i]>> : i \in DOMAIN zone.free[k]} : k \in 0..TopOrder}
        used == {b \in blocks : zone.header[b].in_use}
    IN /\ UNION {Units(zone, b) : b \in blocks} =
              UNION {{<<s, u>> : u \in 0..zone.length[s] - 1} : s \in DOMAIN zone.length}
       /\ SumOver({<<b, OrderSize(zone.header[b].order)>> : b \in blocks}) = zone.pool_len
       /\ SumOver({<<b, OrderSize(zone.header[b].order)>> : b \in used}) = zone.bytes_in_use
       /\ listed = {<<zone.header[b].order, b>> : b \in blocks \ used}
       /\ \A k \in 0..TopOrder : IsInjective(zone.free[k])
       /\ \A b \in blocks \ used :
              LET k == zone.header[b].order
              IN k < zone.max_order => ~PairIsFree(zone, b, k)
       /\ ~strayed
=============================================================================
