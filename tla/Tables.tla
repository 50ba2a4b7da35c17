------------------------------- MODULE Tables -------------------------------
(***************************************************************************)
(* The open-addressing hash table (src/src/ht/table.c; ht/map.c is the same *)
(* algorithm for word keys, container/set.c a wrapper).  A slot is Empty,   *)
(* Deleted or holds a key and its value.  Probing starts at the hash and    *)
(* wraps at capacity + MAX_PROBE - 1, so the slots are a ring of that size. *)
(***************************************************************************)
EXTENDS Naturals, FiniteSets

CONSTANTS TableKeys, TableValues,
          TableHash,      \* key -> hash
          TableCapacity,  \* initial capacity, a power of two
          MaxProbe,       \* MAX_PROBE
          NoEntry         \* lookup of an absent key

ASSUME TablesAssumption == /\ TableCapacity \in Nat \ {0} /\ MaxProbe \in Nat \ {0, 1}
                           /\ TableHash \in [TableKeys -> Nat]
                           /\ NoEntry \notin TableValues

VARIABLES table,    \* capacity, slots, size, tombstones, is_static
          entries,  \* key -> value, what the calls so far have stored
          endless   \* a probe that met no EMPTY slot: the call never returns

Empty == [state |-> "empty"]
Deleted == [state |-> "deleted"]
Occupied(k, v) == [state |-> "occupied", key |-> k, value |-> v]

Cleared(capacity, static) ==
    [capacity |-> capacity, size |-> 0, tombstones |-> 0, is_static |-> static,
     slots |-> [i \in 0..capacity + MaxProbe - 2 |-> Empty]]

TableInit == /\ \E static \in BOOLEAN : table = Cleared(TableCapacity, static)
             /\ entries = [k \in TableKeys |-> NoEntry]
             /\ endless = FALSE

\* The slots in probe order for key k, and the probe that ends the walk: the
\* key's slot or the first EMPTY one.
ProbeSlot(t, k, j) == ((TableHash[k] % t.capacity) + j) % (t.capacity + MaxProbe - 1)
At(t, k, j) == t.slots[ProbeSlot(t, k, j)]
Probes(t) == 0..t.capacity + MaxProbe - 2
Ends(t, k, j) == \/ At(t, k, j) = Empty
                 \/ At(t, k, j).state = "occupied" /\ At(t, k, j).key = k
Returns(t, k) == \E j \in Probes(t) : Ends(t, k, j)
Stop(t, k) == CHOOSE j \in Probes(t) : Ends(t, k, j) /\ \A i \in 0..j - 1 : ~Ends(t, k, i)
Hit(t, k) == At(t, k, Stop(t, k)) # Empty

\* The insert core: replace on a hit, else the first tombstone on the way or
\* the EMPTY slot.
Tombs(t, k) == {j \in 0..Stop(t, k) : At(t, k, j) = Deleted}
Insert(t, k, v) ==
    LET tombs == Tombs(t, k)
        j == IF tombs = {} \/ Hit(t, k) THEN Stop(t, k)
             ELSE CHOOSE i \in tombs : \A n \in tombs : i <= n
        put == [t EXCEPT !.slots[ProbeSlot(t, k, j)] = Occupied(k, v)]
    IN IF Hit(t, k) THEN put
       ELSE [put EXCEPT !.size = @ + 1,
                        !.tombstones = IF tombs = {} THEN @ ELSE @ - 1]

\* ttak_table_rehash: the live entries in slot order into fresh arrays.
Rehash(t, capacity) ==
    LET live[i \in 0..t.capacity + MaxProbe - 1] ==
            IF i = 0 THEN Cleared(capacity, t.is_static)
            ELSE LET s == t.slots[i-1]
                 IN IF s.state = "occupied" THEN Insert(live[i-1], s.key, s.value)
                    ELSE live[i-1]
    IN live[t.capacity + MaxProbe - 1]

LoadedMutant(t) == t.size * 10 >= t.capacity * 7   \* mutant: tombstones not counted
Loaded(t) == (t.size + t.tombstones) * 10 >= t.capacity * 7

Roomy(t) == IF t.is_static \/ ~Loaded(t) THEN t
            ELSE Rehash(t, IF t.size * 10 >= t.capacity * 7 THEN t.capacity * 2 ELSE t.capacity)

Hang == endless' = TRUE /\ UNCHANGED <<table, entries>>

TablePut(k, v, replace) ==
    LET t == Roomy(table) IN
    IF ~Returns(t, k) THEN Hang
    ELSE /\ table' = IF Hit(t, k) /\ ~replace THEN t ELSE Insert(t, k, v)
         /\ entries' = IF Hit(t, k) /\ ~replace THEN entries ELSE [entries EXCEPT ![k] = v]
         /\ UNCHANGED endless

TableGet(t, k) == LET e == At(t, k, Stop(t, k)) IN IF e = Empty THEN NoEntry ELSE e.value
TableLookup(k) == ~Returns(table, k) /\ Hang

TableRemove(k) ==
    IF ~Returns(table, k) THEN Hang
    ELSE /\ Hit(table, k)
         /\ table' = [table EXCEPT !.slots[ProbeSlot(table, k, Stop(table, k))] = Deleted,
                                   !.size = @ - 1, !.tombstones = @ + 1]
         /\ entries' = [entries EXCEPT ![k] = NoEntry]
         /\ UNCHANGED endless

TableNext ==
    /\ ~endless
    /\ \E k \in TableKeys :
          \/ \E v \in TableValues, replace \in BOOLEAN : TablePut(k, v, replace)
          \/ TableRemove(k)
          \/ TableLookup(k)

tableVars == <<table, entries, endless>>
TableSpec == TableInit /\ [][TableNext]_tableVars

\* Every stored key is found with its last value and no other key is, the
\* counters count the slots, and a probe of a dynamic table always ends: one
\* slot at least is EMPTY.  (A static table never rehashes; deletions can use
\* up its EMPTY slots and then a call with an absent key does not return.)
TableFinds ==
    /\ \A k \in TableKeys : Returns(table, k) => TableGet(table, k) = entries[k]
    /\ table.size = Cardinality({k \in TableKeys : entries[k] # NoEntry})
    /\ table.tombstones = Cardinality({i \in DOMAIN table.slots : table.slots[i] = Deleted})
    /\ table.is_static \/ (~endless /\ \E i \in DOMAIN table.slots : table.slots[i] = Empty)
=============================================================================
