----------------------------- MODULE SearchTrees -----------------------------
(***************************************************************************)
(* The two search trees of src/src/tree: the B-tree (btree.c), which splits *)
(* full children on the way down and adds an entry even for a key it has,   *)
(* and the B+ tree (bplus.c), which splits on the way up and replaces the   *)
(* value of a key it has.  Neither removes keys.                            *)
(***************************************************************************)
EXTENDS Naturals, Sequences, SequencesExt

CONSTANTS BTreeKeys, BPlusKeys, BPlusValues,
          Degree,      \* t of the B-tree
          BPlusOrder,  \* order of the B+ tree
          MaxInserts,  \* bound on the insertions into the B-tree
          NotFound

ASSUME SearchTreesAssumption ==
    /\ BTreeKeys \subseteq Nat /\ BPlusKeys \subseteq Nat
    /\ Degree \in Nat \ {0, 1} /\ BPlusOrder \in Nat \ {0, 1, 2}

VARIABLES btree, inserted,   \* root node; keys inserted, in order (value = position)
          nodes, root, held  \* B+ nodes by number; root's; key -> value expected

-----------------------------------------------------------------------------
(* The B-tree: a node is its entries <<key, value>> and, unless a leaf, one *)
(* child more than entries.                                                 *)

Leaf(e) == [entries |-> e, children |-> <<>>]
IsLeaf(x) == x.children = <<>>
IsFull(x) == Len(x.entries) = 2 * Degree - 1

BTreeInit == btree = Leaf(<<>>) /\ inserted = <<>>

\* split_child: the median of the full child i moves up into x.
SplitChild(x, i) ==
    LET y == x.children[i]
        half(from, to) == [entries |-> SubSeq(y.entries, from, to),
                           children |-> IF IsLeaf(y) THEN <<>> ELSE SubSeq(y.children, from, to + 1)]
    IN [entries |-> InsertAt(x.entries, i, y.entries[Degree]),
        children |-> InsertAt([x.children EXCEPT ![i] = half(1, Degree - 1)], i + 1,
                              half(Degree + 1, 2 * Degree - 1))]

\* The first entry greater than k, or not smaller than k.
UpperBound(x, k) == 1 + Len(SelectSeq(x.entries, LAMBDA e : e[1] <= k))
LowerBound(x, k) == 1 + Len(SelectSeq(x.entries, LAMBDA e : e[1] < k))

\* After a split, the half that the key belongs to.
Side(x, i, k) == IF k > x.entries[i][1] THEN i + 1 ELSE i

RECURSIVE InsertNonFull(_, _, _)
InsertNonFull(x, k, v) ==
    LET i == UpperBound(x, k) IN
    IF IsLeaf(x) THEN Leaf(InsertAt(x.entries, i, <<k, v>>))
    ELSE LET s == IF IsFull(x.children[i]) THEN SplitChild(x, i) ELSE x
             j == IF s = x THEN i ELSE Side(s, i, k)
         IN [s EXCEPT !.children[j] = InsertNonFull(@, k, v)]

BTreeInsert(k) ==
    LET v == Len(inserted) + 1
        top == IF IsFull(btree) THEN SplitChild([entries |-> <<>>, children |-> <<btree>>], 1)
               ELSE btree
    IN /\ Len(inserted) < MaxInserts
       /\ btree' = InsertNonFull(top, k, v)
       /\ inserted' = Append(inserted, k)

RECURSIVE SearchFrom(_, _)
SearchFrom(x, k) ==
    LET i == LowerBound(x, k) IN
    IF i <= Len(x.entries) /\ x.entries[i][1] = k THEN x.entries[i][2]
    ELSE IF IsLeaf(x) THEN NotFound ELSE SearchFrom(x.children[i], k)
BTreeSearch(k) == SearchFrom(btree, k)

BTreeNext == \E k \in BTreeKeys : BTreeInsert(k)

RECURSIVE Entries(_), Height(_), Filled(_)
Entries(x) ==
    IF IsLeaf(x) THEN x.entries
    ELSE LET run[i \in 1..Len(x.children)] ==
                 IF i = 1 THEN Entries(x.children[1])
                 ELSE run[i-1] \o <<x.entries[i-1]>> \o Entries(x.children[i])
         IN run[Len(x.children)]
Height(x) == IF IsLeaf(x) THEN 0 ELSE 1 + Height(x.children[1])
Filled(x) ==
    \A i \in DOMAIN x.children :
        LET y == x.children[i]
        IN Len(y.entries) \in Degree - 1..2 * Degree - 1 /\ Height(y) = Height(x.children[1]) /\ Filled(y)

\* Nodes keep their sizes, leaves their depth and entries their order, and a key
\* that was inserted once has one entry, whose value a search returns; one that
\* was not inserted has none.  Keys inserted again are left out: btree.c:146
\* says "Insert or update", and the code adds a second entry and goes on
\* returning either value.  Their entries must not hide other keys, though.
BTreeFinds ==
    LET all == Entries(btree)
        of(k) == {v \in DOMAIN inserted : inserted[v] = k}
    IN /\ \A i \in 2..Len(all) : all[i-1][1] <= all[i][1]
       /\ Filled(btree)
       /\ \A k \in BTreeKeys :
             /\ of(k) = {} => BTreeSearch(k) = NotFound
             /\ \A v \in of(k) : of(k) = {v} =>
                   /\ BTreeSearch(k) = v
                   /\ SelectSeq(all, LAMBDA e : e[1] = k) = <<<<k, v>>>>

-----------------------------------------------------------------------------
(* The B+ tree: values in the leaves, which are chained by next; number 0   *)
(* is NULL.  An inner node has one child more than keys.                    *)

BPlusInit == nodes = <<>> /\ root = 0 /\ held = [k \in BPlusKeys |-> NotFound]

\* The child below key k: keys equal to a separator are to its right.
Below(n, k) == n.children[1 + Len(SelectSeq(n.keys, LAMBDA s : s <= k))]

RECURSIVE PathTo(_, _)
PathTo(id, k) ==
    IF nodes[id].leaf THEN <<id>> ELSE <<id>> \o PathTo(Below(nodes[id], k), k)

SplitAt == (BPlusOrder + 1) \div 2

\* insert_parent: the separator enters the parent, which may split in turn;
\* its middle key moves up.  parents is the path above left.
RECURSIVE InsertParent(_, _, _, _, _, _)
InsertParent(ns, top, left, key, right, parents) ==
    IF parents = <<>>
    THEN [nodes |-> Append(ns, [leaf |-> FALSE, keys |-> <<key>>, children |-> <<left, right>>]),
          root |-> Len(ns) + 1]
    ELSE LET id == parents[Len(parents)]
             at == CHOOSE i \in DOMAIN ns[id].children : ns[id].children[i] = left
             p == [leaf |-> FALSE, keys |-> InsertAt(ns[id].keys, at, key),
                   children |-> InsertAt(ns[id].children, at + 1, right)]
             n == Len(p.keys)
             upper == [leaf |-> FALSE, keys |-> SubSeq(p.keys, SplitAt + 2, n),
                       children |-> SubSeq(p.children, SplitAt + 2, n + 1)]
             lower == [leaf |-> FALSE, keys |-> SubSeq(p.keys, 1, SplitAt),
                       children |-> SubSeq(p.children, 1, SplitAt + 1)]
         IN IF n < BPlusOrder THEN [nodes |-> [ns EXCEPT ![id] = p], root |-> top]
            ELSE InsertParent(Append([ns EXCEPT ![id] = lower], upper), top, id,
                              p.keys[SplitAt + 1], Len(ns) + 1, SubSeq(parents, 1, Len(parents) - 1))

\* The separator of two leaves.
SeparatorMutant(lower, upper) == lower.keys[Len(lower.keys)]  \* mutant: the left leaf's last key
Separator(lower, upper) == upper.keys[1]

BPlusInsert(k, v) ==
    /\ held' = [held EXCEPT ![k] = v]
    /\ IF root = 0
       THEN /\ nodes' = <<[leaf |-> TRUE, keys |-> <<k>>, values |-> <<v>>, next |-> 0]>>
            /\ root' = 1
       ELSE LET path == PathTo(root, k)
                id == path[Len(path)]
                leaf == nodes[id]
                i == 1 + Len(SelectSeq(leaf.keys, LAMBDA s : s < k))
                wide == [leaf EXCEPT !.keys = InsertAt(@, i, k), !.values = InsertAt(@, i, v)]
                n == Len(wide.keys)
                new == Len(nodes) + 1
                lower == [wide EXCEPT !.keys = SubSeq(@, 1, SplitAt), !.values = SubSeq(@, 1, SplitAt),
                                      !.next = new]
                upper == [wide EXCEPT !.keys = SubSeq(@, SplitAt + 1, n),
                                      !.values = SubSeq(@, SplitAt + 1, n)]
                above == InsertParent(Append([nodes EXCEPT ![id] = lower], upper), root, id,
                                      Separator(lower, upper), new, SubSeq(path, 1, Len(path) - 1))
            IN IF i <= Len(leaf.keys) /\ leaf.keys[i] = k
               THEN nodes' = [nodes EXCEPT ![id].values[i] = v] /\ UNCHANGED root
               ELSE IF n < BPlusOrder
               THEN nodes' = [nodes EXCEPT ![id] = wide] /\ UNCHANGED root
               ELSE nodes' = above.nodes /\ root' = above.root

BPlusGet(k) ==
    LET path == PathTo(root, k)
        leaf == nodes[path[Len(path)]]
        hits == {i \in DOMAIN leaf.keys : leaf.keys[i] = k}
    IN IF root = 0 \/ hits = {} THEN NotFound ELSE leaf.values[CHOOSE i \in hits : TRUE]

BPlusNext == \E k \in BPlusKeys, v \in BPlusValues : BPlusInsert(k, v)

RECURSIVE Chain(_)
Chain(id) == IF id = 0 THEN <<>> ELSE nodes[id].keys \o Chain(nodes[id].next)

\* Every key is found with its last value, also when splits went through
\* several levels, the leaf chain lists the keys in order, and every node
\* fits its arrays and has one child more than keys.
BPlusOrdered ==
    /\ \A k \in BPlusKeys : BPlusGet(k) = held[k]
    /\ root # 0 =>
          LET first == CHOOSE id \in DOMAIN nodes :
                           nodes[id].leaf /\ \A j \in DOMAIN nodes :
                               nodes[j].leaf => nodes[j].next # id
              keys == Chain(first)
          IN /\ \A i \in 2..Len(keys) : keys[i-1] < keys[i]
             /\ {keys[i] : i \in DOMAIN keys} = {k \in BPlusKeys : held[k] # NotFound}
    /\ \A id \in DOMAIN nodes :
          /\ Len(nodes[id].keys) < BPlusOrder
          /\ nodes[id].leaf \/ Len(nodes[id].children) = Len(nodes[id].keys) + 1

\* Both trees find what was inserted and keep their order (btree.c:112,
\* bplus.c:160), the B+ tree with the value a key was given last, the B-tree for
\* keys that are not inserted twice.
TreesFind == BTreeFinds /\ BPlusOrdered
=============================================================================
