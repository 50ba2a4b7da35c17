----------------------------- MODULE Detachable ------------------------------
(***************************************************************************)
(* A detachable arena (src/src/mem/detachable.c) with locked access:        *)
(* generation rows that track what was handed out, the cache of small       *)
(* chunks, the quarantine of chunks freed in quick succession, and the four *)
(* stages of a free, each under the lock it takes in the code.  Chunks have *)
(* one size, small enough for cache and quarantine; "released" is free() or *)
(* the hand-over to the epoch manager.                                      *)
(***************************************************************************)
EXTENDS Integers, Sequences, SequencesExt, FiniteSets, FiniteSetsExt

CONSTANTS Clients,      \* threads that allocate and free
          Chunks,       \* addresses that calloc can return, each once
          Null,
          MatrixRows, Generations, EpochDelay,    \* rows, their length, the advance
          CacheSlots, QuarantineLimit,
          Flags         \* the sets of flags an arena may have: "urgent"
                        \* (IS_URGENT_TASK), "ebr" (HAS_EPOCH_RECLAMATION),
                        \* "detached" (its chunks are detached, never cached) and
                        \* "flip" (its thresholds allow the quarantine)

ASSUME DetachableAssumption ==
    /\ Null \notin Chunks /\ IsFiniteSet(Clients)
    /\ MatrixRows \in Nat \ {0} /\ Generations \in Nat \ {0} /\ EpochDelay \in Nat \ {0}
    /\ CacheSlots \in Nat \ {0} /\ QuarantineLimit \in Nat \ {0}
    /\ Flags \subseteq SUBSET {"urgent", "ebr", "detached", "flip"}
    /\ \A f \in Flags : "detached" \in f => "ebr" \in f

VARIABLES
    flags,                       \* those of the arena
    rows, activeRow,             \* tracked chunks; an untracked one leaves Null
    slots, head, tail, cached,   \* the ring of the cache and its count
    quarantine,                  \* chunks held back
    fresh,                       \* addresses not yet returned by calloc
    owned,                       \* the chunks each client was given and may use
    stage, hand, kept,           \* of a call: its step, its chunk, whether that was kept
    released,                    \* how often a chunk was released (2 means more than once)
    evicted                      \* chunks released by the flush of their row

arenaVars == <<flags, rows, activeRow, slots, head, tail, cached, quarantine, fresh, owned,
               stage, hand, kept, released, evicted>>

ArenaInit ==
    /\ flags \in Flags
    /\ rows = [r \in 0 .. MatrixRows - 1 |-> <<>>] /\ activeRow = 0
    /\ slots = [i \in 0 .. CacheSlots - 1 |-> Null] /\ head = 0 /\ tail = 0 /\ cached = 0
    /\ quarantine = <<>>
    /\ fresh = Chunks
    /\ owned = [t \in Clients |-> {}]
    /\ stage = [t \in Clients |-> "idle"]
    /\ hand = [t \in Clients |-> Null]
    /\ kept = [t \in Clients |-> FALSE]
    /\ released = [p \in Chunks |-> 0]
    /\ evicted = {}

Go(t, from, to) == stage[t] = from /\ stage' = [stage EXCEPT ![t] = to]
Releasing(s) == released' = [p \in Chunks |-> IF p \in s THEN Min({2, released[p] + 1})
                                              ELSE released[p]]
matrix == <<rows, activeRow, flags>>
cache == <<slots, head, tail, cached>>

-----------------------------------------------------------------------------
(* ttak_detachable_mem_alloc *)

\* ttak_detachable_cache_take: the oldest cached chunk.
TakeCached(t) ==
    /\ Go(t, "idle", "track") /\ cached > 0
    /\ hand' = [hand EXCEPT ![t] = slots[head]]
    /\ slots' = [slots EXCEPT ![head] = Null]
    /\ head' = (head + 1) % CacheSlots
    /\ cached' = cached - 1
    /\ UNCHANGED <<matrix, tail, quarantine, fresh, owned, kept, released, evicted>>

\* The cache is empty: calloc.  Unused chunks are alike, so it takes any one.
Unused == CHOOSE p \in fresh : TRUE

TakeFresh(t) ==
    /\ Go(t, "idle", "track") /\ cached = 0 /\ fresh # {}
    /\ hand' = [hand EXCEPT ![t] = Unused]
    /\ fresh' = fresh \ {Unused}
    /\ UNCHANGED <<matrix, cache, quarantine, owned, kept, released, evicted>>

Full == Len(rows[activeRow]) >= Generations

\* ttak_detachable_track_pointer: a full row is flushed, whoever still uses
\* what it tracks, and the next generation begins in a later row.
Track(t) ==
    LET next == (activeRow + EpochDelay) % MatrixRows
        tracked == ToSet(rows[activeRow]) \ {Null}
    IN /\ Go(t, "track", "idle")
       /\ IF Full
          THEN /\ activeRow' = next
               /\ rows' = [[rows EXCEPT ![activeRow] = <<>>]
                                EXCEPT ![next] = Append(@, hand[t])]
               /\ Releasing(tracked)
               /\ evicted' = evicted \union tracked
          ELSE /\ rows' = [rows EXCEPT ![activeRow] = Append(@, hand[t])]
               /\ UNCHANGED <<activeRow, released, evicted>>
       /\ owned' = [u \in Clients |-> (owned[u] \union (IF u = t THEN {hand[t]} ELSE {})) \ evicted']
       /\ hand' = [hand EXCEPT ![t] = Null]
       /\ UNCHANGED <<flags, cache, quarantine, fresh, kept>>

-----------------------------------------------------------------------------
(* ttak_detachable_mem_free, by a client that owns the chunk and whose chunk *)
(* was not released with its generation.                                     *)

\* ttak_detachable_flip_should_quarantine: whether frees follow each other fast
\* enough is up to the clock, unless the thresholds are 0; a full quarantine
\* is never added to.
MayQuarantine == "flip" \in flags /\ Len(quarantine) < QuarantineLimit

FreeChunk(t, p, hot) ==
    /\ p \in owned[t]
    /\ hot => MayQuarantine
    /\ Go(t, "idle", CASE hot -> "quarantine" [] "detached" \in flags -> "untrack" [] OTHER -> "store")
    /\ hand' = [hand EXCEPT ![t] = p]
    /\ owned' = [owned EXCEPT ![t] = @ \ {p}]
    /\ UNCHANGED <<matrix, cache, quarantine, fresh, kept, released, evicted>>

\* ttak_detachable_quarantine_push, which empties the quarantine before it
\* would exceed its limit.
Quarantine(t) ==
    /\ Go(t, "quarantine", "untrack")
    /\ IF Len(quarantine) + 1 > QuarantineLimit
       THEN /\ Releasing(ToSet(quarantine))
            /\ quarantine' = <<hand[t]>>
       ELSE /\ quarantine' = Append(quarantine, hand[t])
            /\ UNCHANGED released
    /\ kept' = [kept EXCEPT ![t] = TRUE]
    /\ UNCHANGED <<matrix, cache, fresh, owned, hand, evicted>>

\* The push finds no memory for a longer quarantine.
QuarantineFails(t) ==
    /\ Go(t, "quarantine", "untrack")
    /\ UNCHANGED <<matrix, cache, quarantine, fresh, owned, hand, kept, released, evicted>>

VictimMutant == {}                       \* mutant: the victim is overwritten, not released
Victim == {slots[head]} \ {Null}

\* ttak_detachable_cache_store: a full cache refuses, or gives up its oldest
\* chunk in an urgent arena.
Store(t) ==
    /\ Go(t, "store", "untrack")
    /\ IF cached = CacheSlots /\ "urgent" \notin flags
       THEN UNCHANGED <<cache, kept, released>>
       ELSE /\ slots' = [slots EXCEPT ![tail] = hand[t]]
            /\ tail' = (tail + 1) % CacheSlots
            /\ kept' = [kept EXCEPT ![t] = TRUE]
            /\ IF cached = CacheSlots
               THEN /\ Releasing(Victim)
                    /\ head' = (head + 1) % CacheSlots
                    /\ UNCHANGED cached
               ELSE /\ cached' = cached + 1
                    /\ UNCHANGED <<head, released>>
    /\ UNCHANGED <<matrix, quarantine, fresh, owned, hand, evicted>>

\* ttak_detachable_untrack_pointer: the first entry of the chunk becomes a hole;
\* a chunk that is neither kept nor, with epochs, untracked already is released.
Untrack(t) ==
    LET p == hand[t]
        where == {r \in DOMAIN rows : p \in ToSet(rows[r])}
        r == Min(where)
    IN /\ Go(t, "untrack", "idle")
       /\ rows' = IF where = {} THEN rows
                  ELSE [rows EXCEPT ![r][SelectInSeq(rows[r], LAMBDA q : q = p)] = Null]
       /\ IF kept[t] \/ (where = {} /\ "ebr" \in flags) THEN UNCHANGED released ELSE Releasing({p})
       /\ hand' = [hand EXCEPT ![t] = Null]
       /\ kept' = [kept EXCEPT ![t] = FALSE]
       /\ UNCHANGED <<flags, activeRow, cache, quarantine, fresh, owned, evicted>>

\* ttak_detachable_context_destroy, when no call is under way: rows, cache and
\* quarantine are released in this order.
ArenaDestroy ==
    LET tracked == (UNION {ToSet(rows[r]) : r \in DOMAIN rows}) \ {Null}
        resting == (Range(slots) \union ToSet(quarantine)) \ {Null}
    IN /\ \A t \in Clients : stage[t] = "idle"
       /\ stage' = [t \in Clients |-> "destroyed"]
       /\ released' = [p \in Chunks |->
             Min({2, released[p] + (IF p \in tracked THEN 1 ELSE 0)
                                 + (IF p \in resting THEN 1 ELSE 0)})]
       /\ rows' = [r \in DOMAIN rows |-> <<>>]
       /\ slots' = [i \in DOMAIN slots |-> Null]
       /\ head' = 0 /\ tail' = 0 /\ cached' = 0
       /\ quarantine' = <<>>
       /\ owned' = [t \in Clients |-> {}]
       /\ UNCHANGED <<flags, activeRow, fresh, hand, kept, evicted>>

ArenaNext ==
    \/ \E t \in Clients :
          \/ TakeCached(t) \/ TakeFresh(t) \/ Track(t) \/ Quarantine(t) \/ QuarantineFails(t) \/ Store(t)
          \/ Untrack(t)
          \/ \E p \in Chunks, hot \in BOOLEAN : FreeChunk(t, p, hot)
    \/ ArenaDestroy

ArenaSpec == ArenaInit /\ [][ArenaNext]_arenaVars

-----------------------------------------------------------------------------

\* In how many places a chunk is: with a client (or a call that has not yet
\* passed it on), in the cache, in the quarantine, or released.
Places(p) ==
    Cardinality({t \in Clients : p \in owned[t] \/ (hand[t] = p /\ ~kept[t])})
    + Cardinality({i \in DOMAIN slots : slots[i] = p})
    + Cardinality({i \in DOMAIN quarantine : quarantine[i] = p})
    + released[p]

\* A chunk that no row flush released is in exactly one place: it is not
\* handed out twice, released twice, released while cached, or lost, however
\* the stages of calls interleave and up to the destruction of the arena.
\* The ring of the cache holds exactly the chunks between head and tail, and no
\* row is ever longer than the block allocated for it: every row but the
\* active one is empty when the arena moves on to it.
ChunkInOnePlace ==
    /\ \A p \in Chunks \ (evicted \union fresh) : Places(p) = 1
    /\ cached \in 0 .. CacheSlots /\ tail = (head + cached) % CacheSlots
    /\ \A i \in 0 .. CacheSlots - 1 :
          slots[(head + i) % CacheSlots] # Null <=> i < cached
    /\ \A r \in DOMAIN rows : Len(rows[r]) <= IF r = activeRow THEN Generations ELSE 0
=============================================================================
