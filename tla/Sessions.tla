------------------------------ MODULE Sessions ------------------------------
(***************************************************************************)
(* The session manager of src/src/net/session.c: sessions hang in a tree of *)
(* first_child and next_sibling links below the manager's head.  Closing a  *)
(* session retires it with everything below it.  Creating one prepares it   *)
(* unlocked and links it under the manager's lock, so that a close of the   *)
(* parent may come between.                                                 *)
(***************************************************************************)
EXTENDS Naturals, Sequences, FiniteSets

CONSTANTS NetClients,  \* threads that create and close
          SessionIds,  \* session objects, each created once
          NoSession    \* NULL

ASSUME SessionsAssumption == NoSession \notin SessionIds

VARIABLES links,     \* head, first_child, next_sibling and parent pointers
          opening,   \* client -> the session it has prepared
          flushed,   \* sessions given to ttak_epoch_retire, in order
          above,     \* session -> the ancestors it was linked below
          closed,    \* sessions that a caller closed
          orphans,   \* sessions linked below a parent retired meanwhile
          managed    \* the manager has not been destroyed

sessionVars == <<links, opening, flushed, above, closed, orphans, managed>>

All(v) == [s \in SessionIds |-> v]
Retired == {flushed[i] : i \in DOMAIN flushed}
Opening == {opening[c].session : c \in {d \in NetClients : opening[d] # NoSession}}
Linked == DOMAIN above
Alive == Linked \ (Retired \union orphans)

SessionsInit ==
    /\ links = [head |-> NoSession, first |-> All(NoSession), next |-> All(NoSession),
                parent |-> All(NoSession)]
    /\ opening = [c \in NetClients |-> NoSession]
    /\ flushed = <<>> /\ above = <<>> /\ closed = {} /\ orphans = {} /\ managed = TRUE

\* ttak_net_session_mgr_create, up to the lock: the parent is one that the
\* caller may still use.
Prepare(c, s, p) ==
    /\ managed /\ opening[c] = NoSession
    /\ s \notin Linked \union Opening
    /\ p = NoSession \/ p \in Alive
    /\ opening' = [opening EXCEPT ![c] = [session |-> s, parent |-> p]]
    /\ UNCHANGED <<links, flushed, above, closed, orphans, managed>>

\* The link under the lock, first among its siblings.
Link(c) ==
    LET s == opening[c].session
        p == opening[c].parent
        late == p # NoSession /\ p \notin Alive
    IN /\ managed /\ opening[c] # NoSession
       /\ links' = IF p = NoSession
                   THEN [links EXCEPT !.next[s] = links.head, !.head = s]
                   ELSE [links EXCEPT !.next[s] = links.first[p], !.first[p] = s, !.parent[s] = p]
       /\ above' = [x \in Linked \union {s} |->
                       IF x # s THEN above[x]
                       ELSE IF p = NoSession THEN {} ELSE {p} \union above[p]]
       /\ orphans' = IF late THEN orphans \union {s} ELSE orphans
       /\ opening' = [opening EXCEPT ![c] = NoSession]
       /\ UNCHANGED <<flushed, closed, managed>>

\* detach_locked: the pointer to s in the list of its parent, or of the
\* manager, is replaced by its successor.
DetachMutant(l, s) ==   \* mutant: the manager's list whoever the parent is
    LET before == {x \in SessionIds : l.next[x] = s}
        skip == IF l.head = s THEN [l EXCEPT !.head = l.next[s]]
                ELSE IF l.parent[s] # NoSession \/ before = {} THEN l
                ELSE [l EXCEPT !.next[CHOOSE x \in before : TRUE] = l.next[s]]
    IN [skip EXCEPT !.next[s] = NoSession, !.parent[s] = NoSession]
Detach(l, s) ==
    LET p == l.parent[s]
        before == {x \in SessionIds : l.next[x] = s}
        skip == IF p = NoSession /\ l.head = s THEN [l EXCEPT !.head = l.next[s]]
                ELSE IF p # NoSession /\ l.first[p] = s THEN [l EXCEPT !.first[p] = l.next[s]]
                ELSE IF before = {} THEN l
                ELSE [l EXCEPT !.next[CHOOSE x \in before : TRUE] = l.next[s]]
    IN [skip EXCEPT !.next[s] = NoSession, !.parent[s] = NoSession]

\* mark_for_retire: the children first, then s itself goes on the retire list.
RECURSIVE MarkForRetire(_, _), MarkList(_, _)
MarkList(m, s) ==
    IF s = NoSession THEN m
    ELSE MarkList(MarkForRetire(m, s), m.links.next[s])
MarkForRetire(m, s) ==
    LET below == MarkList(m, m.links.first[s])
    IN [links |-> Detach([below.links EXCEPT !.first[s] = NoSession], s),
        pending |-> <<s>> \o below.pending]

Flush(m) == links' = m.links /\ flushed' = flushed \o m.pending
Unmarked == [links |-> links, pending |-> <<>>]

\* ttak_net_session_mgr_close, by a caller that may still use the session.
SessionClose(s) ==
    /\ managed /\ s \in Alive
    /\ Flush(MarkForRetire(Unmarked, s))
    /\ closed' = closed \union {s}
    /\ UNCHANGED <<opening, above, orphans, managed>>

\* ttak_net_session_mgr_destroy, when no call is under way.
SessionsDestroy ==
    /\ managed /\ Opening = {}
    /\ Flush(MarkList(Unmarked, links.head))
    /\ managed' = FALSE
    /\ UNCHANGED <<opening, above, closed, orphans>>

SessionsNext ==
    \/ SessionsDestroy
    \/ \E s \in SessionIds : SessionClose(s)
    \/ \E c \in NetClients :
          \/ Link(c)
          \/ \E s \in SessionIds, p \in SessionIds \union {NoSession} : Prepare(c, s, p)

-----------------------------------------------------------------------------
RECURSIVE Reached(_)
Reached(s) == IF s = NoSession THEN <<>>
              ELSE <<s>> \o Reached(links.first[s]) \o Reached(links.next[s])

\* Closing retires a session once, and with it what was linked below it and
\* nothing else; the links reach every other session once, and a session is
\* found in the list of its parent.  (Sessions linked below a parent that was
\* retired meanwhile are lost: nothing reaches or retires them.)
SessionTree ==
    LET reached == Reached(links.head) IN
    /\ Len(flushed) = Cardinality(Retired)
    /\ managed => Retired = {s \in Linked \ orphans : ({s} \union above[s]) \intersect closed # {}}
    /\ {reached[i] : i \in DOMAIN reached} = Alive
    /\ Len(reached) = Cardinality(Alive)
    /\ \A s \in Alive : links.parent[s] # NoSession => links.parent[s] \in above[s] \intersect Alive
=============================================================================
