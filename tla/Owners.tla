------------------------------- MODULE Owners --------------------------------
(***************************************************************************)
(* The resource map of an owner (src/src/mem/owner.c): one table that holds *)
(* name -> pointer for lookups and pointer -> name so that ttak_mem_unuse   *)
(* finds the binding of a pointer.  Each operation holds the owner's lock;  *)
(* a transfer holds the two locks one after the other.                      *)
(***************************************************************************)
EXTENDS FiniteSets

CONSTANTS Holders,            \* the owners
          Names, Resources,   \* keys: hashed names and pointers
          Carriers,           \* threads that transfer
          Absent              \* no entry

ASSUME OwnersAssumption == /\ Names \intersect Resources = {}
                           /\ Absent \notin Names \union Resources

VARIABLES
    resources,   \* owner -> key -> value
    carried,     \* thread -> the binding it has taken from one owner
    overwritten  \* owners that were given a name they had bound already

ownersVars == <<resources, carried, overwritten>>

OwnersInit ==
    /\ resources = [o \in Holders |-> [k \in Names \union Resources |-> Absent]]
    /\ carried = [t \in Carriers |-> Absent]
    /\ overwritten = {}

Unbind(m, k) == IF k = Absent THEN m ELSE [m EXCEPT ![k] = Absent]
Bind(m, n, d) == [m EXCEPT ![n] = d, ![d] = n]

\* The pointer the name was bound to before loses its reverse entry.
DropOldMutant(m, n, d) == m           \* mutant: the old pointer keeps it
DropOld(m, n, d) == IF m[n] = d THEN m ELSE Unbind(m, m[n])

\* The name the pointer was bound to before loses its entry.
DropName(m, d) == Unbind(m, m[d])

\* ttak_owner_register_resource
Register(o, n, d) ==
    LET m == resources[o] IN
    /\ resources' = [resources EXCEPT ![o] = Bind(DropName(DropOld(m, n, d), d), n, d)]
    /\ UNCHANGED <<carried, overwritten>>

\* ttak_owner_transfer_resource, first half: taken from one owner.
TransferTake(t, o, n) ==
    LET d == resources[o][n] IN
    /\ carried[t] = Absent /\ d # Absent
    /\ resources' = [resources EXCEPT ![o] = Unbind(Unbind(@, n), d)]
    /\ carried' = [carried EXCEPT ![t] = <<n, d>>]
    /\ UNCHANGED overwritten

\* Second half: given to the other.  The reverse entry of a pointer that the
\* name was bound to there stays.
TransferGive(t, o) ==
    LET n == carried[t][1]
        d == carried[t][2]
        m == resources[o]
    IN /\ carried[t] # Absent
       /\ resources' = [resources EXCEPT ![o] = Bind(DropName(m, d), n, d)]
       /\ carried' = [carried EXCEPT ![t] = Absent]
       /\ overwritten' = IF m[n] \in {Absent, d} THEN overwritten ELSE overwritten \union {o}

\* ttak_mem_unuse removes the pointer and the name its reverse entry gives.
Unuse(o, d) ==
    /\ resources[o][d] # Absent
    /\ resources' = [resources EXCEPT ![o] = Unbind(Unbind(@, @[d]), d)]
    /\ UNCHANGED <<carried, overwritten>>

OwnersNext ==
    \/ \E o \in Holders, n \in Names, d \in Resources : Register(o, n, d)
    \/ \E t \in Carriers, o \in Holders :
          \/ TransferGive(t, o)
          \/ \E n \in Names : TransferTake(t, o, n)
    \/ \E o \in Holders, d \in Resources : Unuse(o, d)

OwnersSpec == OwnersInit /\ [][OwnersNext]_ownersVars

-----------------------------------------------------------------------------
\* Forward and reverse entries of an owner mirror each other, so that unuse
\* removes the binding of its own pointer: every name has its mirror entry in
\* every owner, and every pointer in an owner that was never handed a name it
\* had bound already.
OwnerBindings ==
    \A o \in Holders :
        LET m == resources[o] IN
        /\ \A n \in Names : m[n] # Absent => m[m[n]] = n
        /\ o \in overwritten \/ \A d \in Resources : m[d] # Absent => m[m[d]] = d
=============================================================================
