--------------------------- MODULE ResourceProofs ----------------------------
(***************************************************************************)
(* Proofs about what belongs to whom: the two directions of an owner's      *)
(* resource map, the descriptors of a shared endpoint, the chunks of a      *)
(* detachable arena, and the slots of the lattice.                          *)
(***************************************************************************)
EXTENDS Owners, Endpoint, Detachable, Lattice, FiniteSetTheorems, WellFoundedInduction,
        SequenceTheorems, TLAPS

(***************************************************************************)
(* Owners.                                                                  *)
(***************************************************************************)

\* A table binds names to pointers and pointers to names.
Table(m) ==
    /\ m \in [Names \union Resources -> Names \union Resources \union {Absent}]
    /\ \A n \in Names : m[n] \in Resources \union {Absent}
    /\ \A d \in Resources : m[d] \in Names \union {Absent}

Forward(m) == \A n \in Names : m[n] # Absent => m[m[n]] = n
Backward(m) == \A d \in Resources : m[d] # Absent => m[m[d]] = d

\* Registering a name drops both bindings it replaces: the table stays a
\* mirror where it was one, and the names keep theirs in any case.
LEMMA RegisterMirrors ==
    ASSUME NEW m, NEW n \in Names, NEW d \in Resources, Table(m), Forward(m)
    PROVE  LET r == Bind(DropName(DropOld(m, n, d), d), n, d) IN
           Table(r) /\ Forward(r) /\ (Backward(m) => Backward(r))
<1> DEFINE r == Bind(DropName(DropOld(m, n, d), d), n, d)
<1> USE OwnersAssumption
<1>1. DOMAIN r = Names \union Resources
  BY DEF Bind, DropName, DropOld, Unbind, Table
<1>2. \A k \in Names : r[k] = IF k = n THEN d ELSE IF k = m[d] THEN Absent ELSE m[k]
  <2>1. \A k \in Names : DropOld(m, n, d)[k] = m[k]
    BY DEF DropOld, Unbind, Table
  <2>2. DropOld(m, n, d)[d] = m[d]
    BY DEF DropOld, Unbind, Table
  <2>3. DropOld(m, n, d) \in [Names \union Resources -> Names \union Resources \union {Absent}]
    BY DEF DropOld, Unbind, Table
  <2> QED  BY <2>1, <2>2, <2>3 DEF Bind, DropName, Unbind, Table
<1>3. \A e \in Resources : r[e] = IF e = d THEN n ELSE IF e = m[n] THEN Absent ELSE m[e]
  <2>1. \A e \in Resources : e # d => DropOld(m, n, d)[e] = IF e = m[n] THEN Absent ELSE m[e]
    BY DEF DropOld, Unbind, Table
  <2>2. DropOld(m, n, d)[d] = m[d]
    BY DEF DropOld, Unbind, Table
  <2>3. DropOld(m, n, d) \in [Names \union Resources -> Names \union Resources \union {Absent}]
    BY DEF DropOld, Unbind, Table
  <2> QED  BY <2>1, <2>2, <2>3 DEF Bind, DropName, Unbind, Table
<1>4. r \in [Names \union Resources -> Names \union Resources \union {Absent}]
  BY DEF Bind, DropName, DropOld, Unbind, Table
<1>5. Table(r)
  BY <1>2, <1>3, <1>4 DEF Table
<1>6. Forward(r)
  BY <1>2, <1>3 DEF Table, Forward
<1>7. Backward(m) => Backward(r)
  BY <1>2, <1>3 DEF Table, Backward
<1> QED  BY <1>5, <1>6, <1>7

\* Giving a name away over an older binding keeps the names' direction; the
\* pointers' only where nothing older is replaced.
LEMMA GivenMirrors ==
    ASSUME NEW m, NEW n \in Names, NEW d \in Resources, Table(m), Forward(m)
    PROVE  LET r == Bind(DropName(m, d), n, d) IN
           Table(r) /\ Forward(r) /\ (Backward(m) /\ m[n] \in {Absent, d} => Backward(r))
<1> DEFINE r == Bind(DropName(m, d), n, d)
<1> USE OwnersAssumption
<1>1. /\ \A k \in Names : r[k] = IF k = n THEN d ELSE IF k = m[d] THEN Absent ELSE m[k]
      /\ \A e \in Resources : r[e] = IF e = d THEN n ELSE m[e]
      /\ r \in [Names \union Resources -> Names \union Resources \union {Absent}]
  BY DEF Bind, DropName, Unbind, Table
<1>2. Table(r)
  BY <1>1 DEF Table
<1>3. Forward(r)
  BY <1>1 DEF Table, Forward
<1>4. Backward(m) /\ m[n] \in {Absent, d} => Backward(r)
  BY <1>1 DEF Table, Backward
<1> QED  BY <1>2, <1>3, <1>4

\* Taking out a pointer with the name its reverse entry gives keeps both
\* directions, also when that entry is stale.
LEMMA RemovalMirrors ==
    ASSUME NEW m, NEW n \in Names, NEW d \in Resources, Table(m), Forward(m), m[d] = n
    PROVE  LET r == Unbind(Unbind(m, n), d) IN
           Table(r) /\ Forward(r) /\ (Backward(m) => Backward(r))
<1> DEFINE r == Unbind(Unbind(m, n), d)
<1> USE OwnersAssumption
<1>1. /\ \A k \in Names : r[k] = IF k = n THEN Absent ELSE m[k]
      /\ \A e \in Resources : r[e] = IF e = d THEN Absent ELSE m[e]
      /\ r \in [Names \union Resources -> Names \union Resources \union {Absent}]
  BY DEF Unbind, Table
<1>2. Table(r)
  BY <1>1 DEF Table
<1>3. Forward(r)
  BY <1>1 DEF Table, Forward
<1>4. Backward(m) => Backward(r)
  BY <1>1 DEF Table, Backward
<1> QED  BY <1>2, <1>3, <1>4

\* The invariant, table by table.
OwnersTypes ==
    /\ resources \in [Holders -> [Names \union Resources -> Names \union Resources \union {Absent}]]
    /\ carried \in [Carriers -> {Absent} \union (Names \X Resources)]
    /\ overwritten \subseteq Holders

TablesInv ==
    \A o \in Holders : /\ Table(resources[o])
                       /\ Forward(resources[o])
                       /\ o \in overwritten \/ Backward(resources[o])

OwnersInv == OwnersTypes /\ TablesInv

LEMMA OwnersStart == OwnersInit => OwnersInv
  BY OwnersAssumption
     DEF OwnersInit, OwnersInv, OwnersTypes, TablesInv, Table, Forward, Backward

LEMMA OwnersStep == OwnersInv /\ [OwnersNext]_ownersVars => OwnersInv'
<1> SUFFICES ASSUME OwnersInv, [OwnersNext]_ownersVars
             PROVE  OwnersInv'
  OBVIOUS
<1> USE OwnersAssumption
<1>0. OwnersTypes /\ TablesInv
  BY DEF OwnersInv
<1>1. ASSUME NEW o \in Holders, NEW n \in Names, NEW d \in Resources, Register(o, n, d)
      PROVE  OwnersInv'
  <2> DEFINE m == resources[o]
             r == Bind(DropName(DropOld(m, n, d), d), n, d)
  <2>1. Table(m) /\ Forward(m) /\ (o \in overwritten \/ Backward(m))
    BY <1>0 DEF TablesInv
  <2>2. Table(r) /\ Forward(r) /\ (Backward(m) => Backward(r))
    BY <2>1, RegisterMirrors
  <2>3. resources' = [resources EXCEPT ![o] = r] /\ UNCHANGED <<carried, overwritten>>
    BY <1>1 DEF Register
  <2> HIDE DEF m, r
  <2> QED  BY <1>0, <2>1, <2>2, <2>3 DEF OwnersInv, OwnersTypes, TablesInv, Table
<1>2. ASSUME NEW t \in Carriers, NEW o \in Holders, TransferGive(t, o)
      PROVE  OwnersInv'
  <2>0. PICK n \in Names, d \in Resources : carried[t] = <<n, d>>
    BY <1>0, <1>2 DEF TransferGive, OwnersTypes
  <2> DEFINE m == resources[o]
             r == Bind(DropName(m, d), n, d)
  <2>1. Table(m) /\ Forward(m) /\ (o \in overwritten \/ Backward(m))
    BY <1>0 DEF TablesInv
  <2>2. Table(r) /\ Forward(r) /\ (Backward(m) /\ m[n] \in {Absent, d} => Backward(r))
    BY <2>1, GivenMirrors
  <2>3. /\ resources' = [resources EXCEPT ![o] = r]
        /\ carried' = [carried EXCEPT ![t] = Absent]
        /\ overwritten' = IF m[n] \in {Absent, d} THEN overwritten ELSE overwritten \union {(o)}
    BY <1>2, <2>0 DEF TransferGive
  <2> HIDE DEF m, r
  <2>4. OwnersTypes'
    BY <1>0, <2>2, <2>3 DEF OwnersTypes, Table
  <2>5. TablesInv'
    BY <1>0, <2>1, <2>2, <2>3 DEF OwnersTypes, TablesInv, Table
  <2> QED
    BY <2>4, <2>5 DEF OwnersInv
<1>3. ASSUME NEW t \in Carriers, NEW o \in Holders, NEW n \in Names, TransferTake(t, o, n)
      PROVE  OwnersInv'
  <2> DEFINE m == resources[o]
             d == m[n]
             r == Unbind(Unbind(m, n), d)
  <2>1. Table(m) /\ Forward(m) /\ (o \in overwritten \/ Backward(m))
    BY <1>0 DEF TablesInv
  <2>2. d \in Resources /\ m[d] = n
    BY <1>3, <2>1 DEF TransferTake, Table, Forward
  <2>3. Table(r) /\ Forward(r) /\ (Backward(m) => Backward(r))
    BY <2>1, <2>2, RemovalMirrors
  <2>4. /\ resources' = [resources EXCEPT ![o] = r]
        /\ carried' = [carried EXCEPT ![t] = <<n, d>>]
        /\ overwritten' = overwritten
    BY <1>3 DEF TransferTake
  <2> HIDE DEF m, d, r
  <2> QED  BY <1>0, <2>1, <2>2, <2>3, <2>4 DEF OwnersInv, OwnersTypes, TablesInv, Table
<1>4. ASSUME NEW o \in Holders, NEW d \in Resources, Unuse(o, d)
      PROVE  OwnersInv'
  <2> DEFINE m == resources[o]
             n == m[d]
             r == Unbind(Unbind(m, n), d)
  <2>1. Table(m) /\ Forward(m) /\ (o \in overwritten \/ Backward(m))
    BY <1>0 DEF TablesInv
  <2>2. n \in Names
    BY <1>4, <2>1 DEF Unuse, Table
  <2>3. Table(r) /\ Forward(r) /\ (Backward(m) => Backward(r))
    BY <2>1, <2>2, RemovalMirrors
  <2>4. /\ resources' = [resources EXCEPT ![o] = r]
        /\ UNCHANGED <<carried, overwritten>>
    BY <1>4 DEF Unuse
  <2> HIDE DEF m, n, r
  <2> QED  BY <1>0, <2>1, <2>3, <2>4 DEF OwnersInv, OwnersTypes, TablesInv, Table
<1>5. CASE UNCHANGED ownersVars
  BY <1>0, <1>5 DEF ownersVars, OwnersInv, OwnersTypes, TablesInv
<1> QED  BY <1>1, <1>2, <1>3, <1>4, <1>5 DEF OwnersNext

\* Every name's pointer leads back to the name in every owner, so unuse takes
\* out the binding of its own pointer; the pointers' entries do so too in an
\* owner that no transfer gave a name it had bound already (ttak_mem_unuse,
\* ttak_owner_transfer_resource).
THEOREM BindingsMirror == OwnersSpec => []OwnerBindings
<1>1. OwnersInv => OwnerBindings
  BY DEF OwnersInv, TablesInv, Forward, Backward, OwnerBindings
<1> QED  BY <1>1, OwnersStart, OwnersStep, PTL DEF OwnersSpec

(***************************************************************************)
(* Endpoint.  As long as changes do not clash, one call at most changes the *)
(* endpoint, and where it stands tells which descriptors are the            *)
(* endpoint's.  The guard changes its descriptor or its session only before *)
(* the generation is written, by closing it, or after that, so that a       *)
(* snapshot that no change overlapped and whose generation is still the     *)
(* endpoint's was taken of the guard that is there now, unless it is closed. *)
(***************************************************************************)

Fds == Descriptors \union {NoFd}
Guards == [fd : Fds, ttl : BOOLEAN, closed : BOOLEAN, expired : BOOLEAN, session : Nat]
Snapshots == [fd : Fds, generation : Nat, session : Nat, torn : BOOLEAN]
Calls == [op : {"none", "bind", "close", "restart", "snapshot", "commit"},
          at : {"idle", "connect", "shut", "clear", "read", "write", "init", "arm",
                "copy", "stamp", "refresh"},
          closing : Fds, opened : Fds, ttl : BOOLEAN, addr : BOOLEAN, count : Nat]

EndpointTypes ==
    /\ guard \in Guards /\ generation \in Nat /\ reachable \in BOOLEAN
    /\ holder \in [Descriptors -> {"free", "caller", "endpoint"}]
    /\ call \in [Callers -> Calls]
    /\ snapshot \in [Callers -> Snapshots]
    /\ lapsed \subseteq Descriptors

Changes(c) == c.op \in {"bind", "close", "restart"}
Copies(c) == c.op \in {"snapshot", "commit"}

\* Where a call of each operation may stand ...
Standing(c) ==
    /\ c.op = "none" => c = NoCall
    /\ c.op = "bind" => c.at \in {"read", "write", "init", "arm"} /\ c.opened \in Descriptors
    /\ c.op = "close" => c.at \in {"shut", "clear", "read", "write"}
    /\ c.op = "restart" => /\ c.at \in {"connect", "shut", "clear", "read", "write", "init", "arm"}
                           /\ c.opened \in Descriptors
    /\ c.op = "snapshot" => c.at \in {"copy", "stamp"}
    /\ c.op = "commit" => c.at = "refresh"
    /\ c.ttl => c.op = "bind"
    /\ c.at = "arm" => c.op = "restart" \/ c.ttl

\* ... and what it then knows of the guard and the generation.
Informed(c, g, n) ==
    /\ c.at = "shut" => c.closing = g.fd
    /\ c.at = "write" => c.count = n
    /\ c.op = "restart" /\ c.at \in {"read", "write", "init"} => g.fd = NoFd

\* The descriptors under guard and in hand, of all calls and of one.
GuardedIn(f, d) == IF d = NoFd \/ \E t \in Callers : f[t].at \in {"clear", "arm"} THEN {} ELSE {d}
GuardedBy(c, d) == IF d = NoFd \/ c.at \in {"clear", "arm"} THEN {} ELSE {d}
ComingIn(f) == {f[t].opened : t \in {u \in Callers : f[u].op = "restart" \/ f[u].ttl}}
ComingBy(c) == IF c.op = "restart" \/ c.ttl THEN {c.opened} ELSE {}

\* The descriptors the endpoint has open, one by one.
Own(h, l, g, c) ==
    /\ \A d \in Descriptors : h[d] = "endpoint" <=> d \in l \/ d \in g \/ d \in c
    /\ \A d \in Descriptors : ~(d \in l /\ d \in g) /\ ~(d \in l /\ d \in c) /\ ~(d \in g /\ d \in c)

CallsInv ==
    /\ \A t \in Callers : Standing(call[t]) /\ Informed(call[t], guard, generation)
    /\ \A t, u \in Callers : Changes(call[t]) /\ Changes(call[u]) => t = u

HolderInv == Own(holder, lapsed, GuardedIn(call, guard.fd), ComingIn(call))

\* A snapshot of the present generation is of the present guard.
Kept(c, s) == ~s.torn /\ c.op # "snapshot" /\ s.fd # NoFd
Taken(c, s, g, n) ==
    /\ Kept(c, s) => /\ s.generation <= n
                     /\ s.generation = n /\ g.fd # NoFd => g.fd = s.fd /\ g.session = s.session
    /\ c.at = "stamp" /\ ~s.torn => g.fd = s.fd /\ g.session = s.session
    /\ c.at = "refresh" /\ ~s.torn => s.fd # NoFd /\ g.fd # NoFd /\ s.generation = n

SnapshotInv ==
    /\ \A u, t \in Callers : Copies(call[u]) /\ ~snapshot[u].torn => ~Changes(call[t])
    /\ \A u \in Callers : Taken(call[u], snapshot[u], guard, generation)
    /\ \A u, t \in Callers : call[t].at \in {"init", "arm"} /\ Kept(call[u], snapshot[u]) =>
            snapshot[u].generation < generation

Serial == EndpointTypes /\ CallsInv /\ HolderInv /\ SnapshotInv
EndpointInv == ~clash => Serial

LEMMA EndpointStart == EndpointInit => EndpointInv
<1> SUFFICES ASSUME EndpointInit PROVE Serial
  BY DEF EndpointInv
<1> USE EndpointAssumption DEF EndpointInit, Disarmed, NoCall, NoSnapshot, NoFd
<1>1. EndpointTypes
  BY DEF EndpointTypes, Guards, Calls, Snapshots, Fds
<1>2. CallsInv
  BY DEF CallsInv, Standing, Informed, Changes
<1>3. HolderInv
  BY DEF HolderInv, Own, GuardedIn, ComingIn
<1>4. SnapshotInv
  BY DEF SnapshotInv, Taken, Kept, Copies, Changes
<1> QED  BY <1>1, <1>2, <1>3, <1>4 DEF Serial

\* Of a call that changes nothing no descriptor is in hand or out of guard.
LEMMA Idlers == \A c \in Calls : Standing(c) /\ ~Changes(c) =>
    /\ c.op # "restart" /\ ~c.ttl
    /\ c.at \notin {"clear", "arm", "shut", "write", "init"}
  BY DEF Standing, Changes, Calls, NoCall

LEMMA Copiers == \A c \in Calls : Standing(c) /\ c.at \in {"stamp", "refresh"} => Copies(c)
  BY DEF Standing, Copies, Calls, NoCall

LEMMA OneChanger ==
    ASSUME NEW f \in [Callers -> Calls], NEW t \in Callers, NEW d,
           \A u \in Callers \ {t} : Standing(f[u]) /\ ~Changes(f[u])
    PROVE  GuardedIn(f, d) = GuardedBy(f[t], d) /\ ComingIn(f) = ComingBy(f[t])
<1>1. \A u \in Callers \ {t} : f[u].op # "restart" /\ ~f[u].ttl /\ f[u].at \notin {"clear", "arm"}
  BY Idlers
<1>2. GuardedIn(f, d) = GuardedBy(f[t], d)
  BY <1>1 DEF GuardedIn, GuardedBy
<1>3. ComingIn(f) = ComingBy(f[t])
  BY <1>1 DEF ComingIn, ComingBy
<1> QED  BY <1>2, <1>3

LEMMA Bystander ==
    ASSUME NEW f \in [Callers -> Calls], NEW t \in Callers, NEW c \in Calls, NEW d,
           Standing(f[t]), ~Changes(f[t]), Standing(c), ~Changes(c)
    PROVE  /\ GuardedIn([f EXCEPT ![t] = c], d) = GuardedIn(f, d)
           /\ ComingIn([f EXCEPT ![t] = c]) = ComingIn(f)
<1> DEFINE e == [f EXCEPT ![t] = c]
<1>1. e[t] = c /\ \A u \in Callers \ {t} : e[u] = f[u]
  OBVIOUS
<1>2. /\ f[t].op # "restart" /\ ~f[t].ttl /\ f[t].at \notin {"clear", "arm"}
      /\ c.op # "restart" /\ ~c.ttl /\ c.at \notin {"clear", "arm"}
  BY Idlers
<1> HIDE DEF e
<1>3. GuardedIn(e, d) = GuardedIn(f, d)
  BY <1>1, <1>2 DEF GuardedIn
<1>4. {u \in Callers : e[u].op = "restart" \/ e[u].ttl} = {u \in Callers : f[u].op = "restart" \/ f[u].ttl}
  BY <1>1, <1>2
<1>5. ComingIn(e) = ComingIn(f)
  BY <1>1, <1>2, <1>4 DEF ComingIn
<1> QED  BY <1>3, <1>5 DEF e

\* What is left to show of a step of the call that changes the endpoint.
LEMMA ChangerKeeps ==
    ASSUME Serial, NEW t \in Callers, NEW c \in Calls, call' = [call EXCEPT ![t] = c],
           \A u \in Callers \ {t} : ~Changes(call[u]),
           Standing(c), Informed(c, guard', generation'),
           EndpointTypes', SnapshotInv',
           Own(holder', lapsed', GuardedBy(c, guard'.fd), ComingBy(c))
    PROVE  Serial'
<1> USE DEF Serial
<1>1. call'[t] = c /\ \A u \in Callers \ {t} : call'[u] = call[u]
  BY DEF EndpointTypes
<1>2. \A u \in Callers \ {t} : Standing(call'[u]) /\ ~Changes(call'[u])
  BY <1>1 DEF CallsInv
<1>3. \A u \in Callers \ {t} : Informed(call'[u], guard', generation')
  BY <1>2, Idlers DEF Informed, EndpointTypes
<1>4. CallsInv'
  BY <1>1, <1>2, <1>3 DEF CallsInv
<1>5. call' \in [Callers -> Calls]
  BY DEF EndpointTypes
<1>6. /\ GuardedIn(call', guard'.fd) = GuardedBy(c, guard'.fd)
      /\ ComingIn(call') = ComingBy(c)
  <2>1. PICK f \in [Callers -> Calls], d \in {guard'.fd} : f = call' /\ d = guard'.fd
    BY <1>5
  <2>2. GuardedIn(f, d) = GuardedBy(f[t], d) /\ ComingIn(f) = ComingBy(f[t])
    BY <1>2, <2>1, OneChanger
  <2> QED  BY <1>1, <2>1, <2>2
<1>7. HolderInv'
  BY <1>6 DEF HolderInv
<1> QED  BY <1>4, <1>7

\* In the middle of a change every snapshot or commit under way is torn, and
\* those held are of an earlier generation before the guard gets a new socket.
LEMMA ChangeOutdates ==
    ASSUME Serial, NEW t \in Callers, NEW c \in Calls, call' = [call EXCEPT ![t] = c],
           Changes(call[t]), Standing(c), Changes(c) \/ c = NoCall, UNCHANGED snapshot,
           \/ /\ generation' = generation
              /\ \/ guard'.fd = NoFd
                 \/ guard'.fd = guard.fd /\ guard'.session = guard.session
                 \/ call[t].at \in {"init", "arm"}
              /\ c.at \in {"init", "arm"} => call[t].at \in {"init", "arm"}
           \/ generation' = generation + 1
    PROVE  SnapshotInv'
<1> USE DEF Serial
<1>1. call'[t] = c /\ \A u \in Callers \ {t} : call'[u] = call[u]
  BY DEF EndpointTypes
<1>2. \A u \in Callers : Copies(call[u]) => snapshot[u].torn
  BY DEF SnapshotInv
<1>3. (~Copies(c) /\ c.op # "snapshot" /\ c.at \notin {"stamp", "refresh"}) \/ Changes(c)
  BY DEF Copies, NoCall
<1>4. \A u \in Callers : Copies(call'[u]) => snapshot'[u].torn
  BY <1>1, <1>2, <1>3 DEF Copies, Changes
<1>5. \A u \in Callers : Kept(call'[u], snapshot'[u]) => Kept(call[u], snapshot[u])
  BY <1>1, <1>2, <1>3 DEF Kept, Changes, Copies
<1>6. generation \in Nat /\ \A u \in Callers : snapshot[u].generation \in Nat
  BY DEF EndpointTypes, Snapshots
<1>7. \A u \in Callers : Kept(call[u], snapshot[u]) =>
         /\ snapshot[u].generation <= generation'
         /\ snapshot[u].generation = generation' /\ guard'.fd # NoFd =>
               guard'.fd = snapshot[u].fd /\ guard'.session = snapshot[u].session
         /\ (\E v \in Callers : call'[v].at \in {"init", "arm"}) => snapshot[u].generation < generation'
  <2>1. TAKE u \in Callers
  <2>2. HAVE Kept(call[u], snapshot[u])
  <2>3. /\ snapshot[u].generation <= generation
        /\ snapshot[u].generation = generation /\ guard.fd # NoFd =>
              guard.fd = snapshot[u].fd /\ guard.session = snapshot[u].session
        /\ (\E v \in Callers : call[v].at \in {"init", "arm"}) => snapshot[u].generation < generation
    BY <2>2 DEF SnapshotInv, Taken
  <2>4. CASE generation' = generation + 1
    BY <1>6, <2>3, <2>4
  <2>5. CASE generation' # generation + 1
    <3>1. (\E v \in Callers : call'[v].at \in {"init", "arm"}) => \E v \in Callers : call[v].at \in {"init", "arm"}
      BY <1>1, <2>5
    <3>2. call[t].at \in {"init", "arm"} => snapshot[u].generation < generation
      BY <2>3
    <3> QED  BY <1>6, <2>3, <2>5, <3>1, <3>2
  <2> QED  BY <2>4, <2>5
<1>8. \A u \in Callers : call'[u].at \in {"stamp", "refresh"} => snapshot'[u].torn
  <2>1. TAKE u \in Callers
  <2>2. CASE u = t
    BY <1>1, <2>2 DEF Changes, Standing, NoCall
  <2>3. CASE u # t
    BY <1>1, <1>2, <2>3, Copiers DEF CallsInv, EndpointTypes
  <2> QED  BY <2>2, <2>3
<1>9. \A u \in Callers : Taken(call'[u], snapshot'[u], guard', generation')
  BY <1>5, <1>7, <1>8 DEF Taken
<1>10. \A u, v \in Callers : call'[v].at \in {"init", "arm"} /\ Kept(call'[u], snapshot'[u]) =>
          snapshot'[u].generation < generation'
  BY <1>5, <1>7
<1> QED  BY <1>4, <1>9, <1>10 DEF SnapshotInv

\* The beginning of a change tears the snapshots and commits under way.
LEMMA ChangeTears ==
    ASSUME Serial, NEW t \in Callers, NEW c \in Calls, BeginChange(t, c), ~clash',
           Standing(c), Changes(c), c.at \notin {"init", "arm"}, UNCHANGED <<guard, generation>>
    PROVE  /\ call' = [call EXCEPT ![t] = c] /\ call' \in [Callers -> Calls]
           /\ \A u \in Callers : ~Changes(call[u])
           /\ snapshot' \in [Callers -> Snapshots] /\ SnapshotInv'
<1> USE DEF Serial, BeginChange
<1>1. call' = [call EXCEPT ![t] = c] /\ call' \in [Callers -> Calls]
  BY DEF EndpointTypes
<1>2. \A u \in Callers : ~Changes(call[u])
  BY DEF Changing, Changes
<1>3. /\ call'[t] = c /\ call[t] = NoCall
      /\ \A u \in Callers \ {t} : call'[u] = call[u]
  BY DEF EndpointTypes
<1>4. \A u \in Callers :
         /\ snapshot'[u] = [snapshot[u] EXCEPT !.torn = @ \/ u \in Copying]
         /\ snapshot[u] \in Snapshots
  BY DEF EndpointTypes
<1>5. \A u \in Callers : [snapshot[u] EXCEPT !.torn = snapshot[u].torn \/ u \in Copying] \in Snapshots
  BY <1>4 DEF Snapshots
<1>6. snapshot' \in [Callers -> Snapshots]
  BY <1>5
<1>7. \A u \in Callers :
         /\ snapshot'[u].fd = snapshot[u].fd /\ snapshot'[u].generation = snapshot[u].generation
         /\ snapshot'[u].session = snapshot[u].session
         /\ snapshot'[u].torn <=> snapshot[u].torn \/ Copies(call[u])
  BY <1>4 DEF Snapshots, Copying, Copies
<1>8. \A u \in Callers : Copies(call'[u]) => snapshot'[u].torn
  BY <1>3, <1>7 DEF Copies, Changes
<1>9. \A u \in Callers : Kept(call'[u], snapshot'[u]) => Kept(call[u], snapshot[u])
  BY <1>3, <1>7 DEF Kept, Changes, NoCall
<1>10. \A u \in Callers : call'[u].at \in {"stamp", "refresh"} => snapshot'[u].torn
  <2>1. TAKE u \in Callers
  <2>2. CASE u = t
    BY <1>3, <2>2 DEF Changes, Standing
  <2>3. CASE u # t
    <3>1. call'[u] = call[u] /\ (Copies(call[u]) => snapshot'[u].torn)
      BY <1>3, <1>7, <2>3
    <3>2. call[u] \in Calls /\ Standing(call[u])
      BY DEF CallsInv, EndpointTypes
    <3> QED  BY ONLY <3>1, <3>2, Copiers
  <2> QED  BY <2>2, <2>3
<1>11. \A u \in Callers : Taken(call'[u], snapshot'[u], guard', generation')
  <2>1. \A u \in Callers : Kept(call'[u], snapshot'[u]) =>
           /\ snapshot'[u].generation <= generation
           /\ snapshot'[u].generation = generation /\ guard.fd # NoFd =>
                 guard.fd = snapshot'[u].fd /\ guard.session = snapshot'[u].session
    <3>1. TAKE u \in Callers
    <3>2. HAVE Kept(call'[u], snapshot'[u])
    <3>3. Kept(call[u], snapshot[u]) /\ Taken(call[u], snapshot[u], guard, generation)
      BY <1>9, <3>2 DEF SnapshotInv
    <3> QED  BY <1>7, <3>3 DEF Taken
  <2>2. UNCHANGED <<guard, generation>>
    OBVIOUS
  <2> QED  BY <1>10, <2>1, <2>2 DEF Taken
<1>12. \A v \in Callers : call'[v].at \notin {"init", "arm"}
  <2>1. TAKE v \in Callers
  <2>2. CASE v = t
    <3>1. call'[v] = c
      BY <1>3, <2>2
    <3>2. c.at \notin {"init", "arm"}
      OBVIOUS
    <3> QED  BY ONLY <3>1, <3>2
  <2>3. CASE v # t
    BY <1>2, <1>3, <2>3, Idlers DEF CallsInv, EndpointTypes
  <2> QED  BY <2>2, <2>3
<1>13. SnapshotInv'
  BY <1>8, <1>11, <1>12 DEF SnapshotInv
<1> QED  BY <1>1, <1>2, <1>6, <1>13

\* What is left to show of a step of another call, or of none.
LEMMA BystanderKeeps ==
    ASSUME Serial, NEW t \in Callers, NEW c \in Calls, call' = [call EXCEPT ![t] = c],
           ~Changes(call[t]), ~Changes(c), Standing(c),
           guard'.fd = guard.fd, UNCHANGED <<generation, holder, lapsed>>,
           EndpointTypes', SnapshotInv'
    PROVE  Serial'
<1> USE DEF Serial
<1>1. call'[t] = c /\ \A u \in Callers \ {t} : call'[u] = call[u]
  BY DEF EndpointTypes
<1>2. call[t] \in Calls /\ Standing(call[t]) /\ guard \in Guards
  BY DEF EndpointTypes, CallsInv
<1>3. c.at \notin {"shut", "write"} /\ c.op # "restart"
  BY Idlers
<1>4. CallsInv'
  BY <1>1, <1>3 DEF CallsInv, Informed
<1>5. PICK f \in [Callers -> Calls], d \in {guard.fd} : f = call /\ d = guard.fd
  BY DEF EndpointTypes
<1>6. /\ GuardedIn([f EXCEPT ![t] = c], d) = GuardedIn(f, d)
      /\ ComingIn([f EXCEPT ![t] = c]) = ComingIn(f)
  <2>1. Standing(f[t]) /\ ~Changes(f[t])
    BY <1>2, <1>5
  <2> QED  BY ONLY <2>1, Bystander, t \in Callers, c \in Calls, ~Changes(c), Standing(c),
              f \in [Callers -> Calls]
<1>7. HolderInv'
  BY <1>5, <1>6 DEF HolderInv
<1> QED  BY <1>4, <1>7

\* The descriptors in terms of the one call that changes, if no other does.
LEMMA BeforeChange ==
    ASSUME Serial, NEW t \in Callers, \A u \in Callers \ {t} : ~Changes(call[u])
    PROVE  Own(holder, lapsed, GuardedBy(call[t], guard.fd), ComingBy(call[t]))
<1>1. PICK f \in [Callers -> Calls], d \in {guard.fd} : f = call /\ d = guard.fd
  BY DEF Serial, EndpointTypes
<1>2. GuardedIn(f, d) = GuardedBy(f[t], d) /\ ComingIn(f) = ComingBy(f[t])
  BY <1>1, OneChanger DEF Serial, CallsInv
<1> QED  BY <1>1, <1>2 DEF Serial, HolderInv

LEMMA BindKeeps ==
    ASSUME Serial, NEW t \in Callers, NEW d \in Descriptors, NEW ttl \in BOOLEAN,
           NEW addr \in BOOLEAN, BindFd(t, d, ttl, addr), ~clash'
    PROVE  Serial'
<1> DEFINE c == [NoCall EXCEPT !.op = "bind", !.at = "read", !.opened = d, !.ttl = ttl, !.addr = addr]
<1> USE EndpointAssumption DEF Serial
<1>1. c \in Calls /\ Standing(c) /\ Changes(c) /\ c.at = "read" /\ c.op = "bind"
      /\ c.opened = d /\ c.ttl = ttl
  BY DEF NoCall, Calls, Standing, Changes, Fds, NoFd
<1>2. BeginChange(t, c) /\ UNCHANGED <<guard, generation, reachable, lapsed>> /\ holder[d] = "caller"
      /\ holder' = IF ttl THEN [holder EXCEPT ![d] = "endpoint"] ELSE holder
  BY DEF BindFd
<1> HIDE DEF c
<1>3. /\ call' = [call EXCEPT ![t] = c] /\ call' \in [Callers -> Calls]
      /\ \A u \in Callers : ~Changes(call[u])
      /\ snapshot' \in [Callers -> Snapshots] /\ SnapshotInv'
  BY <1>1, <1>2, ChangeTears
<1>4. EndpointTypes'
  BY <1>2, <1>3 DEF EndpointTypes
<1>5. Informed(c, guard', generation')
  BY <1>1 DEF Informed
<1>6. Own(holder, lapsed, GuardedBy(call[t], guard.fd), ComingBy(call[t]))
  BY <1>3, BeforeChange
<1>7. /\ ComingBy(call[t]) = {} /\ ComingBy(c) = (IF ttl THEN {d} ELSE {})
      /\ GuardedBy(c, guard.fd) = GuardedBy(call[t], guard.fd)
  BY <1>1, <1>2 DEF ComingBy, GuardedBy, BeginChange, NoCall
<1>8. Own(holder', lapsed', GuardedBy(c, guard'.fd), ComingBy(c))
  BY <1>2, <1>6, <1>7 DEF Own, EndpointTypes
<1> QED  BY <1>1, <1>3, <1>4, <1>5, <1>8, ChangerKeeps

LEMMA CloseKeeps ==
    ASSUME Serial, NEW t \in Callers, EndpointClose(t), ~clash'
    PROVE  Serial'
<1> DEFINE c == [NoCall EXCEPT !.op = "close", !.at = "shut", !.closing = guard.fd]
<1> USE EndpointAssumption DEF Serial
<1>1. c \in Calls /\ Standing(c) /\ Changes(c) /\ c.at = "shut" /\ c.op = "close"
      /\ c.closing = guard.fd /\ c.ttl = FALSE
  BY DEF NoCall, Calls, Standing, Changes, Fds, NoFd, EndpointTypes, Guards
<1>2. BeginChange(t, c) /\ UNCHANGED <<guard, generation, reachable, holder, lapsed>>
  BY DEF EndpointClose
<1> HIDE DEF c
<1>3. /\ call' = [call EXCEPT ![t] = c] /\ call' \in [Callers -> Calls]
      /\ \A u \in Callers : ~Changes(call[u])
      /\ snapshot' \in [Callers -> Snapshots] /\ SnapshotInv'
  BY <1>1, <1>2, ChangeTears
<1>4. EndpointTypes'
  BY <1>2, <1>3 DEF EndpointTypes
<1>5. Informed(c, guard', generation')
  BY <1>1, <1>2 DEF Informed
<1>6. Own(holder, lapsed, GuardedBy(call[t], guard.fd), ComingBy(call[t]))
  BY <1>3, BeforeChange
<1>7. ComingBy(call[t]) = ComingBy(c) /\ GuardedBy(c, guard.fd) = GuardedBy(call[t], guard.fd)
  BY <1>1, <1>2 DEF ComingBy, GuardedBy, BeginChange, NoCall
<1>8. Own(holder', lapsed', GuardedBy(c, guard'.fd), ComingBy(c))
  BY <1>2, <1>6, <1>7
<1> QED  BY <1>1, <1>3, <1>4, <1>5, <1>8, ChangerKeeps

LEMMA RestartKeeps ==
    ASSUME Serial, NEW t \in Callers, Restart(t), ~clash'
    PROVE  Serial'
<1> USE EndpointAssumption DEF Serial
<1>0. PICK d \in Lowest(holder) :
         /\ BeginChange(t, [NoCall EXCEPT !.op = "restart", !.at = "connect", !.opened = d])
         /\ holder' = [holder EXCEPT ![d] = "endpoint"]
  BY DEF Restart
<1> DEFINE c == [NoCall EXCEPT !.op = "restart", !.at = "connect", !.opened = d]
<1>d. d \in Descriptors /\ holder[d] = "free"
  BY DEF Lowest
<1>1. c \in Calls /\ Standing(c) /\ Changes(c) /\ c.at = "connect" /\ c.op = "restart" /\ c.opened = d
  BY <1>d DEF NoCall, Calls, Standing, Changes, Fds, NoFd
<1>2. BeginChange(t, c) /\ UNCHANGED <<guard, generation, reachable, lapsed>>
  BY <1>0 DEF Restart
<1> HIDE DEF c
<1>3. /\ call' = [call EXCEPT ![t] = c] /\ call' \in [Callers -> Calls]
      /\ \A u \in Callers : ~Changes(call[u])
      /\ snapshot' \in [Callers -> Snapshots] /\ SnapshotInv'
  BY <1>1, <1>2, ChangeTears
<1>4. EndpointTypes'
  BY <1>0, <1>2, <1>3, <1>d DEF EndpointTypes
<1>5. Informed(c, guard', generation')
  BY <1>1 DEF Informed
<1>6. Own(holder, lapsed, GuardedBy(call[t], guard.fd), ComingBy(call[t]))
  BY <1>3, BeforeChange
<1>7. /\ ComingBy(call[t]) = {} /\ ComingBy(c) = {d}
      /\ GuardedBy(c, guard.fd) = GuardedBy(call[t], guard.fd)
  BY <1>1, <1>2 DEF ComingBy, GuardedBy, BeginChange, NoCall
<1>8. Own(holder', lapsed', GuardedBy(c, guard'.fd), ComingBy(c))
  BY <1>0, <1>2, <1>6, <1>7, <1>d DEF Own, EndpointTypes
<1> QED  BY <1>1, <1>3, <1>4, <1>5, <1>8, ChangerKeeps

-----------------------------------------------------------------------------
(* The steps of the call that changes the endpoint, t: it stands at `at'.   *)

\* What the step starts from.
LEMMA Changer ==
    ASSUME Serial, NEW t \in Callers, Changes(call[t])
    PROVE  /\ call[t] \in Calls /\ Standing(call[t]) /\ Informed(call[t], guard, generation)
           /\ \A u \in Callers \ {t} : ~Changes(call[u])
           /\ Own(holder, lapsed, GuardedBy(call[t], guard.fd), ComingBy(call[t]))
<1>1. \A u \in Callers \ {t} : ~Changes(call[u])
  BY DEF Serial, CallsInv
<1>2. call[t] \in Calls /\ Standing(call[t]) /\ Informed(call[t], guard, generation)
  BY DEF Serial, CallsInv, EndpointTypes
<1> QED  BY <1>1, <1>2, BeforeChange

LEMMA AtChanger ==
    \A c \in Calls : Standing(c) /\ c.at \in {"connect", "shut", "clear", "read", "write", "init", "arm"}
                     => Changes(c)
  BY DEF Standing, Changes, Calls, NoCall

\* A call that goes on is of the same operation, with the same descriptor.
LEMMA OnItsWay ==
    ASSUME NEW o \in Calls, Standing(o), Changes(o), NEW c \in Calls,
           c.op = o.op, c.ttl = o.ttl, c.opened = o.opened,
           \/ c.at = "shut" /\ o.at = "connect"
           \/ c.at = "clear" /\ o.at = "shut"
           \/ c.at = "read" /\ o.at = "clear"
           \/ c.at = "write" /\ o.at = "read"
           \/ c.at = "init" /\ o.at = "write" /\ o.op # "close"
           \/ c.at = "arm" /\ o.at = "init" /\ (o.op = "restart" \/ o.ttl)
    PROVE  Standing(c) /\ Changes(c) /\ ComingBy(c) = ComingBy(o)
<1>1. Changes(c) /\ ComingBy(c) = ComingBy(o)
  BY DEF Changes, ComingBy
<1>2. Standing(c)
  BY DEF Standing, Changes
<1> QED  BY <1>1, <1>2

LEMMA CallFields ==
    ASSUME NEW o \in Calls, NEW to \in {"shut", "clear", "read", "write", "init", "arm"},
           NEW d \in Fds, NEW n \in Nat
    PROVE  /\ [o EXCEPT !.at = to] \in Calls
           /\ [o EXCEPT !.at = to, !.closing = d] \in Calls
           /\ [o EXCEPT !.at = to, !.count = n] \in Calls
  BY DEF Calls

LEMMA TheEnd == NoCall \in Calls /\ Standing(NoCall) /\ ~Changes(NoCall) /\ ComingBy(NoCall) = {}
                /\ NoCall.at = "idle" /\ NoCall.op = "none"
  BY DEF NoCall, Calls, Standing, Changes, ComingBy, Fds

LEMMA ConnectedKeeps ==
    ASSUME Serial, NEW t \in Callers, Connected(t), ~clash'
    PROVE  Serial'
<1> USE DEF Connected, Goes, IsAt
<1>1. call[t] \in Calls /\ Standing(call[t]) /\ Changes(call[t]) /\ call[t].at = "connect"
  BY AtChanger DEF Serial, EndpointTypes, CallsInv
<1>2. /\ Informed(call[t], guard, generation) /\ \A u \in Callers \ {t} : ~Changes(call[u])
      /\ Own(holder, lapsed, GuardedBy(call[t], guard.fd), ComingBy(call[t]))
  BY <1>1, Changer
<1>o. PICK o \in Calls : o = call[t]
  BY <1>1
<1>c. guard.fd \in Fds /\ generation \in Nat
  BY DEF Serial, EndpointTypes, Guards
<1>3. PICK c \in Calls : c = [o EXCEPT !.at = "shut", !.closing = guard.fd]
  BY <1>o, <1>c, CallFields
<1>p. /\ c.at = "shut" /\ c.op = call[t].op /\ c.ttl = call[t].ttl /\ c.opened = call[t].opened /\ c.closing = guard.fd
  BY <1>o, <1>3 DEF Calls
<1>w. Standing(c) /\ Changes(c) /\ ComingBy(c) = ComingBy(call[t])
  <2>1. Standing(o) /\ Changes(o) /\ c.op = o.op /\ c.ttl = o.ttl /\ c.opened = o.opened
    BY <1>1, <1>o, <1>p
  <2>2. Standing(c) /\ Changes(c) /\ ComingBy(c) = ComingBy(o)
    BY <1>1, <1>o, <1>p, <2>1, OnItsWay
  <2> QED  BY <1>o, <2>2
<1>4. call' = [call EXCEPT ![t] = c]
  BY <1>o, <1>3
<1>5. EndpointTypes'
  BY <1>4 DEF Serial, EndpointTypes
<1>6. Informed(c, guard', generation')
  BY <1>p, <1>w DEF Informed
<1>7. SnapshotInv'
  BY <1>1, <1>p, <1>w, <1>4, ChangeOutdates
<1>8. Own(holder', lapsed', GuardedBy(c, guard'.fd), ComingBy(c))
  BY <1>1, <1>2, <1>p, <1>w DEF GuardedBy, ComingBy
<1> QED  BY <1>2, <1>p, <1>w, <1>4, <1>5, <1>6, <1>7, <1>8, ChangerKeeps

LEMMA ShutKeeps ==
    ASSUME Serial, NEW t \in Callers, Shut(t), ~clash'
    PROVE  Serial'
<1> USE DEF Shut, GoOn, Goes, IsAt
<1>1. call[t] \in Calls /\ Standing(call[t]) /\ Changes(call[t]) /\ call[t].at = "shut"
  BY AtChanger DEF Serial, EndpointTypes, CallsInv
<1>2. /\ Informed(call[t], guard, generation) /\ \A u \in Callers \ {t} : ~Changes(call[u])
      /\ Own(holder, lapsed, GuardedBy(call[t], guard.fd), ComingBy(call[t]))
  BY <1>1, Changer
<1>o. PICK o \in Calls : o = call[t]
  BY <1>1
<1>c. guard.fd \in Fds /\ generation \in Nat
  BY DEF Serial, EndpointTypes, Guards
<1>3. PICK c \in Calls : c = [o EXCEPT !.at = "clear"]
  BY <1>o, <1>c, CallFields
<1>p. /\ c.at = "clear" /\ c.op = call[t].op /\ c.ttl = call[t].ttl /\ c.opened = call[t].opened
  BY <1>o, <1>3 DEF Calls
<1>w. Standing(c) /\ Changes(c) /\ ComingBy(c) = ComingBy(call[t])
  <2>1. Standing(o) /\ Changes(o) /\ c.op = o.op /\ c.ttl = o.ttl /\ c.opened = o.opened
    BY <1>1, <1>o, <1>p
  <2>2. Standing(c) /\ Changes(c) /\ ComingBy(c) = ComingBy(o)
    BY <1>1, <1>o, <1>p, <2>1, OnItsWay
  <2> QED  BY <1>o, <2>2
<1>4. call' = [call EXCEPT ![t] = c]
  BY <1>o, <1>3
<1>g. call[t].closing = guard.fd /\ guard.fd \in Fds
  BY <1>1, <1>2 DEF Informed, Serial, EndpointTypes, Guards
<1>5. EndpointTypes'
  BY <1>4 DEF Serial, EndpointTypes, Released
<1>6. Informed(c, guard', generation')
  BY <1>p, <1>w DEF Informed
<1>7. SnapshotInv'
  BY <1>1, <1>p, <1>w, <1>4, ChangeOutdates
<1>8. Own(holder', lapsed', GuardedBy(c, guard'.fd), ComingBy(c))
  <2>1. GuardedBy(c, guard'.fd) = {} /\ ComingBy(c) = ComingBy(call[t])
    BY <1>p, <1>w DEF GuardedBy, ComingBy
  <2>2. GuardedBy(call[t], guard.fd) = IF guard.fd = NoFd THEN {} ELSE {guard.fd}
    BY <1>1 DEF GuardedBy
  <2>3. \A d \in Descriptors : holder'[d] = "endpoint" <=> holder[d] = "endpoint" /\ d # guard.fd
    BY <1>g, EndpointAssumption DEF Released, Serial, EndpointTypes, NoFd, Fds
  <2> QED  BY <1>2, <2>1, <2>2, <2>3, EndpointAssumption DEF Own, NoFd
<1> QED  BY <1>2, <1>p, <1>w, <1>4, <1>5, <1>6, <1>7, <1>8, ChangerKeeps

LEMMA ClearKeeps ==
    ASSUME Serial, NEW t \in Callers, ClearGuard(t), ~clash'
    PROVE  Serial'
<1> USE DEF ClearGuard, GoOn, Goes, IsAt
<1>1. call[t] \in Calls /\ Standing(call[t]) /\ Changes(call[t]) /\ call[t].at = "clear"
  BY AtChanger DEF Serial, EndpointTypes, CallsInv
<1>2. /\ Informed(call[t], guard, generation) /\ \A u \in Callers \ {t} : ~Changes(call[u])
      /\ Own(holder, lapsed, GuardedBy(call[t], guard.fd), ComingBy(call[t]))
  BY <1>1, Changer
<1>o. PICK o \in Calls : o = call[t]
  BY <1>1
<1>c. guard.fd \in Fds /\ generation \in Nat
  BY DEF Serial, EndpointTypes, Guards
<1>3. PICK c \in Calls : c = [o EXCEPT !.at = "read"]
  BY <1>o, <1>c, CallFields
<1>p. /\ c.at = "read" /\ c.op = call[t].op /\ c.ttl = call[t].ttl /\ c.opened = call[t].opened
  BY <1>o, <1>3 DEF Calls
<1>w. Standing(c) /\ Changes(c) /\ ComingBy(c) = ComingBy(call[t])
  <2>1. Standing(o) /\ Changes(o) /\ c.op = o.op /\ c.ttl = o.ttl /\ c.opened = o.opened
    BY <1>1, <1>o, <1>p
  <2>2. Standing(c) /\ Changes(c) /\ ComingBy(c) = ComingBy(o)
    BY <1>1, <1>o, <1>p, <2>1, OnItsWay
  <2> QED  BY <1>o, <2>2
<1>4. call' = [call EXCEPT ![t] = c]
  BY <1>o, <1>3
<1>g. guard' \in Guards /\ guard'.fd = NoFd
  BY DEF Serial, EndpointTypes, Guards, Fds
<1>5. EndpointTypes'
  BY <1>4, <1>g DEF Serial, EndpointTypes
<1>6. Informed(c, guard', generation')
  BY <1>p, <1>w, <1>g DEF Informed
<1>7. SnapshotInv'
  BY <1>1, <1>p, <1>w, <1>4, <1>g, ChangeOutdates
<1>8. Own(holder', lapsed', GuardedBy(c, guard'.fd), ComingBy(c))
  BY <1>1, <1>2, <1>p, <1>w, <1>g DEF GuardedBy, ComingBy
<1> QED  BY <1>2, <1>p, <1>w, <1>4, <1>5, <1>6, <1>7, <1>8, ChangerKeeps

LEMMA ReadKeeps ==
    ASSUME Serial, NEW t \in Callers, ReadGeneration(t), ~clash'
    PROVE  Serial'
<1> USE DEF ReadGeneration, Goes, IsAt
<1>1. call[t] \in Calls /\ Standing(call[t]) /\ Changes(call[t]) /\ call[t].at = "read"
  BY AtChanger DEF Serial, EndpointTypes, CallsInv
<1>2. /\ Informed(call[t], guard, generation) /\ \A u \in Callers \ {t} : ~Changes(call[u])
      /\ Own(holder, lapsed, GuardedBy(call[t], guard.fd), ComingBy(call[t]))
  BY <1>1, Changer
<1>o. PICK o \in Calls : o = call[t]
  BY <1>1
<1>c. guard.fd \in Fds /\ generation \in Nat
  BY DEF Serial, EndpointTypes, Guards
<1>3. PICK c \in Calls : c = [o EXCEPT !.at = "write", !.count = generation]
  BY <1>o, <1>c, CallFields
<1>p. /\ c.at = "write" /\ c.op = call[t].op /\ c.ttl = call[t].ttl /\ c.opened = call[t].opened /\ c.count = generation
  BY <1>o, <1>3 DEF Calls
<1>w. Standing(c) /\ Changes(c) /\ ComingBy(c) = ComingBy(call[t])
  <2>1. Standing(o) /\ Changes(o) /\ c.op = o.op /\ c.ttl = o.ttl /\ c.opened = o.opened
    BY <1>1, <1>o, <1>p
  <2>2. Standing(c) /\ Changes(c) /\ ComingBy(c) = ComingBy(o)
    BY <1>1, <1>o, <1>p, <2>1, OnItsWay
  <2> QED  BY <1>o, <2>2
<1>4. call' = [call EXCEPT ![t] = c]
  BY <1>o, <1>3
<1>5. EndpointTypes'
  BY <1>4 DEF Serial, EndpointTypes
<1>6. Informed(c, guard', generation')
  BY <1>1, <1>2, <1>p, <1>w DEF Informed
<1>7. SnapshotInv'
  BY <1>1, <1>p, <1>w, <1>4, ChangeOutdates
<1>8. Own(holder', lapsed', GuardedBy(c, guard'.fd), ComingBy(c))
  BY <1>1, <1>2, <1>p, <1>w DEF GuardedBy, ComingBy
<1> QED  BY <1>2, <1>p, <1>w, <1>4, <1>5, <1>6, <1>7, <1>8, ChangerKeeps

LEMMA WriteKeeps ==
    ASSUME Serial, NEW t \in Callers, WriteGeneration(t), ~clash'
    PROVE  Serial'
<1> USE DEF WriteGeneration, GoOn, Return, Goes, IsAt
<1>1. call[t] \in Calls /\ Standing(call[t]) /\ Changes(call[t]) /\ call[t].at = "write"
  BY AtChanger DEF Serial, EndpointTypes, CallsInv
<1>2. /\ Informed(call[t], guard, generation) /\ \A u \in Callers \ {t} : ~Changes(call[u])
      /\ Own(holder, lapsed, GuardedBy(call[t], guard.fd), ComingBy(call[t]))
  BY <1>1, Changer
<1>g. generation' = generation + 1 /\ generation \in Nat
  BY <1>1, <1>2 DEF Informed, Renewed, Serial, EndpointTypes
<1>r. reachable' \in BOOLEAN
  BY <1>1 DEF Serial, EndpointTypes, Calls
<1>3. CASE call[t].op = "close"
  <2>1. call' = [call EXCEPT ![t] = NoCall]
    BY <1>1, <1>3
  <2>2. EndpointTypes'
    BY <2>1, <1>g, <1>r, TheEnd DEF Serial, EndpointTypes
  <2>3. Informed(NoCall, guard', generation')
    BY TheEnd DEF Informed
  <2>4. SnapshotInv'
    BY <1>1, <1>g, <2>1, TheEnd, ChangeOutdates
  <2>5. GuardedBy(NoCall, guard.fd) = GuardedBy(call[t], guard.fd) /\ ComingBy(call[t]) = {}
    BY <1>1, <1>3, TheEnd DEF GuardedBy, ComingBy, Standing
  <2>6. Own(holder', lapsed', GuardedBy(NoCall, guard'.fd), ComingBy(NoCall))
    BY <1>2, <2>5, TheEnd
  <2> QED  BY <1>2, <2>1, <2>2, <2>3, <2>4, <2>6, TheEnd, ChangerKeeps
<1>4. CASE call[t].op # "close"
  <2>o. PICK o \in Calls : o = call[t]
    BY <1>1
  <2>3. PICK c \in Calls : c = [o EXCEPT !.at = "init"]
    BY <2>o, NoFd \in Fds, CallFields DEF Fds
  <2>p. c.at = "init" /\ c.op = o.op /\ c.ttl = o.ttl /\ c.opened = o.opened
    BY <2>3 DEF Calls
  <2>w. Standing(c) /\ Changes(c) /\ ComingBy(c) = ComingBy(o)
    BY <1>1, <1>4, <2>o, <2>p, OnItsWay
  <2>4. call' = [call EXCEPT ![t] = c]
    BY <1>4, <2>o, <2>3
  <2>5. EndpointTypes'
    BY <2>4, <1>g, <1>r DEF Serial, EndpointTypes
  <2>6. Informed(c, guard', generation')
    BY <1>1, <1>2, <2>o, <2>p DEF Informed
  <2>7. SnapshotInv'
    BY <1>1, <2>w, <2>4, <1>g, ChangeOutdates
  <2>8. Own(holder', lapsed', GuardedBy(c, guard'.fd), ComingBy(c))
    BY <1>1, <1>2, <2>o, <2>p, <2>w DEF GuardedBy
  <2> QED  BY <1>2, <2>w, <2>4, <2>5, <2>6, <2>7, <2>8, ChangerKeeps
<1> QED  BY <1>3, <1>4

LEMMA WipeKeeps ==
    ASSUME Serial, NEW t \in Callers, Wipe(t), ~clash'
    PROVE  Serial'
<1> USE EndpointAssumption DEF Wipe, GoOn, Goes, IsAt
<1>1. call[t] \in Calls /\ Standing(call[t]) /\ Changes(call[t]) /\ call[t].at = "init"
  BY AtChanger DEF Serial, EndpointTypes, CallsInv
<1>2. /\ Informed(call[t], guard, generation) /\ \A u \in Callers \ {t} : ~Changes(call[u])
      /\ Own(holder, lapsed, GuardedBy(call[t], guard.fd), ComingBy(call[t]))
  BY <1>1, Changer
<1>t. call[t].op = "restart" \/ call[t].ttl
  BY DEF Ttl
<1>o. PICK o \in Calls : o = call[t]
  BY <1>1
<1>c. guard.fd \in Fds /\ generation \in Nat
  BY DEF Serial, EndpointTypes, Guards
<1>3. PICK c \in Calls : c = [o EXCEPT !.at = "arm"]
  BY <1>o, <1>c, CallFields
<1>p. /\ c.at = "arm" /\ c.op = call[t].op /\ c.ttl = call[t].ttl /\ c.opened = call[t].opened
  BY <1>o, <1>3 DEF Calls
<1>w. Standing(c) /\ Changes(c) /\ ComingBy(c) = ComingBy(call[t])
  <2>1. Standing(o) /\ Changes(o) /\ c.op = o.op /\ c.ttl = o.ttl /\ c.opened = o.opened
    BY <1>1, <1>o, <1>p
  <2>2. Standing(c) /\ Changes(c) /\ ComingBy(c) = ComingBy(o)
    BY <1>1, <1>o, <1>p, <2>1, <1>t, OnItsWay
  <2> QED  BY <1>o, <2>2
<1>4. call' = [call EXCEPT ![t] = c]
  BY <1>o, <1>3
<1>g. guard' \in Guards /\ guard \in Guards /\ guard.fd \in Fds
  BY DEF Serial, EndpointTypes, Guards, Fds, Disarmed
<1>5. EndpointTypes'
  BY <1>4, <1>g DEF Serial, EndpointTypes, Fds
<1>6. Informed(c, guard', generation')
  BY <1>p, <1>w DEF Informed
<1>7. SnapshotInv'
  BY <1>1, <1>p, <1>w, <1>4, ChangeOutdates
<1>8. Own(holder', lapsed', GuardedBy(c, guard'.fd), ComingBy(c))
  <2>1. GuardedBy(c, guard'.fd) = {} /\ ComingBy(c) = ComingBy(call[t])
    BY <1>p, <1>w DEF GuardedBy, ComingBy
  <2>2. GuardedBy(call[t], guard.fd) = IF guard.fd = NoFd THEN {} ELSE {guard.fd}
    BY <1>1 DEF GuardedBy
  <2>3. \A d : d \in lapsed' <=> d \in lapsed \/ d \in GuardedBy(call[t], guard.fd)
    BY <2>2
  <2> QED  BY <1>2, <2>1, <2>3 DEF Own
<1> QED  BY <1>2, <1>p, <1>w, <1>4, <1>5, <1>6, <1>7, <1>8, ChangerKeeps

LEMMA ArmKeeps ==
    ASSUME Serial, NEW t \in Callers, Arm(t), ~clash'
    PROVE  Serial'
<1> USE EndpointAssumption DEF Arm, Return, Goes, IsAt
<1>1. call[t] \in Calls /\ Standing(call[t]) /\ Changes(call[t]) /\ call[t].at = "arm"
  BY AtChanger DEF Serial, EndpointTypes, CallsInv
<1>2. /\ Informed(call[t], guard, generation) /\ \A u \in Callers \ {t} : ~Changes(call[u])
      /\ Own(holder, lapsed, GuardedBy(call[t], guard.fd), ComingBy(call[t]))
  BY <1>1, Changer
<1>t. (call[t].op = "restart" \/ call[t].ttl) /\ call[t].opened \in Descriptors
  BY <1>1 DEF Standing
<1>4. call' = [call EXCEPT ![t] = NoCall]
  OBVIOUS
<1>g. guard' \in Guards /\ guard'.fd = call[t].opened
  BY <1>t DEF Serial, EndpointTypes, Guards, Fds
<1>5. EndpointTypes'
  BY <1>4, <1>g, TheEnd DEF Serial, EndpointTypes
<1>6. Informed(NoCall, guard', generation')
  BY TheEnd DEF Informed
<1>7. SnapshotInv'
  BY <1>1, <1>4, TheEnd, ChangeOutdates
<1>8. Own(holder', lapsed', GuardedBy(NoCall, guard'.fd), ComingBy(NoCall))
  <2>1. GuardedBy(NoCall, guard'.fd) = {call[t].opened} /\ ComingBy(call[t]) = {call[t].opened}
    BY <1>g, <1>t, TheEnd DEF GuardedBy, ComingBy, NoFd
  <2>2. GuardedBy(call[t], guard.fd) = {}
    BY <1>1 DEF GuardedBy
  <2> QED  BY <1>2, <2>1, <2>2, TheEnd DEF Own
<1> QED  BY <1>2, <1>4, <1>5, <1>6, <1>7, <1>8, TheEnd, ChangerKeeps

\* A call that fails closes the socket it opened, if it is a restart.
LEMMA FailureKeeps ==
    ASSUME Serial, NEW t \in Callers, ConnectFails(t) \/ InitRefused(t), ~clash'
    PROVE  Serial'
<1> USE EndpointAssumption DEF ConnectFails, InitRefused, Return, Goes, IsAt
<1>1. call[t] \in Calls /\ Standing(call[t]) /\ Changes(call[t]) /\ call[t].at \in {"connect", "init"}
  BY AtChanger DEF Serial, EndpointTypes, CallsInv
<1>2. /\ Informed(call[t], guard, generation) /\ \A u \in Callers \ {t} : ~Changes(call[u])
      /\ Own(holder, lapsed, GuardedBy(call[t], guard.fd), ComingBy(call[t]))
  BY <1>1, Changer
<1>3. call' = [call EXCEPT ![t] = NoCall] /\ UNCHANGED <<guard, generation, reachable, snapshot, lapsed>>
  OBVIOUS
<1>4. holder' = IF call[t].op = "restart" THEN [holder EXCEPT ![call[t].opened] = "free"] ELSE holder
  <2>1. call[t].op = "restart" => call[t].opened # NoFd
    BY <1>1 DEF Standing, NoFd
  <2>2. call[t].at = "connect" => call[t].op = "restart"
    BY <1>1 DEF Standing, Changes
  <2> QED  BY <2>1, <2>2 DEF Released
<1>t. /\ ComingBy(call[t]) = (IF call[t].op = "restart" THEN {call[t].opened} ELSE {})
      /\ call[t].op = "restart" => call[t].opened \in Descriptors
  BY <1>1 DEF ComingBy, Ttl, Standing
<1>5. EndpointTypes'
  BY <1>3, <1>4, <1>t, TheEnd DEF Serial, EndpointTypes
<1>6. Informed(NoCall, guard', generation')
  BY TheEnd DEF Informed
<1>7. SnapshotInv'
  BY <1>1, <1>3, TheEnd, ChangeOutdates
<1>8. Own(holder', lapsed', GuardedBy(NoCall, guard'.fd), ComingBy(NoCall))
  <2>1. GuardedBy(NoCall, guard'.fd) = GuardedBy(call[t], guard.fd)
    BY <1>1, <1>3, TheEnd DEF GuardedBy
  <2> QED  BY <1>2, <1>3, <1>4, <1>t, <2>1, TheEnd DEF Own, Serial, EndpointTypes
<1> QED  BY <1>2, <1>3, <1>5, <1>6, <1>7, <1>8, TheEnd, ChangerKeeps

-----------------------------------------------------------------------------
(* The steps that change nothing: of the program, of time, of the readers.  *)

LEMMA OutsideKeeps ==
    ASSUME Serial, OpenByCaller \/ CloseByCaller \/ Expiry, ~clash'
    PROVE  Serial'
<1>1. /\ UNCHANGED <<generation, reachable, call, snapshot, lapsed>>
      /\ holder' \in [Descriptors -> {"free", "caller", "endpoint"}]
      /\ \A d \in Descriptors : holder'[d] = "endpoint" <=> holder[d] = "endpoint"
      /\ guard' \in Guards /\ guard'.fd = guard.fd /\ guard'.session = guard.session
  <2>1. CASE Expiry
    BY <2>1 DEF Expiry, Serial, EndpointTypes, Guards
  <2>2. CASE OpenByCaller
    BY <2>2 DEF OpenByCaller, Lowest, Serial, EndpointTypes
  <2>3. CASE CloseByCaller
    BY <2>3 DEF CloseByCaller, Serial, EndpointTypes
  <2> QED  BY <2>1, <2>2, <2>3
<1>2. EndpointTypes'
  BY <1>1 DEF Serial, EndpointTypes
<1>3. CallsInv'
  BY <1>1 DEF Serial, CallsInv, Informed
<1>4. HolderInv'
  BY <1>1 DEF Serial, HolderInv, Own
<1>5. SnapshotInv'
  BY <1>1 DEF Serial, SnapshotInv, Taken
<1> QED  BY <1>2, <1>3, <1>4, <1>5 DEF Serial

\* A step of one reader, of whose snapshot s it is known that it is taken.
LEMMA ReaderKeeps ==
    ASSUME Serial, NEW t \in Callers, NEW c \in Calls, NEW s \in Snapshots,
           call' = [call EXCEPT ![t] = c], snapshot' = [snapshot EXCEPT ![t] = s],
           ~Changes(call[t]), ~Changes(c), Standing(c),
           guard' \in Guards, guard'.fd = guard.fd, guard'.session = guard.session,
           UNCHANGED <<generation, reachable, holder, lapsed>>,
           Taken(c, s, guard, generation),
           \A u \in Callers : Copies(c) /\ ~s.torn => ~Changes(call[u]),
           \A u \in Callers : call[u].at \in {"init", "arm"} /\ Kept(c, s) => s.generation < generation
    PROVE  Serial'
<1>1. /\ call'[t] = c /\ \A u \in Callers \ {t} : call'[u] = call[u]
      /\ snapshot'[t] = s /\ \A u \in Callers \ {t} : snapshot'[u] = snapshot[u]
  BY DEF Serial, EndpointTypes
<1>2. EndpointTypes'
  BY DEF Serial, EndpointTypes
<1>3. \A u \in Callers : Taken(call'[u], snapshot'[u], guard', generation')
  <2>1. \A u \in Callers : Taken(call'[u], snapshot'[u], guard, generation)
    BY <1>1 DEF Serial, SnapshotInv
  <2> QED  BY <2>1 DEF Taken
<1>4. \A u, v \in Callers : Copies(call'[u]) /\ ~snapshot'[u].torn => ~Changes(call'[v])
  BY <1>1 DEF Serial, SnapshotInv
<1>5. c.at \notin {"init", "arm"}
  BY Idlers
<1>6. \A u, v \in Callers : call'[v].at \in {"init", "arm"} /\ Kept(call'[u], snapshot'[u]) =>
          snapshot'[u].generation < generation'
  BY <1>1, <1>5 DEF Serial, SnapshotInv
<1>7. SnapshotInv'
  BY <1>3, <1>4, <1>6 DEF SnapshotInv
<1> QED  BY <1>2, <1>7, BystanderKeeps

LEMMA BlankSnapshot ==
    /\ NoSnapshot \in Snapshots /\ NoSnapshot.fd = NoFd /\ NoSnapshot.torn = FALSE
    /\ \A b \in BOOLEAN : /\ [NoSnapshot EXCEPT !.torn = b] \in Snapshots
                          /\ [NoSnapshot EXCEPT !.torn = b].fd = NoFd
                          /\ [NoSnapshot EXCEPT !.torn = b].torn = b
  BY DEF NoSnapshot, Snapshots, Fds

\* A snapshot begins with a blank one, a commit goes on with the one it was given.
LEMMA SnapshotKeeps ==
    ASSUME Serial, NEW t \in Callers, Snapshot(t), ~clash'
    PROVE  Serial'
<1> DEFINE s == [NoSnapshot EXCEPT !.torn = Changing # {}]
<1>c. PICK c \in Calls : c = [NoCall EXCEPT !.op = "snapshot", !.at = "copy"]
  BY DEF NoCall, Calls, Fds
<1>1. c.op = "snapshot" /\ c.at = "copy" /\ ~Changes(c) /\ Standing(c)
  <2>1. c.op = "snapshot" /\ c.at = "copy" /\ c.ttl = FALSE
    BY <1>c DEF NoCall
  <2> QED  BY <2>1 DEF Changes, Standing
<1>2. /\ call' = [call EXCEPT ![t] = c] /\ snapshot' = [snapshot EXCEPT ![t] = s]
      /\ call[t] = NoCall /\ UNCHANGED <<guard, generation, reachable, holder, lapsed>>
  BY <1>c, BlankSnapshot DEF Snapshot, BeginCopy
<1>3. s \in Snapshots /\ s.fd = NoFd /\ (s.torn <=> Changing # {})
  BY BlankSnapshot
<1> HIDE DEF s
<1>4. Taken(c, s, guard, generation) /\ ~Kept(c, s)
  BY <1>1, <1>3 DEF Taken, Kept
<1>5. \A u \in Callers : ~s.torn => ~Changes(call[u])
  BY <1>3 DEF Changing, Changes
<1>6. guard \in Guards
  BY DEF Serial, EndpointTypes
<1> QED  BY <1>1, <1>2, <1>3, <1>4, <1>5, <1>6, TheEnd, ReaderKeeps

LEMMA CommitKeeps ==
    ASSUME Serial, NEW t \in Callers, Commit(t), ~clash'
    PROVE  Serial'
<1> DEFINE s == [snapshot[t] EXCEPT !.torn = snapshot[t].torn \/ Changing # {}]
<1>c. PICK c \in Calls : c = [NoCall EXCEPT !.op = "commit", !.at = "refresh"]
  BY DEF NoCall, Calls, Fds
<1>1. c.op = "commit" /\ c.at = "refresh" /\ ~Changes(c) /\ Standing(c)
  <2>1. c.op = "commit" /\ c.at = "refresh" /\ c.ttl = FALSE
    BY <1>c DEF NoCall
  <2> QED  BY <2>1 DEF Changes, Standing
<1>2. /\ call' = [call EXCEPT ![t] = c] /\ snapshot' = [snapshot EXCEPT ![t] = s]
      /\ call[t] = NoCall /\ UNCHANGED <<guard, generation, reachable, holder, lapsed>>
      /\ snapshot[t].fd # NoFd /\ guard.fd # NoFd /\ generation = snapshot[t].generation
  BY <1>c DEF Commit, BeginCopy
<1>3. /\ s \in Snapshots /\ s.fd = snapshot[t].fd /\ s.generation = snapshot[t].generation
      /\ s.session = snapshot[t].session /\ (s.torn <=> snapshot[t].torn \/ Changing # {})
  BY DEF Serial, EndpointTypes, Snapshots
<1> HIDE DEF s
<1>4. Kept(c, s) => Kept(call[t], snapshot[t])
  BY <1>2, <1>3, TheEnd DEF Kept
<1>5. Taken(c, s, guard, generation)
  <2>1. Taken(call[t], snapshot[t], guard, generation)
    BY DEF Serial, SnapshotInv
  <2>2. Kept(c, s) => /\ s.generation <= generation
                      /\ s.generation = generation /\ guard.fd # NoFd =>
                            guard.fd = s.fd /\ guard.session = s.session
    BY <1>3, <1>4, <2>1 DEF Taken
  <2> QED  BY <1>1, <1>2, <1>3, <2>2 DEF Taken
<1>6. \A u \in Callers : ~s.torn => ~Changes(call[u])
  BY <1>3 DEF Changing, Changes
<1>7. \A u \in Callers : call[u].at \in {"init", "arm"} /\ Kept(c, s) => s.generation < generation
  BY <1>3, <1>4 DEF Serial, SnapshotInv
<1>8. guard \in Guards
  BY DEF Serial, EndpointTypes
<1> QED  BY <1>1, <1>2, <1>3, <1>5, <1>6, <1>7, <1>8, TheEnd, ReaderKeeps

LEMMA CopyFdKeeps ==
    ASSUME Serial, NEW t \in Callers, CopyFd(t), ~clash'
    PROVE  Serial'
<1> USE DEF CopyFd, Return, GoOn, Goes, IsAt
<1>1. call[t] \in Calls /\ Standing(call[t]) /\ call[t].at = "copy" /\ guard \in Guards
  BY DEF Serial, EndpointTypes, CallsInv
<1>2. call[t].op = "snapshot"
  BY <1>1 DEF Standing, Calls, NoCall
<1>n. ~Changes(call[t]) /\ UNCHANGED <<guard, generation, reachable, holder, lapsed>>
  BY <1>2 DEF Changes
<1>3. CASE guard.fd = NoFd
  <2>1. call' = [call EXCEPT ![t] = NoCall] /\ snapshot' = [snapshot EXCEPT ![t] = NoSnapshot]
    BY <1>3
  <2>2. Taken(NoCall, NoSnapshot, guard, generation) /\ ~Kept(NoCall, NoSnapshot) /\ ~Copies(NoCall)
    BY BlankSnapshot, TheEnd DEF Taken, Kept, Copies
  <2> QED  BY <1>1, <1>n, <2>1, <2>2, BlankSnapshot, TheEnd, ReaderKeeps
<1>4. CASE guard.fd # NoFd
  <2> DEFINE s == [snapshot[t] EXCEPT !.fd = guard.fd, !.session = guard.session]
  <2>o. PICK o \in Calls : o = call[t]
    BY <1>1
  <2>c. PICK c \in Calls : c = [o EXCEPT !.at = "stamp"]
    BY DEF Calls
  <2>1. c.op = "snapshot" /\ c.at = "stamp" /\ ~Changes(c) /\ Standing(c)
    <3>1. c.op = "snapshot" /\ c.at = "stamp" /\ c.ttl = o.ttl
      BY <1>2, <2>o, <2>c DEF Calls
    <3>2. ~o.ttl
      BY <1>1, <1>2, <2>o DEF Standing
    <3> QED  BY <3>1, <3>2 DEF Changes, Standing
  <2>2. call' = [call EXCEPT ![t] = c] /\ snapshot' = [snapshot EXCEPT ![t] = s]
    <3>1. call' = [call EXCEPT ![t] = c]
      BY <1>4, <2>o, <2>c
    <3>2. snapshot' = [snapshot EXCEPT ![t] = s]
      BY <1>4
    <3> QED  BY <3>1, <3>2
  <2>3. /\ s \in Snapshots /\ s.fd = guard.fd /\ s.session = guard.session
        /\ s.torn = snapshot[t].torn
    <3>1. snapshot[t] \in Snapshots /\ guard.fd \in Fds /\ guard.session \in Nat
      BY <1>1 DEF Serial, EndpointTypes, Guards
    <3>2. PICK z \in Snapshots, d \in Fds, n \in Nat :
             z = snapshot[t] /\ d = guard.fd /\ n = guard.session
      BY <3>1
    <3>3. s = [z EXCEPT !.fd = d, !.session = n]
      BY <3>2
    <3> HIDE DEF s
    <3>4. s \in Snapshots /\ s.fd = d /\ s.session = n /\ s.torn = z.torn
      BY ONLY <3>3, z \in Snapshots, d \in Fds, n \in Nat DEF Snapshots
    <3> QED  BY <3>2, <3>4
  <2> HIDE DEF s
  <2>4. Taken(c, s, guard, generation) /\ ~Kept(c, s)
    BY <2>1, <2>3 DEF Taken, Kept
  <2>5. \A u \in Callers : ~s.torn => ~Changes(call[u])
    BY <1>2, <2>3 DEF Serial, SnapshotInv, Copies
  <2> QED  BY <1>1, <1>n, <2>1, <2>2, <2>3, <2>4, <2>5, ReaderKeeps
<1> QED  BY <1>3, <1>4

LEMMA CopyGenerationKeeps ==
    ASSUME Serial, NEW t \in Callers, CopyGeneration(t), ~clash'
    PROVE  Serial'
<1> USE DEF CopyGeneration, Return, Goes, IsAt
<1> DEFINE s == [snapshot[t] EXCEPT !.generation = generation]
<1>1. call[t] \in Calls /\ Standing(call[t]) /\ call[t].at = "stamp" /\ guard \in Guards
  BY DEF Serial, EndpointTypes, CallsInv
<1>2. Copies(call[t])
  BY <1>1, Copiers
<1>n. ~Changes(call[t]) /\ UNCHANGED <<guard, generation, reachable, holder, lapsed>>
  BY <1>2 DEF Changes, Copies
<1>3. call' = [call EXCEPT ![t] = NoCall] /\ snapshot' = [snapshot EXCEPT ![t] = s]
  OBVIOUS
<1>4. /\ s \in Snapshots /\ s.fd = snapshot[t].fd /\ s.session = snapshot[t].session
      /\ s.torn = snapshot[t].torn /\ s.generation = generation /\ generation \in Nat
  BY DEF Serial, EndpointTypes, Snapshots
<1> HIDE DEF s
<1>5. Taken(NoCall, s, guard, generation)
  <2>1. Taken(call[t], snapshot[t], guard, generation)
    BY DEF Serial, SnapshotInv
  <2> QED  BY <1>1, <1>4, <2>1, TheEnd DEF Taken, Kept
<1>6. \A u \in Callers : ~s.torn => call[u].at \notin {"init", "arm"}
  <2>1. TAKE u \in Callers
  <2>2. HAVE ~s.torn
  <2>3. ~Changes(call[u])
    BY <1>2, <1>4, <2>2 DEF Serial, SnapshotInv
  <2> QED  BY <2>3, Idlers DEF Serial, CallsInv, EndpointTypes
<1>7. ~Copies(NoCall)
  BY TheEnd DEF Copies
<1>8. Kept(NoCall, s) => ~s.torn
  BY DEF Kept
<1> QED  BY <1>1, <1>n, <1>3, <1>4, <1>5, <1>6, <1>7, <1>8, TheEnd, ReaderKeeps

\* The end of a commit, with or without the refresh.
LEMMA CommittedKeeps ==
    ASSUME Serial, NEW t \in Callers, CommitStale(t) \/ Refresh(t), ~clash'
    PROVE  Serial'
<1> USE DEF CommitStale, Refresh, Return, Goes, IsAt
<1>1. call[t] \in Calls /\ Standing(call[t]) /\ guard \in Guards /\ call \in [Callers -> Calls]
  BY DEF Serial, EndpointTypes, CallsInv
<1>2. /\ call' = [call EXCEPT ![t] = NoCall] /\ snapshot' = [snapshot EXCEPT ![t] = NoSnapshot]
      /\ UNCHANGED <<generation, reachable, holder, lapsed>>
  BY <1>1
<1>3. ~Changes(call[t])
  BY <1>1, Copiers, TheEnd DEF Changes, Copies
<1>4. guard' \in Guards /\ guard'.fd = guard.fd /\ guard'.session = guard.session
  BY <1>1 DEF Guards
<1>5. Taken(NoCall, NoSnapshot, guard, generation) /\ ~Kept(NoCall, NoSnapshot) /\ ~Copies(NoCall)
  BY BlankSnapshot, TheEnd DEF Taken, Kept, Copies
<1> QED  BY <1>2, <1>3, <1>4, <1>5, BlankSnapshot, TheEnd, ReaderKeeps

-----------------------------------------------------------------------------
LEMMA EndpointStep == EndpointInv /\ [EndpointNext]_endpointVars => EndpointInv'
<1> SUFFICES ASSUME EndpointInv, [EndpointNext]_endpointVars, ~clash'
             PROVE  Serial'
  BY DEF EndpointInv
<1>1. CASE UNCHANGED endpointVars
  <2>1. Serial
    BY <1>1 DEF EndpointInv, endpointVars
  <2> QED  BY <1>1, <2>1 DEF endpointVars, Serial, EndpointTypes, CallsInv, HolderInv, SnapshotInv
<1>2. CASE OpenByCaller \/ CloseByCaller \/ Expiry
  <2>1. ~clash
    BY <1>2 DEF OpenByCaller, CloseByCaller, Expiry
  <2> QED  BY <1>2, <2>1, OutsideKeeps DEF EndpointInv
<1>3. ASSUME NEW t \in Callers, NEW d \in Descriptors, NEW ttl \in BOOLEAN, NEW addr \in BOOLEAN,
             BindFd(t, d, ttl, addr)
      PROVE  Serial'
  <2>1. ~clash
    BY <1>3 DEF BindFd, BeginChange, Room
  <2> QED  BY <1>3, <2>1, BindKeeps DEF EndpointInv
<1>4. ASSUME NEW t \in Callers, EndpointClose(t) \/ Restart(t)
      PROVE  Serial'
  <2>1. ~clash
    BY <1>4 DEF EndpointClose, Restart, BeginChange, Room
  <2> QED  BY <1>4, <2>1, CloseKeeps, RestartKeeps DEF EndpointInv
<1>5. ASSUME NEW t \in Callers, Connected(t) \/ Shut(t) \/ ClearGuard(t) \/ ReadGeneration(t)
      PROVE  Serial'
  <2>1. ~clash
    BY <1>5 DEF Connected, Shut, ClearGuard, ReadGeneration, GoOn, Goes
  <2> QED  BY <1>5, <2>1, ConnectedKeeps, ShutKeeps, ClearKeeps, ReadKeeps DEF EndpointInv
<1>6. ASSUME NEW t \in Callers,
             WriteGeneration(t) \/ Wipe(t) \/ Arm(t) \/ ConnectFails(t) \/ InitRefused(t)
      PROVE  Serial'
  <2>1. ~clash
    BY <1>6 DEF WriteGeneration, Wipe, Arm, ConnectFails, InitRefused, Return, GoOn, Goes
  <2> QED  BY <1>6, <2>1, WriteKeeps, WipeKeeps, ArmKeeps, FailureKeeps DEF EndpointInv
<1>7. ASSUME NEW t \in Callers, Snapshot(t) \/ CopyFd(t) \/ CopyGeneration(t)
      PROVE  Serial'
  <2>1. ~clash
    BY <1>7 DEF Snapshot, CopyFd, CopyGeneration, BeginCopy, Return, GoOn, Goes
  <2> QED  BY <1>7, <2>1, SnapshotKeeps, CopyFdKeeps, CopyGenerationKeeps DEF EndpointInv
<1>8. ASSUME NEW t \in Callers, Commit(t) \/ CommitStale(t) \/ Refresh(t)
      PROVE  Serial'
  <2>1. ~clash
    BY <1>8 DEF Commit, CommitStale, Refresh, BeginCopy, Return, Goes
  <2> QED  BY <1>8, <2>1, CommitKeeps, CommittedKeeps DEF EndpointInv
<1> QED  BY <1>1, <1>2, <1>3, <1>4, <1>5, <1>6, <1>7, <1>8 DEF EndpointNext

LEMMA EndpointPromise == EndpointInv => EndpointFds
<1> SUFFICES ASSUME Serial PROVE
      /\ {d \in Descriptors : holder[d] = "endpoint"} = lapsed \union Guarded \union Coming
      /\ lapsed \intersect (Guarded \union Coming) = {} /\ Guarded \intersect Coming = {}
      /\ \A t \in Callers :
            /\ IsAt(t, "shut") /\ call[t].closing # NoFd => holder[call[t].closing] = "endpoint"
            /\ IsAt(t, "refresh") /\ ~snapshot[t].torn =>
                  guard.fd = snapshot[t].fd /\ guard.session = snapshot[t].session
  BY DEF EndpointInv, EndpointFds
<1>1. Guarded = GuardedIn(call, guard.fd) /\ Coming = ComingIn(call)
  BY DEF Guarded, GuardedIn, Coming, ComingIn
<1>2. Guarded \subseteq Descriptors /\ Coming \subseteq Descriptors /\ lapsed \subseteq Descriptors
  <2>1. guard.fd \in Fds
    BY DEF Serial, EndpointTypes, Guards
  <2>2. \A t \in Callers : call[t].op = "restart" \/ call[t].ttl => call[t].opened \in Descriptors
    BY DEF Serial, CallsInv, Standing
  <2>3. Guarded \subseteq Descriptors
    BY <2>1 DEF Guarded, Fds
  <2>4. Coming \subseteq Descriptors
    BY <2>2 DEF Coming
  <2> QED  BY <2>3, <2>4 DEF Serial, EndpointTypes
<1>3. Own(holder, lapsed, Guarded, Coming)
  BY <1>1 DEF Serial, HolderInv
<1>4. ASSUME NEW t \in Callers, call[t].at = "shut", call[t].closing # NoFd
      PROVE  holder[call[t].closing] = "endpoint"
  <2>1. Changes(call[t])
    BY <1>4, AtChanger DEF Serial, CallsInv, EndpointTypes
  <2>2. Own(holder, lapsed, GuardedBy(call[t], guard.fd), ComingBy(call[t])) /\ call[t].closing = guard.fd
    BY <1>4, <2>1, Changer DEF Informed
  <2>3. guard.fd \in Descriptors /\ guard.fd \in GuardedBy(call[t], guard.fd)
    BY <1>4, <2>2 DEF GuardedBy, Serial, EndpointTypes, Guards, Fds
  <2> QED  BY <2>2, <2>3 DEF Own
<1>5. ASSUME NEW t \in Callers, call[t].at = "refresh", ~snapshot[t].torn
      PROVE  guard.fd = snapshot[t].fd /\ guard.session = snapshot[t].session
  <2>1. Taken(call[t], snapshot[t], guard, generation) /\ call[t].op # "snapshot"
    BY <1>5 DEF Serial, SnapshotInv, CallsInv, Standing
  <2> QED  BY <1>5, <2>1 DEF Taken, Kept
<1> QED  BY <1>2, <1>3, <1>4, <1>5 DEF Own, IsAt

\* As long as the calls that change the endpoint are made one at a time, it
\* closes only what is its own and knows of every descriptor it has open, and no
\* commit prolongs another socket's guard than the one its snapshot, taken and
\* committed while none of them runs, is of: whatever else overlaps, however
\* often numbers come back.
THEOREM DescriptorsOwn == EndpointSpec => []EndpointFds
  BY EndpointStart, EndpointStep, EndpointPromise, PTL DEF EndpointSpec
(***************************************************************************)
(* Detachable memory.                                                       *)
(***************************************************************************)

\* The stages in which a call carries a chunk.
Carries == {"track", "quarantine", "store", "untrack"}

\* Types; chunks are counted as released up to two.
ArenaTypes ==
    /\ rows \in [0 .. MatrixRows - 1 -> Seq(Chunks \union {Null})]
    /\ activeRow \in 0 .. MatrixRows - 1
    /\ slots \in [0 .. CacheSlots - 1 -> Chunks \union {Null}]
    /\ head \in 0 .. CacheSlots - 1 /\ tail \in 0 .. CacheSlots - 1 /\ cached \in 0 .. CacheSlots
    /\ quarantine \in Seq(Chunks)
    /\ fresh \subseteq Chunks /\ evicted \subseteq Chunks
    /\ owned \in [Clients -> SUBSET Chunks]
    /\ stage \in [Clients -> Carries \union {"idle", "destroyed"}]
    /\ hand \in [Clients -> Chunks \union {Null}] /\ kept \in [Clients -> BOOLEAN]
    /\ released \in [Chunks -> 0 .. 2]

\* A call carries a chunk; it is kept only when the call is about to end.
HandInv ==
    /\ \A t \in Clients : hand[t] \in Chunks <=> stage[t] \in Carries
    /\ \A t \in Clients : kept[t] => stage[t] = "untrack"

\* Only the active row has entries.
RowInv ==
    \A r \in 0 .. MatrixRows - 1 : Len(rows[r]) <= IF r = activeRow THEN Generations ELSE 0

\* The cache is a ring: its entries are those from head on, as many as cached says.
CacheInv ==
    /\ tail = (head + cached) % CacheSlots
    /\ \A i \in 0 .. CacheSlots - 1 : slots[(head + i) % CacheSlots] # Null <=> i < cached

\* The places of a chunk: a client (its own, or in a call that still carries it), the cache,
\* the quarantine; and where the active row notes it.
HeldBy(p) == {t \in Clients : p \in owned[t] \/ (hand[t] = p /\ ~kept[t])}
CachedAt(p) == {i \in DOMAIN slots : slots[i] = p}
HeldAt(p) == {i \in DOMAIN quarantine : quarantine[i] = p}
TrackedAt(p) == {i \in DOMAIN rows[activeRow] : rows[activeRow][i] = p}
Users(p) == {t \in Clients : \/ p \in owned[t]
                             \/ hand[t] = p /\ stage[t] \in Carries \ {"track"}}

\* A chunk has an entry in the active row for each client that uses it and each
\* call that has yet to untrack it; a fresh one is nowhere.
Placed(p) ==
    /\ Cardinality(TrackedAt(p)) = Cardinality(Users(p))
    /\ \A t \in Clients : hand[t] = p => p \notin owned[t]
    /\ IF p \in fresh
       THEN HeldBy(p) = {} /\ CachedAt(p) = {} /\ HeldAt(p) = {} /\ Users(p) = {} /\ released[p] = 0
       ELSE Cardinality(HeldBy(p)) + Cardinality(CachedAt(p)) + Cardinality(HeldAt(p))
                + released[p] = 1

ChunkInv == \A p \in Chunks \ evicted : Placed(p)

ArenaInv == ArenaTypes /\ HandInv /\ RowInv /\ CacheInv /\ ChunkInv

-----------------------------------------------------------------------------

\* The ring of the cache.
Wrapped(a) == IF a < CacheSlots THEN a ELSE a - CacheSlots

\* Positions of the ring: adding less than its length wraps at most once.
LEMMA CacheRing ==
    ASSUME NEW h \in 0 .. CacheSlots - 1, NEW i \in 0 .. CacheSlots
    PROVE  (h + i) % CacheSlots = Wrapped(h + i) /\ Wrapped(h + i) \in 0 .. CacheSlots - 1
<1>1. CacheSlots \in Nat \ {0}
  BY DetachableAssumption
<1>2. \A a \in 0 .. 2 * CacheSlots - 1 : a % CacheSlots = Wrapped(a)
  BY <1>1 DEF Wrapped
<1>3. h + i \in 0 .. 2 * CacheSlots - 1 /\ Wrapped(h + i) \in 0 .. CacheSlots - 1
  BY <1>1 DEF Wrapped
<1> QED
  BY <1>2, <1>3

\* A counter that stops at two tells none from one and one from more.
LEMMA SaturatedCount ==
    ASSUME NEW a \in 0 .. 2, NEW b \in 0 .. 2
    PROVE  /\ Min({2, a + b}) \in 0 .. 2
           /\ a + b <= 2 => Min({2, a + b}) = a + b
<1> DEFINE S == {2, a + b}
<1> DEFINE m == IF a + b <= 2 THEN a + b ELSE 2
<1>1. m \in S /\ \A y \in S : m <= y
  OBVIOUS
<1>2. \A x \in S : (\A y \in S : x <= y) => x = m
  <2> SUFFICES ASSUME NEW x \in S, \A y \in S : x <= y PROVE x = m
    OBVIOUS
  <2>1. x <= m /\ m <= x /\ x \in Int /\ m \in Int
    BY <1>1
  <2> QED
    BY <2>1
<1>3. Min(S) = m
  <2> HIDE DEF S, m
  <2> QED
    BY <1>1, <1>2 DEF Min
<1> QED
  BY <1>3

\* What is released is counted once for each time it occurs.
LEMMA Counted ==
    ASSUME NEW S, IsFiniteSet(S)
    PROVE  /\ Cardinality(S) \in Nat /\ (Cardinality(S) = 0 <=> S = {})
           /\ \A x : x \notin S => Cardinality(S \union {x}) = Cardinality(S) + 1
           /\ \A x \in S : /\ Cardinality(S \ {x}) = Cardinality(S) - 1
                           /\ IsFiniteSet(S \ {x})
           /\ \A x : IsFiniteSet(S \union {x})
  BY FS_CardinalityType, FS_EmptySet, FS_AddElement, FS_RemoveElement

\* The places of a chunk are finitely many.
LEMMA PlacesFinite ==
    ASSUME ArenaTypes, NEW p
    PROVE  /\ IsFiniteSet(HeldBy(p)) /\ IsFiniteSet(CachedAt(p)) /\ IsFiniteSet(HeldAt(p))
           /\ IsFiniteSet(TrackedAt(p)) /\ IsFiniteSet(Users(p))
<1>1. IsFiniteSet(Clients)
  BY DetachableAssumption
<1>2. IsFiniteSet(HeldBy(p)) /\ IsFiniteSet(Users(p))
  <2>1. HeldBy(p) \subseteq Clients /\ Users(p) \subseteq Clients
    BY DEF HeldBy, Users
  <2> QED
    BY <1>1, <2>1, FS_Subset
<1>3. IsFiniteSet(CachedAt(p))
  <2>1. CachedAt(p) \subseteq 0 .. CacheSlots - 1
    BY DEF CachedAt, ArenaTypes
  <2>2. IsFiniteSet(0 .. CacheSlots - 1)
    BY DetachableAssumption, FS_Interval
  <2> QED
    BY <2>1, <2>2, FS_Subset
<1>4. IsFiniteSet(HeldAt(p))
  <2>1. Len(quarantine) \in Nat /\ HeldAt(p) \subseteq 1 .. Len(quarantine)
    BY DEF HeldAt, ArenaTypes
  <2>2. IsFiniteSet(1 .. Len(quarantine))
    BY <2>1, FS_Interval
  <2> QED
    BY <2>1, <2>2, FS_Subset
<1>5. IsFiniteSet(TrackedAt(p))
  <2>1. rows[activeRow] \in Seq(Chunks \union {Null})
    BY DEF ArenaTypes
  <2>2. Len(rows[activeRow]) \in Nat /\ TrackedAt(p) \subseteq 1 .. Len(rows[activeRow])
    BY <2>1 DEF TrackedAt
  <2>3. IsFiniteSet(1 .. Len(rows[activeRow]))
    BY <2>2, FS_Interval
  <2> QED
    BY <2>2, <2>3, FS_Subset
<1> QED
  BY <1>2, <1>3, <1>4, <1>5

\* A chunk that has a holder is nowhere else, and so on.
LEMMA Alone ==
    ASSUME ArenaTypes, NEW p \in Chunks, Placed(p)
    PROVE  /\ TrackedAt(p) = {} <=> Users(p) = {}
           /\ HeldBy(p) # {} =>
                 CachedAt(p) = {} /\ HeldAt(p) = {} /\ released[p] = 0 /\ Cardinality(HeldBy(p)) = 1
           /\ CachedAt(p) # {} =>
                 HeldBy(p) = {} /\ HeldAt(p) = {} /\ released[p] = 0 /\ Cardinality(CachedAt(p)) = 1
           /\ HeldAt(p) # {} =>
                 HeldBy(p) = {} /\ CachedAt(p) = {} /\ released[p] = 0 /\ Cardinality(HeldAt(p)) = 1
           /\ p \notin fresh /\ HeldBy(p) = {} /\ CachedAt(p) = {} /\ HeldAt(p) = {} =>
                 released[p] = 1
           /\ p \in fresh => TrackedAt(p) = {}
<1> DEFINE H == HeldBy(p)  C == CachedAt(p)  Q == HeldAt(p)  T == TrackedAt(p)  U == Users(p)
<1>1. /\ Cardinality(H) \in Nat /\ (Cardinality(H) = 0 <=> H = {})
      /\ Cardinality(C) \in Nat /\ (Cardinality(C) = 0 <=> C = {})
      /\ Cardinality(Q) \in Nat /\ (Cardinality(Q) = 0 <=> Q = {})
      /\ Cardinality(T) \in Nat /\ (Cardinality(T) = 0 <=> T = {})
      /\ Cardinality(U) \in Nat /\ (Cardinality(U) = 0 <=> U = {})
  BY PlacesFinite, Counted
<1>2. released[p] \in Nat
  BY DEF ArenaTypes
<1>3. /\ Cardinality(T) = Cardinality(U)
      /\ IF p \in fresh
         THEN H = {} /\ C = {} /\ Q = {} /\ U = {} /\ released[p] = 0
         ELSE Cardinality(H) + Cardinality(C) + Cardinality(Q) + released[p] = 1
  BY DEF Placed
<1> HIDE DEF H, C, Q, T, U
<1>4. /\ T = {} <=> U = {}
      /\ H # {} => C = {} /\ Q = {} /\ released[p] = 0 /\ Cardinality(H) = 1
      /\ C # {} => H = {} /\ Q = {} /\ released[p] = 0 /\ Cardinality(C) = 1
      /\ Q # {} => H = {} /\ C = {} /\ released[p] = 0 /\ Cardinality(Q) = 1
      /\ p \notin fresh /\ H = {} /\ C = {} /\ Q = {} => released[p] = 1
      /\ p \in fresh => T = {}
  <2>1. CASE p \in fresh
    BY <1>1, <1>2, <1>3, <2>1
  <2>2. CASE p \notin fresh
    BY <1>1, <1>2, <1>3, <2>2
  <2> QED
    BY <2>1, <2>2
<1> QED
  BY <1>4 DEF H, C, Q, T, U

\* A step that leaves a chunk where it is.
LEMMA StaysPut ==
    ASSUME NEW p \in Chunks, Placed(p),
           TrackedAt(p)' = TrackedAt(p), Users(p)' = Users(p), HeldBy(p)' = HeldBy(p),
           CachedAt(p)' = CachedAt(p), HeldAt(p)' = HeldAt(p), released'[p] = released[p],
           p \in fresh' <=> p \in fresh,
           \A t \in Clients : hand'[t] = p => p \notin owned'[t]
    PROVE  Placed(p)'
  BY DEF Placed

\* ttak_detachable_cache_take
LEMMA TakeCachedKeeps ==
    ASSUME ArenaInv, NEW t \in Clients, TakeCached(t)
    PROVE  ArenaInv'
<1> DEFINE x == slots[head]
<1>1. ArenaTypes /\ HandInv /\ RowInv /\ CacheInv /\ ChunkInv
  BY DEF ArenaInv
<1>2. /\ CacheSlots \in Nat \ {0} /\ MatrixRows \in Nat \ {0} /\ Null \notin Chunks
  BY DetachableAssumption
<1>3. x # Null /\ x \in Chunks /\ cached \in 1 .. CacheSlots
  <2>1. cached \in 1 .. CacheSlots
    BY <1>1 DEF TakeCached, ArenaTypes
  <2>2. head \in 0 .. CacheSlots - 1 /\ 0 \in 0 .. CacheSlots - 1 /\ (head + 0) % CacheSlots = head
    <3>1. head \in 0 .. CacheSlots - 1 /\ 0 \in 0 .. CacheSlots /\ 0 \in 0 .. CacheSlots - 1
      BY <1>1, <1>2 DEF ArenaTypes
    <3>2. (head + 0) % CacheSlots = Wrapped(head + 0)
      BY <3>1, CacheRing
    <3>3. Wrapped(head + 0) = head
      BY <1>2, <3>1 DEF Wrapped
    <3> QED
      BY <3>1, <3>2, <3>3
  <2>3. slots[head] # Null
    BY <1>1, <2>1, <2>2 DEF CacheInv
  <2> QED
    BY <1>1, <2>1, <2>2, <2>3 DEF ArenaTypes
<1>4. /\ stage[t] = "idle" /\ hand[t] \notin Chunks /\ ~kept[t]
      /\ stage' = [stage EXCEPT ![t] = "track"] /\ hand' = [hand EXCEPT ![t] = x]
      /\ slots' = [slots EXCEPT ![head] = Null]
      /\ head' = (head + 1) % CacheSlots /\ cached' = cached - 1
      /\ UNCHANGED <<rows, activeRow, tail, quarantine, fresh, owned, kept, released, evicted>>
  BY <1>1 DEF TakeCached, Go, HandInv, matrix, Carries
<1> HIDE DEF x
<1>5. ArenaTypes'
  <2>1. slots' \in [0 .. CacheSlots - 1 -> Chunks \union {Null}]
    BY <1>1, <1>4 DEF ArenaTypes
  <2>2. head' \in 0 .. CacheSlots - 1
    <3>1. head \in 0 .. CacheSlots - 1 /\ 1 \in 0 .. CacheSlots
      BY <1>1, <1>2 DEF ArenaTypes
    <3> QED
      BY <1>4, <3>1, CacheRing
  <2>3. cached' \in 0 .. CacheSlots
    BY <1>2, <1>3, <1>4
  <2>4. hand' \in [Clients -> Chunks \union {Null}]
    BY <1>1, <1>3, <1>4 DEF ArenaTypes
  <2>5. stage' \in [Clients -> Carries \union {"idle", "destroyed"}]
    BY <1>1, <1>4 DEF ArenaTypes, Carries
  <2> QED
    BY <1>1, <1>4, <2>1, <2>2, <2>3, <2>4, <2>5 DEF ArenaTypes
<1>6. HandInv'
  BY <1>1, <1>3, <1>4 DEF ArenaTypes, HandInv, Carries
<1>7. RowInv'
  BY <1>1, <1>4 DEF RowInv
<1>8. CacheInv'
  <2>1. /\ head \in 0 .. CacheSlots - 1 /\ 1 \in 0 .. CacheSlots
        /\ cached \in 0 .. CacheSlots /\ cached \in 1 .. CacheSlots
    BY <1>1, <1>2, <1>3 DEF ArenaTypes
  <2>2. head' \in 0 .. CacheSlots - 1 /\ cached' \in 0 .. CacheSlots /\ cached' = cached - 1
    BY <1>4, <1>5 DEF ArenaTypes
  <2>5. head' = Wrapped(head + 1)
    BY <1>4, <2>1, CacheRing
  <2>3. tail' = (head' + cached') % CacheSlots
    <3>1. Wrapped(Wrapped(head + 1) + (cached - 1)) = Wrapped(head + cached)
      BY <1>2, <2>1 DEF Wrapped
    <3>2. tail = Wrapped(head + cached)
      BY <1>1, <2>1, CacheRing DEF CacheInv
    <3>3. (head' + cached') % CacheSlots = Wrapped(head' + cached')
      BY <2>2, CacheRing
    <3> QED
      BY <1>4, <2>2, <2>5, <3>1, <3>2, <3>3
  <2>4. ASSUME NEW i \in 0 .. CacheSlots - 1
        PROVE  slots'[(head' + i) % CacheSlots] # Null <=> i < cached'
    <3>1. CASE i = CacheSlots - 1
      <4>3. Wrapped(Wrapped(head + 1) + i) = head /\ i \in 0 .. CacheSlots
        BY <1>2, <2>1, <3>1 DEF Wrapped
      <4>1. (head' + i) % CacheSlots = head
        BY <2>2, <2>5, <4>3, CacheRing
      <4>2. slots'[head] = Null
        BY <1>1, <1>4, <2>1 DEF ArenaTypes
      <4> QED
        BY <1>2, <1>3, <1>4, <3>1, <4>1, <4>2
    <3>2. CASE i < CacheSlots - 1
      <4>1. /\ i + 1 \in 0 .. CacheSlots - 1
            /\ (head' + i) % CacheSlots = (head + (i + 1)) % CacheSlots
            /\ (head + (i + 1)) % CacheSlots # head
            /\ (head + (i + 1)) % CacheSlots \in 0 .. CacheSlots - 1
        <5>1. /\ i + 1 \in 0 .. CacheSlots - 1 /\ i \in 0 .. CacheSlots /\ i + 1 \in 0 .. CacheSlots
              /\ Wrapped(Wrapped(head + 1) + i) = Wrapped(head + (i + 1))
              /\ Wrapped(head + (i + 1)) # head
          BY <1>2, <2>1, <3>2 DEF Wrapped
        <5>2. (head' + i) % CacheSlots = Wrapped(head' + i)
          BY <2>2, <5>1, CacheRing
        <5>3. /\ (head + (i + 1)) % CacheSlots = Wrapped(head + (i + 1))
              /\ Wrapped(head + (i + 1)) \in 0 .. CacheSlots - 1
          BY <2>1, <5>1, CacheRing
        <5> QED
          BY <2>5, <5>1, <5>2, <5>3
      <4>2. slots'[(head' + i) % CacheSlots] = slots[(head + (i + 1)) % CacheSlots]
        BY <1>1, <1>4, <4>1 DEF ArenaTypes
      <4>3. slots[(head + (i + 1)) % CacheSlots] # Null <=> i + 1 < cached
        BY <1>1, <4>1 DEF CacheInv
      <4> QED
        BY <1>3, <1>4, <4>2, <4>3
    <3> QED
      BY <1>2, <3>1, <3>2
  <2> QED
    BY <2>3, <2>4 DEF CacheInv
<1>9. ChunkInv'
  <2> SUFFICES ASSUME NEW p \in Chunks \ evicted PROVE Placed(p)'
    BY <1>4 DEF ChunkInv
  <2>1. Placed(p)
    BY <1>1 DEF ChunkInv
  <2>2. /\ TrackedAt(p)' = TrackedAt(p) /\ HeldAt(p)' = HeldAt(p) /\ released'[p] = released[p]
        /\ Users(p)' = Users(p)
    BY <1>1, <1>2, <1>3, <1>4 DEF TrackedAt, HeldAt, Users, ArenaTypes, Carries
  <2>3. CASE p # x
    <3>1. CachedAt(p)' = CachedAt(p)
      BY <1>1, <1>2, <1>4, <2>3 DEF CachedAt, ArenaTypes, x
    <3>2. HeldBy(p)' = HeldBy(p)
      BY <1>1, <1>4, <2>3 DEF HeldBy, ArenaTypes
    <3>3. \A u \in Clients : hand'[u] = p => p \notin owned'[u]
      BY <1>1, <1>4, <2>1, <2>3 DEF Placed, ArenaTypes
    <3> QED
      BY <1>4, <2>1, <2>2, <3>1, <3>2, <3>3, StaysPut
  <2>4. CASE p = x
    <3>1. head \in CachedAt(p)
      BY <1>1, <2>4 DEF CachedAt, ArenaTypes, x
    <3>2. HeldBy(p) = {} /\ HeldAt(p) = {} /\ released[p] = 0 /\ Cardinality(CachedAt(p)) = 1
      BY <1>1, <2>1, <3>1, Alone
    <3>3. p \notin fresh
      BY <2>1, <3>1 DEF Placed
    <3>4. CachedAt(p)' = CachedAt(p) \ {head}
      BY <1>1, <1>2, <1>4 DEF CachedAt, ArenaTypes
    <3>5. HeldBy(p)' = {t}
      BY <1>1, <1>4, <2>4, <3>2 DEF HeldBy, ArenaTypes
    <3>6. Cardinality(CachedAt(p)') = 0 /\ Cardinality(HeldBy(p)') = 1 /\ Cardinality(HeldAt(p)') = 0
      <4>1. CachedAt(p)' = {}
        <5>1. PICK S : S = CachedAt(p)
          OBVIOUS
        <5>2. IsFiniteSet(S) /\ Cardinality(S) = 1 /\ head \in S
          BY <1>1, <3>1, <3>2, <5>1, PlacesFinite
        <5>3. S \ {head} = {}
          <6>1. IsFiniteSet(S \ {head}) /\ Cardinality(S \ {head}) = 0
            BY <5>2, FS_RemoveElement
          <6> QED
            BY <6>1, FS_EmptySet
        <5> QED
          BY <3>4, <5>1, <5>3
      <4> QED
        BY <2>2, <3>2, <3>5, <4>1, FS_Singleton, FS_EmptySet
    <3>7. \A u \in Clients : hand'[u] = p => p \notin owned'[u]
      BY <1>1, <1>4, <3>2 DEF HeldBy
    <3> QED
      BY <1>4, <2>1, <2>2, <3>2, <3>3, <3>6, <3>7 DEF Placed
  <2> QED
    BY <2>3, <2>4
<1> QED
  BY <1>5, <1>6, <1>7, <1>8, <1>9 DEF ArenaInv

\* calloc
LEMMA TakeFreshKeeps ==
    ASSUME ArenaInv, NEW t \in Clients, TakeFresh(t)
    PROVE  ArenaInv'
<1>1. ArenaTypes /\ HandInv /\ RowInv /\ CacheInv /\ ChunkInv /\ Null \notin Chunks
  BY DetachableAssumption DEF ArenaInv
<1>2. PICK x : x = Unused
  OBVIOUS
<1>3. x \in fresh /\ x \in Chunks
  <2>1. Unused \in fresh
    BY DEF TakeFresh, Unused
  <2> QED
    BY <1>1, <1>2, <2>1 DEF ArenaTypes
<1>4. /\ stage[t] = "idle" /\ hand[t] \notin Chunks /\ ~kept[t]
      /\ stage' = [stage EXCEPT ![t] = "track"] /\ hand' = [hand EXCEPT ![t] = x]
      /\ fresh' = fresh \ {x}
      /\ UNCHANGED <<rows, activeRow, slots, head, tail, cached, quarantine, owned, kept, released,
                     evicted>>
  BY <1>1, <1>2 DEF TakeFresh, Go, HandInv, matrix, cache, Carries
<1>5. ArenaTypes'
  BY <1>1, <1>3, <1>4 DEF ArenaTypes, Carries
<1>6. HandInv'
  BY <1>1, <1>3, <1>4 DEF ArenaTypes, HandInv, Carries
<1>7. RowInv' /\ CacheInv'
  BY <1>1, <1>4 DEF RowInv, CacheInv
<1>8. ChunkInv'
  <2> SUFFICES ASSUME NEW p \in Chunks \ evicted PROVE Placed(p)'
    BY <1>4 DEF ChunkInv
  <2>1. Placed(p)
    BY <1>1 DEF ChunkInv
  <2>2. /\ TrackedAt(p)' = TrackedAt(p) /\ HeldAt(p)' = HeldAt(p) /\ released'[p] = released[p]
        /\ CachedAt(p)' = CachedAt(p)
    BY <1>4 DEF TrackedAt, HeldAt, CachedAt
  <2>3. Users(p)' = Users(p)
    BY <1>1, <1>4 DEF Users, ArenaTypes, Carries
  <2>4. CASE p # x
    <3>1. HeldBy(p)' = HeldBy(p)
      BY <1>1, <1>4, <2>4 DEF HeldBy, ArenaTypes
    <3>2. \A u \in Clients : hand'[u] = p => p \notin owned'[u]
      BY <1>1, <1>4, <2>1, <2>4 DEF Placed, ArenaTypes
    <3> QED
      BY <1>4, <2>1, <2>2, <2>3, <2>4, <3>1, <3>2, StaysPut
  <2>5. CASE p = x
    <3>1. HeldBy(p) = {} /\ CachedAt(p) = {} /\ HeldAt(p) = {} /\ released[p] = 0
      BY <1>3, <2>1, <2>5 DEF Placed
    <3>2. HeldBy(p)' = {t}
      BY <1>1, <1>4, <2>5, <3>1 DEF HeldBy, ArenaTypes
    <3>3. /\ Cardinality(HeldBy(p)') = 1 /\ Cardinality(CachedAt(p)') = 0
          /\ Cardinality(HeldAt(p)') = 0
      BY <2>2, <3>1, <3>2, FS_Singleton, FS_EmptySet
    <3>4. \A u \in Clients : hand'[u] = p => p \notin owned'[u]
      BY <1>1, <1>4, <3>1 DEF HeldBy
    <3> QED
      BY <1>4, <2>1, <2>2, <2>3, <2>5, <3>1, <3>3, <3>4 DEF Placed
  <2> QED
    BY <2>4, <2>5
<1> QED
  BY <1>5, <1>6, <1>7, <1>8 DEF ArenaInv

\* ttak_detachable_mem_free: the chunk passes from its owner to the call.
LEMMA FreeKeeps ==
    ASSUME ArenaInv, NEW t \in Clients, NEW x \in Chunks, NEW hot \in BOOLEAN, FreeChunk(t, x, hot)
    PROVE  ArenaInv'
<1>1. ArenaTypes /\ HandInv /\ RowInv /\ CacheInv /\ ChunkInv /\ Null \notin Chunks
  BY DetachableAssumption DEF ArenaInv
<1>2. PICK s \in {"quarantine", "untrack", "store"} : stage' = [stage EXCEPT ![t] = s]
  <2>1. PICK s : s = CASE hot -> "quarantine" [] "detached" \in flags -> "untrack" [] OTHER -> "store"
    OBVIOUS
  <2>2. s \in {"quarantine", "untrack", "store"}
    BY <2>1
  <2>3. stage' = [stage EXCEPT ![t] = s]
    BY <2>1 DEF FreeChunk, Go
  <2> QED
    BY <2>2, <2>3
<1>3. /\ x \in owned[t] /\ stage[t] = "idle" /\ hand[t] \notin Chunks /\ ~kept[t]
      /\ hand' = [hand EXCEPT ![t] = x] /\ owned' = [owned EXCEPT ![t] = @ \ {x}]
      /\ UNCHANGED <<rows, activeRow, slots, head, tail, cached, quarantine, fresh, kept, released,
                     evicted>>
  BY <1>1 DEF FreeChunk, Go, HandInv, matrix, cache, Carries
<1>4. ArenaTypes'
  <2>1. owned' \in [Clients -> SUBSET Chunks]
    BY <1>1, <1>3 DEF ArenaTypes
  <2> QED
    BY <1>1, <1>2, <1>3, <2>1 DEF ArenaTypes, Carries
<1>5. HandInv'
  BY <1>1, <1>2, <1>3 DEF ArenaTypes, HandInv, Carries
<1>6. RowInv' /\ CacheInv'
  BY <1>1, <1>3 DEF RowInv, CacheInv
<1>7. ChunkInv'
  <2> SUFFICES ASSUME NEW p \in Chunks \ evicted PROVE Placed(p)'
    BY <1>3 DEF ChunkInv
  <2>1. Placed(p)
    BY <1>1 DEF ChunkInv
  <2>2. /\ TrackedAt(p)' = TrackedAt(p) /\ HeldAt(p)' = HeldAt(p) /\ released'[p] = released[p]
        /\ CachedAt(p)' = CachedAt(p)
    BY <1>3 DEF TrackedAt, HeldAt, CachedAt
  <2>3. Users(p)' = Users(p)
    BY <1>1, <1>2, <1>3 DEF Users, ArenaTypes, Carries
  <2>4. HeldBy(p)' = HeldBy(p)
    BY <1>1, <1>3 DEF HeldBy, ArenaTypes
  <2>5. \A u \in Clients : hand'[u] = p => p \notin owned'[u]
    BY <1>1, <1>3, <2>1 DEF Placed, ArenaTypes
  <2> QED
    BY <1>3, <2>1, <2>2, <2>3, <2>4, <2>5, StaysPut
<1> QED
  BY <1>4, <1>5, <1>6, <1>7 DEF ArenaInv

\* The quarantine finds no memory for the chunk.
LEMMA QuarantineFailsKeeps ==
    ASSUME ArenaInv, NEW t \in Clients, QuarantineFails(t)
    PROVE  ArenaInv'
<1>1. ArenaTypes /\ HandInv /\ RowInv /\ CacheInv /\ ChunkInv /\ Null \notin Chunks
  BY DetachableAssumption DEF ArenaInv
<1>2. /\ stage[t] = "quarantine" /\ stage' = [stage EXCEPT ![t] = "untrack"]
      /\ UNCHANGED <<rows, activeRow, slots, head, tail, cached, quarantine, fresh, owned, hand, kept,
                     released, evicted>>
  BY DEF QuarantineFails, Go, matrix, cache
<1>3. ArenaTypes'
  BY <1>1, <1>2 DEF ArenaTypes, Carries
<1>4. HandInv'
  BY <1>1, <1>2 DEF ArenaTypes, HandInv, Carries
<1>5. RowInv' /\ CacheInv'
  BY <1>1, <1>2 DEF RowInv, CacheInv
<1>6. ChunkInv'
  <2> SUFFICES ASSUME NEW p \in Chunks \ evicted PROVE Placed(p)'
    BY <1>2 DEF ChunkInv
  <2>1. Placed(p)
    BY <1>1 DEF ChunkInv
  <2>2. /\ TrackedAt(p)' = TrackedAt(p) /\ HeldAt(p)' = HeldAt(p) /\ released'[p] = released[p]
        /\ CachedAt(p)' = CachedAt(p) /\ HeldBy(p)' = HeldBy(p)
    BY <1>2 DEF TrackedAt, HeldAt, CachedAt, HeldBy
  <2>3. Users(p)' = Users(p)
    BY <1>1, <1>2 DEF Users, ArenaTypes, Carries
  <2>4. \A u \in Clients : hand'[u] = p => p \notin owned'[u]
    BY <1>2, <2>1 DEF Placed
  <2> QED
    BY <1>2, <2>1, <2>2, <2>3, <2>4, StaysPut
<1> QED
  BY <1>3, <1>4, <1>5, <1>6 DEF ArenaInv

\* Releasing some chunks once more.
LEMMA Releases ==
    ASSUME ArenaTypes, NEW s, Releasing(s)
    PROVE  /\ released' \in [Chunks -> 0 .. 2]
           /\ \A p \in Chunks \ s : released'[p] = released[p]
           /\ \A p \in Chunks \cap s : released[p] = 0 => released'[p] = 1
<1>1. \A p \in Chunks : released[p] \in 0 .. 2
  BY DEF ArenaTypes
<1>2. \A p \in Chunks : /\ Min({2, released[p] + 1}) \in 0 .. 2
                        /\ released[p] = 0 => Min({2, released[p] + 1}) = 1
  <2> SUFFICES ASSUME NEW p \in Chunks
               PROVE  /\ Min({2, released[p] + 1}) \in 0 .. 2
                      /\ released[p] = 0 => Min({2, released[p] + 1}) = 1
    OBVIOUS
  <2>1. PICK a \in 0 .. 2 : a = released[p]
    BY <1>1
  <2>2. /\ Min({2, a + 1}) \in 0 .. 2
        /\ a + 1 <= 2 => Min({2, a + 1}) = a + 1
    BY SaturatedCount
  <2> QED
    BY <2>1, <2>2
<1>3. released' = [p \in Chunks |-> IF p \in s THEN Min({2, released[p] + 1}) ELSE released[p]]
  BY DEF Releasing
<1> QED
  BY <1>1, <1>2, <1>3

\* Where an entry appended to a sequence is.
LEMMA OneEntry ==
    ASSUME NEW S, NEW s \in Seq(S), NEW e \in S
    PROVE  /\ Append(s, e) \in Seq(S) /\ Len(Append(s, e)) = Len(s) + 1
           /\ \A p : {i \in DOMAIN Append(s, e) : Append(s, e)[i] = p} =
                     {i \in DOMAIN s : s[i] = p} \union (IF p = e THEN {Len(s) + 1} ELSE {})
           /\ Len(s) + 1 \notin DOMAIN s
<1> DEFINE a == Append(s, e)
<1>1. /\ a \in Seq(S) /\ Len(a) = Len(s) + 1 /\ Len(s) \in Nat
      /\ DOMAIN a = 1 .. Len(s) + 1 /\ DOMAIN s = 1 .. Len(s)
      /\ a[Len(s) + 1] = e /\ \A i \in 1 .. Len(s) : a[i] = s[i]
  OBVIOUS
<1> HIDE DEF a
<1>2. \A p : {i \in DOMAIN a : a[i] = p} =
             {i \in DOMAIN s : s[i] = p} \union (IF p = e THEN {Len(s) + 1} ELSE {})
  BY <1>1
<1> QED
  BY <1>1, <1>2 DEF a

\* ttak_detachable_track_pointer
LEMMA TrackKeeps ==
    ASSUME ArenaInv, NEW t \in Clients, Track(t)
    PROVE  ArenaInv'
<1>1. ArenaTypes /\ HandInv /\ RowInv /\ CacheInv /\ ChunkInv /\ Null \notin Chunks
  BY DetachableAssumption DEF ArenaInv
<1>2. /\ stage[t] = "track" /\ hand[t] \in Chunks /\ ~kept[t]
      /\ stage' = [stage EXCEPT ![t] = "idle"] /\ hand' = [hand EXCEPT ![t] = Null]
      /\ owned' = [u \in Clients |->
                     (owned[u] \union (IF u = t THEN {hand[t]} ELSE {})) \ evicted']
      /\ UNCHANGED <<slots, head, tail, cached, quarantine, fresh, kept>>
  BY <1>1 DEF Track, Go, HandInv, cache, Carries
<1>3. PICK x : x = hand[t]
  OBVIOUS
<1>4. PICK row : row = rows[activeRow]
  OBVIOUS
<1>5. row \in Seq(Chunks \union {Null}) /\ x \in Chunks /\ DOMAIN row = 1 .. Len(row)
  BY <1>1, <1>2, <1>3, <1>4 DEF ArenaTypes
<1>6. /\ ArenaTypes' /\ RowInv'
      /\ \A p \in Chunks \ evicted' : /\ p \notin evicted /\ released'[p] = released[p]
                                      /\ p = x => TrackedAt(p)' \ TrackedAt(p) # {}
                                      /\ \A i \in TrackedAt(p)' \ TrackedAt(p) :
                                            TrackedAt(p)' = TrackedAt(p) \union {i}
                                      /\ p # x => TrackedAt(p)' = TrackedAt(p)
  <2>1. CASE Full
    <3>1. PICK next : next = (activeRow + EpochDelay) % MatrixRows
      OBVIOUS
    <3>2. PICK tracked : tracked = ToSet(row) \ {Null}
      OBVIOUS
    <3>3. /\ activeRow' = next
          /\ rows' = [[rows EXCEPT ![activeRow] = <<>>] EXCEPT ![next] = Append(@, x)]
          /\ Releasing(tracked) /\ evicted' = evicted \union tracked
      BY <1>3, <1>4, <2>1, <3>1, <3>2 DEF Track
    <3>4. next \in 0 .. MatrixRows - 1 /\ activeRow \in 0 .. MatrixRows - 1
      BY <1>1, <3>1, DetachableAssumption DEF ArenaTypes
    <3>5. tracked = {row[i] : i \in DOMAIN row} \ {Null} /\ tracked \subseteq Chunks
      <4>1. ToSet(row) = {row[i] : i \in DOMAIN row}
        BY DEF ToSet
      <4>2. \A i \in DOMAIN row : row[i] \in Chunks \union {Null}
        BY <1>5
      <4> QED
        BY <3>2, <4>1, <4>2
    <3>6. [rows EXCEPT ![activeRow] = <<>>][next] = <<>>
      <4>1. CASE next = activeRow
        BY <1>1, <3>4, <4>1 DEF ArenaTypes
      <4>2. CASE next # activeRow
        <5>1. rows[next] \in Seq(Chunks \union {Null}) /\ Len(rows[next]) <= 0
          BY <1>1, <3>4, <4>2 DEF ArenaTypes, RowInv
        <5>2. rows[next] = <<>>
          BY <5>1
        <5> QED
          BY <1>1, <3>4, <4>2, <5>2 DEF ArenaTypes
      <4> QED
        BY <4>1, <4>2
    <3>7. PICK one : one = <<x>>
      OBVIOUS
    <3>8. /\ one \in Seq(Chunks \union {Null}) /\ Len(one) = 1 /\ DOMAIN one = {1} /\ one[1] = x
          /\ Append(<<>>, x) = one
      BY <1>5, <3>7
    <3>9. PICK none : none = <<>>
      OBVIOUS
    <3>10. none \in Seq(Chunks \union {Null}) /\ Len(none) = 0
      BY <3>9
    <3>11. /\ rows' \in [0 .. MatrixRows - 1 -> Seq(Chunks \union {Null})]
           /\ rows'[next] = one
           /\ \A r \in 0 .. MatrixRows - 1 : r # next =>
                 rows'[r] = IF r = activeRow THEN none ELSE rows[r]
      <4>1. PICK S : S = Seq(Chunks \union {Null})
        OBVIOUS
      <4>2. rows \in [0 .. MatrixRows - 1 -> S] /\ one \in S /\ none \in S
        BY <1>1, <3>8, <3>10, <4>1 DEF ArenaTypes
      <4>3. rows' = [[rows EXCEPT ![activeRow] = none] EXCEPT ![next] = one]
        BY <3>3, <3>6, <3>8, <3>9
      <4>4. /\ rows' \in [0 .. MatrixRows - 1 -> S] /\ rows'[next] = one
            /\ \A r \in 0 .. MatrixRows - 1 : r # next =>
                 rows'[r] = IF r = activeRow THEN none ELSE rows[r]
        BY <3>4, <4>2, <4>3
      <4> QED
        BY <4>1, <4>4
    <3>12. ArenaTypes'
      <4>1. released' \in [Chunks -> 0 .. 2]
        BY <1>1, <3>3, Releases
      <4>2. owned' \in [Clients -> SUBSET Chunks]
        BY <1>1, <1>2 DEF ArenaTypes
      <4> QED
        BY <1>1, <1>2, <3>3, <3>4, <3>5, <3>11, <4>1, <4>2 DEF ArenaTypes, Carries
    <3>13. RowInv'
      <4> SUFFICES ASSUME NEW r \in 0 .. MatrixRows - 1
                   PROVE  Len(rows'[r]) <= IF r = activeRow' THEN Generations ELSE 0
        BY DEF RowInv
      <4>1. CASE r = next
        <5>1. Generations \in Nat \ {0}
          BY DetachableAssumption
        <5>2. activeRow' = r /\ rows'[r] = one /\ Len(one) = 1
          BY <3>3, <3>8, <3>11, <4>1
        <5>3. Len(rows'[r]) = 1
          BY <5>2
        <5> QED
          BY <5>1, <5>2, <5>3
      <4>2. CASE r # next
        BY <1>1, <3>3, <3>10, <3>11, <4>2 DEF RowInv
      <4> QED
        BY <4>1, <4>2
    <3>14. ASSUME NEW p \in Chunks \ evicted'
           PROVE  /\ p \notin evicted /\ released'[p] = released[p] /\ TrackedAt(p) = {}
                  /\ TrackedAt(p)' = IF p = x THEN {1} ELSE {}
      <4>1. p \notin evicted /\ p \notin tracked
        BY <3>3
      <4>2. released'[p] = released[p]
        BY <1>1, <3>3, <4>1, Releases
      <4>3. TrackedAt(p) = {}
        BY <1>1, <1>4, <3>5, <4>1 DEF TrackedAt
      <4>4. TrackedAt(p)' = {i \in DOMAIN one : one[i] = p}
        BY <3>3, <3>11 DEF TrackedAt
      <4> QED
        BY <3>8, <4>1, <4>2, <4>3, <4>4
    <3> QED
      BY <3>12, <3>13, <3>14
  <2>2. CASE ~Full
    <3>1. /\ rows' = [rows EXCEPT ![activeRow] = Append(row, x)]
          /\ UNCHANGED <<activeRow, released, evicted>>
      BY <1>3, <1>4, <2>2 DEF Track
    <3>2. PICK more : more = Append(row, x)
      OBVIOUS
    <3>3. /\ more \in Seq(Chunks \union {Null}) /\ Len(more) = Len(row) + 1 /\ Len(row) \in Nat
          /\ \A p : {i \in DOMAIN more : more[i] = p} =
                    {i \in DOMAIN row : row[i] = p} \union (IF p = x THEN {Len(row) + 1} ELSE {})
          /\ Len(row) + 1 \notin DOMAIN row
      BY <1>5, <3>2, OneEntry
    <3>4. /\ rows' \in [0 .. MatrixRows - 1 -> Seq(Chunks \union {Null})]
          /\ rows'[activeRow] = more
          /\ \A r \in 0 .. MatrixRows - 1 : r # activeRow => rows'[r] = rows[r]
      <4>1. PICK S : S = Seq(Chunks \union {Null})
        OBVIOUS
      <4>2. /\ rows \in [0 .. MatrixRows - 1 -> S] /\ more \in S
            /\ rows' = [rows EXCEPT ![activeRow] = more] /\ activeRow \in 0 .. MatrixRows - 1
        BY <1>1, <3>1, <3>2, <3>3, <4>1 DEF ArenaTypes
      <4>3. /\ rows' \in [0 .. MatrixRows - 1 -> S] /\ rows'[activeRow] = more
            /\ \A r \in 0 .. MatrixRows - 1 : r # activeRow => rows'[r] = rows[r]
        BY <4>2
      <4> QED
        BY <4>1, <4>3
    <3>5. ArenaTypes'
      <4>1. owned' \in [Clients -> SUBSET Chunks]
        BY <1>1, <1>2 DEF ArenaTypes
      <4> QED
        BY <1>1, <1>2, <3>1, <3>4, <4>1 DEF ArenaTypes, Carries
    <3>6. RowInv'
      <4>1. Len(row) + 1 <= Generations
        BY <1>4, <2>2, <3>3, DetachableAssumption DEF Full
      <4> QED
        BY <1>1, <3>1, <3>3, <3>4, <4>1 DEF RowInv
    <3>7. \A p : /\ TrackedAt(p) = {i \in DOMAIN row : row[i] = p}
                 /\ TrackedAt(p)' = {i \in DOMAIN more : more[i] = p}
      BY <1>4, <3>1, <3>4 DEF TrackedAt
    <3>8. ASSUME NEW p \in Chunks \ evicted'
          PROVE  /\ p \notin evicted /\ released'[p] = released[p]
                 /\ TrackedAt(p)' = TrackedAt(p) \union (IF p = x THEN {Len(row) + 1} ELSE {})
                 /\ Len(row) + 1 \notin TrackedAt(p)
      <4>1. TrackedAt(p)' = TrackedAt(p) \union (IF p = x THEN {Len(row) + 1} ELSE {})
        BY <3>3, <3>7
      <4>2. Len(row) + 1 \notin TrackedAt(p)
        BY <3>3, <3>7
      <4> QED
        BY <3>1, <4>1, <4>2
    <3>9. ASSUME NEW p \in Chunks \ evicted'
          PROVE  /\ p = x => TrackedAt(p)' \ TrackedAt(p) # {}
                 /\ \A i \in TrackedAt(p)' \ TrackedAt(p) : TrackedAt(p)' = TrackedAt(p) \union {i}
                 /\ p # x => TrackedAt(p)' = TrackedAt(p)
      <4>1. PICK n : n = Len(row) + 1
        OBVIOUS
      <4>2. PICK T, U : T = TrackedAt(p) /\ U = TrackedAt(p)'
        OBVIOUS
      <4>3. U = T \union (IF p = x THEN {n} ELSE {}) /\ n \notin T
        BY <3>8, <4>1, <4>2
      <4>4. /\ p = x => U \ T # {}
            /\ \A i \in U \ T : U = T \union {i}
            /\ p # x => U = T
        BY <4>3
      <4> QED
        BY <4>2, <4>4
    <3> QED
      BY <3>5, <3>6, <3>8, <3>9
  <2> QED
    BY <2>1, <2>2
<1>7. HandInv'
  BY <1>1, <1>2 DEF ArenaTypes, HandInv, Carries
<1>8. CacheInv'
  BY <1>1, <1>2 DEF CacheInv
<1>9. ChunkInv'
  <2> SUFFICES ASSUME NEW p \in Chunks \ evicted' PROVE Placed(p)'
    BY DEF ChunkInv
  <2>1. Placed(p) /\ p \notin evicted /\ released'[p] = released[p]
    BY <1>1, <1>6 DEF ChunkInv
  <2>2. HeldAt(p)' = HeldAt(p) /\ CachedAt(p)' = CachedAt(p)
    BY <1>2 DEF HeldAt, CachedAt
  <2>3. \A u \in Clients : p \in owned'[u] <=> p \in owned[u] \/ (u = t /\ p = x)
    BY <1>2, <1>3
  <2>4. HeldBy(p)' = HeldBy(p)
    BY <1>1, <1>2, <1>3, <2>3 DEF HeldBy, ArenaTypes
  <2>5. \A u \in Clients : hand'[u] = p => p \notin owned'[u]
    BY <1>1, <1>2, <2>1, <2>3 DEF Placed, ArenaTypes
  <2>6. CASE p # x
    <3>1. Users(p)' = Users(p)
      BY <1>1, <1>2, <1>3, <2>3, <2>6 DEF Users, ArenaTypes, Carries
    <3>2. TrackedAt(p)' = TrackedAt(p)
      BY <1>6, <2>6
    <3> QED
      BY <1>2, <2>1, <2>2, <2>4, <2>5, <3>1, <3>2, StaysPut
  <2>7. CASE p = x
    <3>1. Users(p)' = Users(p) \union {t} /\ t \notin Users(p)
      BY <1>1, <1>2, <1>3, <2>1, <2>3, <2>7 DEF Users, ArenaTypes, Carries, Placed
    <3>2. PICK i : i \notin TrackedAt(p) /\ TrackedAt(p)' = TrackedAt(p) \union {i}
      BY <1>6, <2>7
    <3>3. PICK T, U : T = TrackedAt(p) /\ U = Users(p)
      OBVIOUS
    <3>4. Cardinality(T \union {i}) = Cardinality(T) + 1 /\ Cardinality(U \union {t}) = Cardinality(U) + 1
      BY <1>1, <3>1, <3>2, <3>3, PlacesFinite, Counted
    <3>5. Cardinality(TrackedAt(p)') = Cardinality(Users(p)')
      BY <2>1, <3>1, <3>2, <3>3, <3>4 DEF Placed
    <3>6. p \notin fresh
      BY <1>2, <1>3, <2>1, <2>7 DEF Placed, HeldBy
    <3> QED
      BY <1>2, <2>1, <2>2, <2>4, <2>5, <3>5, <3>6 DEF Placed
  <2> QED
    BY <2>6, <2>7
<1> QED
  BY <1>6, <1>7, <1>8, <1>9 DEF ArenaInv

\* A set of one element, when a member goes or it is all there is.
LEMMA OnlyOne ==
    ASSUME NEW S, IsFiniteSet(S), Cardinality(S) = 1, NEW x \in S
    PROVE  S \ {x} = {}
<1>1. IsFiniteSet(S \ {x}) /\ Cardinality(S \ {x}) = 0
  BY FS_RemoveElement
<1> QED
  BY <1>1, FS_EmptySet

\* ttak_detachable_quarantine_push
LEMMA QuarantineKeeps ==
    ASSUME ArenaInv, NEW t \in Clients, Quarantine(t)
    PROVE  ArenaInv'
<1>1. ArenaTypes /\ HandInv /\ RowInv /\ CacheInv /\ ChunkInv /\ Null \notin Chunks
  BY DetachableAssumption DEF ArenaInv
<1>2. /\ stage[t] = "quarantine" /\ hand[t] \in Chunks /\ ~kept[t]
      /\ stage' = [stage EXCEPT ![t] = "untrack"] /\ kept' = [kept EXCEPT ![t] = TRUE]
      /\ UNCHANGED <<rows, activeRow, slots, head, tail, cached, fresh, owned, hand, evicted>>
  BY <1>1 DEF Quarantine, Go, HandInv, matrix, cache, Carries
<1>3. PICK x : x = hand[t]
  OBVIOUS
<1>4. PICK held : held = quarantine
  OBVIOUS
<1>5. held \in Seq(Chunks) /\ x \in Chunks /\ DOMAIN held = 1 .. Len(held)
  BY <1>1, <1>2, <1>3, <1>4 DEF ArenaTypes
\* The quarantine is emptied, or has room.
<1>6. /\ quarantine' \in Seq(Chunks) /\ released' \in [Chunks -> 0 .. 2]
      /\ \A p \in Chunks :
            \/ /\ released'[p] = released[p]
               /\ p # x => HeldAt(p)' = HeldAt(p)
               /\ p = x => \E i : i \notin HeldAt(p) /\ HeldAt(p)' = HeldAt(p) \union {i}
            \/ /\ HeldAt(p) # {} /\ (released[p] = 0 => released'[p] = 1)
               /\ p # x => HeldAt(p)' = {}
  <2>1. CASE Len(held) + 1 > QuarantineLimit
    <3>1. PICK s : s = ToSet(held)
      OBVIOUS
    <3>2. s = {held[i] : i \in DOMAIN held}
      BY <3>1 DEF ToSet
    <3>3. Releasing(s) /\ quarantine' = <<x>>
      BY <1>3, <1>4, <2>1, <3>1 DEF Quarantine
    <3>4. PICK one : one = <<x>>
      OBVIOUS
    <3>5. one \in Seq(Chunks) /\ DOMAIN one = {1} /\ one[1] = x
      BY <1>5, <3>4
    <3>6. \A p : HeldAt(p)' = IF p = x THEN {1} ELSE {}
      BY <3>3, <3>4, <3>5 DEF HeldAt
    <3>7. /\ released' \in [Chunks -> 0 .. 2]
          /\ \A p \in Chunks \ s : released'[p] = released[p]
          /\ \A p \in Chunks \cap s : released[p] = 0 => released'[p] = 1
      BY <1>1, <3>3, Releases
    <3>8. \A p : HeldAt(p) = {i \in DOMAIN held : held[i] = p}
      BY <1>4 DEF HeldAt
    <3>9. \A p : p \in s <=> HeldAt(p) # {}
      BY <3>2, <3>8
    <3> QED
      BY <3>3, <3>4, <3>5, <3>6, <3>7, <3>9
  <2>2. CASE ~(Len(held) + 1 > QuarantineLimit)
    <3>1. quarantine' = Append(held, x) /\ released' = released
      BY <1>3, <1>4, <2>2 DEF Quarantine
    <3>2. PICK more : more = Append(held, x)
      OBVIOUS
    <3>3. /\ more \in Seq(Chunks)
          /\ \A p : {i \in DOMAIN more : more[i] = p} =
                    {i \in DOMAIN held : held[i] = p} \union (IF p = x THEN {Len(held) + 1} ELSE {})
          /\ Len(held) + 1 \notin DOMAIN held
      BY <1>5, <3>2, OneEntry
    <3>4. PICK n : n = Len(held) + 1
      OBVIOUS
    <3>5. \A p : /\ HeldAt(p)' = HeldAt(p) \union (IF p = x THEN {n} ELSE {})
                 /\ n \notin HeldAt(p)
      BY <1>4, <3>1, <3>2, <3>3, <3>4 DEF HeldAt
    <3>6. released' \in [Chunks -> 0 .. 2]
      BY <1>1, <3>1 DEF ArenaTypes
    <3> QED
      BY <3>1, <3>2, <3>3, <3>5, <3>6
  <2> QED
    BY <2>1, <2>2
<1>7. ArenaTypes'
  BY <1>1, <1>2, <1>6 DEF ArenaTypes, Carries
<1>8. HandInv'
  BY <1>1, <1>2 DEF ArenaTypes, HandInv, Carries
<1>9. RowInv' /\ CacheInv'
  BY <1>1, <1>2 DEF RowInv, CacheInv
<1>10. ChunkInv'
  <2> SUFFICES ASSUME NEW p \in Chunks \ evicted PROVE Placed(p)'
    BY <1>2 DEF ChunkInv
  <2>1. Placed(p)
    BY <1>1 DEF ChunkInv
  <2>2. TrackedAt(p)' = TrackedAt(p) /\ CachedAt(p)' = CachedAt(p)
    BY <1>2 DEF TrackedAt, CachedAt
  <2>3. Users(p)' = Users(p)
    BY <1>1, <1>2 DEF Users, ArenaTypes, Carries
  <2>4. \A u \in Clients : hand'[u] = p => p \notin owned'[u]
    BY <1>2, <2>1 DEF Placed
  <2>5. CASE p # x
    <3>1. HeldBy(p)' = HeldBy(p)
      BY <1>1, <1>2, <1>3, <2>5 DEF HeldBy, ArenaTypes
    <3>2. CASE released'[p] = released[p] /\ HeldAt(p)' = HeldAt(p)
      BY <1>2, <2>1, <2>2, <2>3, <2>4, <3>1, <3>2, StaysPut
    <3>3. CASE HeldAt(p) # {} /\ (released[p] = 0 => released'[p] = 1) /\ HeldAt(p)' = {}
      <4>1. HeldBy(p) = {} /\ CachedAt(p) = {} /\ released'[p] = 1
        BY <1>1, <2>1, <3>3, Alone
      <4>2. p \notin fresh
        BY <2>1, <3>3 DEF Placed
      <4>3. /\ Cardinality(HeldBy(p)') = 0 /\ Cardinality(CachedAt(p)') = 0
            /\ Cardinality(HeldAt(p)') = 0
        BY <2>2, <3>1, <3>3, <4>1, FS_EmptySet
      <4> QED
        BY <1>2, <2>1, <2>2, <2>3, <2>4, <4>1, <4>2, <4>3 DEF Placed
    <3> QED
      BY <1>6, <2>5, <3>2, <3>3
  <2>6. CASE p = x
    <3>1. t \in HeldBy(p)
      BY <1>2, <1>3, <2>6 DEF HeldBy
    <3>2. /\ CachedAt(p) = {} /\ HeldAt(p) = {} /\ released[p] = 0 /\ Cardinality(HeldBy(p)) = 1
      BY <1>1, <2>1, <3>1, Alone
    <3>3. p \notin fresh
      BY <2>1, <3>1 DEF Placed
    <3>4. HeldBy(p)' = {}
      <4>1. HeldBy(p)' = HeldBy(p) \ {t}
        BY <1>1, <1>2, <1>3, <2>1, <2>6 DEF HeldBy, ArenaTypes, Placed
      <4>2. PICK S : S = HeldBy(p)
        OBVIOUS
      <4>3. S \ {t} = {}
        BY <1>1, <3>1, <3>2, <4>2, PlacesFinite, OnlyOne
      <4> QED
        BY <4>1, <4>2, <4>3
    <3>5. PICK i : HeldAt(p)' = {i} /\ released'[p] = 0
      BY <1>6, <2>6, <3>2
    <3>6. /\ Cardinality(HeldBy(p)') = 0 /\ Cardinality(CachedAt(p)') = 0
          /\ Cardinality(HeldAt(p)') = 1
      BY <2>2, <3>2, <3>4, <3>5, FS_EmptySet, FS_Singleton
    <3> QED
      BY <1>2, <2>1, <2>2, <2>3, <2>4, <3>3, <3>5, <3>6 DEF Placed
  <2> QED
    BY <2>5, <2>6
<1> QED
  BY <1>7, <1>8, <1>9, <1>10 DEF ArenaInv

\* ttak_detachable_cache_store
LEMMA StoreKeeps ==
    ASSUME ArenaInv, NEW t \in Clients, Store(t)
    PROVE  ArenaInv'
<1>1. ArenaTypes /\ HandInv /\ RowInv /\ CacheInv /\ ChunkInv /\ Null \notin Chunks
  BY DetachableAssumption DEF ArenaInv
<1>2. /\ stage[t] = "store" /\ hand[t] \in Chunks /\ ~kept[t]
      /\ stage' = [stage EXCEPT ![t] = "untrack"]
      /\ UNCHANGED <<rows, activeRow, quarantine, fresh, owned, hand, evicted>>
  BY <1>1 DEF Store, Go, HandInv, matrix, Carries
<1>3. PICK x : x = hand[t]
  OBVIOUS
<1>4. CacheSlots \in Nat \ {0}
  BY DetachableAssumption
<1>5. /\ head \in 0 .. CacheSlots - 1 /\ tail \in 0 .. CacheSlots - 1 /\ cached \in 0 .. CacheSlots
      /\ 1 \in 0 .. CacheSlots
  BY <1>1, <1>4 DEF ArenaTypes
<1>6. tail = Wrapped(head + cached)
  BY <1>1, <1>5, CacheRing DEF CacheInv
<1>7. \A i \in 0 .. CacheSlots - 1 : slots[Wrapped(head + i)] # Null <=> i < cached
  <2> SUFFICES ASSUME NEW i \in 0 .. CacheSlots - 1
               PROVE  slots[Wrapped(head + i)] # Null <=> i < cached
    OBVIOUS
  <2>1. i \in 0 .. CacheSlots
    BY <1>4
  <2> QED
    BY <1>1, <1>5, <2>1, CacheRing DEF CacheInv
<1>8. \A u \in Clients : u # t => /\ kept'[u] = kept[u] /\ stage'[u] = stage[u]
  BY <1>1, <1>2 DEF Store, ArenaTypes
\* The cache refuses the chunk, takes it into an empty slot, or into the slot of
\* its oldest one.
<1>9. CASE cached = CacheSlots /\ "urgent" \notin flags
  <2>1. UNCHANGED <<slots, head, tail, cached, kept, released>>
    BY <1>9 DEF Store, cache
  <2>2. ArenaTypes'
    BY <1>1, <1>2, <2>1 DEF ArenaTypes, Carries
  <2>3. HandInv' /\ RowInv' /\ CacheInv'
    BY <1>1, <1>2, <2>1 DEF ArenaTypes, HandInv, Carries, RowInv, CacheInv
  <2>4. ASSUME NEW p \in Chunks \ evicted PROVE Placed(p)'
    <3>1. Placed(p)
      BY <1>1 DEF ChunkInv
    <3>2. /\ TrackedAt(p)' = TrackedAt(p) /\ CachedAt(p)' = CachedAt(p) /\ HeldAt(p)' = HeldAt(p)
          /\ HeldBy(p)' = HeldBy(p) /\ released'[p] = released[p]
      BY <1>2, <2>1 DEF TrackedAt, CachedAt, HeldAt, HeldBy
    <3>3. Users(p)' = Users(p)
      BY <1>1, <1>2 DEF Users, ArenaTypes, Carries
    <3>4. \A u \in Clients : hand'[u] = p => p \notin owned'[u]
      BY <1>2, <3>1 DEF Placed
    <3> QED
      BY <1>2, <3>1, <3>2, <3>3, <3>4, StaysPut
  <2> QED
    BY <1>2, <2>2, <2>3, <2>4 DEF ArenaInv, ChunkInv
<1>10. CASE ~(cached = CacheSlots /\ "urgent" \notin flags)
  <2>1. /\ slots' = [slots EXCEPT ![tail] = x] /\ tail' = (tail + 1) % CacheSlots
        /\ kept' = [kept EXCEPT ![t] = TRUE]
    BY <1>3, <1>10 DEF Store
  <2>2. tail' = Wrapped(tail + 1) /\ tail' \in 0 .. CacheSlots - 1
    BY <1>5, <2>1, CacheRing
  <2>3. /\ slots' \in [0 .. CacheSlots - 1 -> Chunks \union {Null}]
        /\ slots'[tail] = x /\ \A i \in 0 .. CacheSlots - 1 : i # tail => slots'[i] = slots[i]
    BY <1>1, <1>2, <1>3, <1>5, <2>1 DEF ArenaTypes
  <2>4. HandInv' /\ RowInv'
    BY <1>1, <1>2, <2>1 DEF ArenaTypes, HandInv, Carries, RowInv
  <2>5. /\ released' \in [Chunks -> 0 .. 2] /\ head' \in 0 .. CacheSlots - 1
        /\ cached' \in 0 .. CacheSlots
        /\ \A p \in Chunks : slots[tail] # p => released'[p] = released[p]
        /\ \A p \in Chunks : slots[tail] = p /\ released[p] = 0 => released'[p] = 1
        /\ tail' = Wrapped(head' + cached')
        /\ \A i \in 0 .. CacheSlots - 1 : slots'[Wrapped(head' + i)] # Null <=> i < cached'
    <3>1. CASE cached = CacheSlots
      <4>1. Releasing(Victim) /\ head' = (head + 1) % CacheSlots /\ cached' = cached
        BY <1>10, <3>1 DEF Store
      <4>2. tail = head
        BY <1>4, <1>5, <1>6, <3>1 DEF Wrapped
      <4>3. PICK s : s = Victim
        OBVIOUS
      <4>4. \A p \in Chunks : p \in s <=> slots[tail] = p
        BY <1>1, <4>2, <4>3 DEF Victim
      <4>5. /\ released' \in [Chunks -> 0 .. 2]
            /\ \A p \in Chunks \ s : released'[p] = released[p]
            /\ \A p \in Chunks \cap s : released[p] = 0 => released'[p] = 1
        BY <1>1, <4>1, <4>3, Releases
      <4>6. head' = Wrapped(head + 1) /\ head' \in 0 .. CacheSlots - 1
        BY <1>5, <4>1, CacheRing
      <4>7. Wrapped(tail + 1) = Wrapped(Wrapped(head + 1) + CacheSlots)
        BY <1>4, <1>5, <4>2 DEF Wrapped
      <4>8. ASSUME NEW i \in 0 .. CacheSlots - 1
            PROVE  slots'[Wrapped(head' + i)] # Null
        <5>1. /\ Wrapped(head' + i) \in 0 .. CacheSlots - 1
              /\ Wrapped(head' + i) # tail =>
                    i + 1 \in 0 .. CacheSlots - 1 /\ Wrapped(head' + i) = Wrapped(head + (i + 1))
          BY <1>4, <1>5, <4>2, <4>6 DEF Wrapped
        <5>2. CASE Wrapped(head' + i) = tail
          BY <1>1, <1>2, <1>3, <2>3, <5>2
        <5>3. CASE Wrapped(head' + i) # tail
          <6>1. slots[Wrapped(head + (i + 1))] # Null
            BY <1>4, <1>7, <3>1, <5>1, <5>3
          <6> QED
            BY <2>3, <5>1, <5>3, <6>1
        <5> QED
          BY <5>2, <5>3
      <4>9. \A i \in 0 .. CacheSlots - 1 : i < cached'
        BY <1>4, <3>1, <4>1
      <4> QED
        BY <1>5, <2>2, <3>1, <4>1, <4>4, <4>5, <4>6, <4>7, <4>8, <4>9
    <3>2. CASE cached # CacheSlots
      <4>1. cached' = cached + 1 /\ head' = head /\ released' = released
        BY <3>2, <1>10 DEF Store
      <4>2. cached \in 0 .. CacheSlots - 1
        BY <1>4, <1>5, <3>2
      <4>3. slots[tail] = Null
        BY <1>6, <1>7, <4>2
      <4>4. Wrapped(tail + 1) = Wrapped(head + (cached + 1))
        BY <1>4, <1>5, <1>6, <4>2 DEF Wrapped
      <4>5. ASSUME NEW i \in 0 .. CacheSlots - 1
            PROVE  slots'[Wrapped(head + i)] # Null <=> i < cached + 1
        <5>1. Wrapped(head + i) \in 0 .. CacheSlots - 1 /\ (Wrapped(head + i) = tail <=> i = cached)
          BY <1>4, <1>5, <1>6, <4>2 DEF Wrapped
        <5>2. CASE i = cached
          BY <1>1, <1>2, <1>3, <2>3, <4>2, <5>1, <5>2
        <5>3. CASE i # cached
          <6>1. slots'[Wrapped(head + i)] # Null <=> i < cached
            BY <1>7, <2>3, <5>1, <5>3
          <6> QED
            BY <4>2, <5>3, <6>1
        <5> QED
          BY <5>2, <5>3
      <4>6. cached + 1 \in 0 .. CacheSlots
        BY <1>4, <4>2
      <4>7. released' \in [Chunks -> 0 .. 2]
        BY <1>1, <4>1 DEF ArenaTypes
      <4> QED
        BY <1>1, <1>5, <2>2, <4>1, <4>3, <4>4, <4>5, <4>6, <4>7
    <3> QED
      BY <3>1, <3>2
  <2>6. ArenaTypes'
    BY <1>1, <1>2, <2>1, <2>2, <2>3, <2>5 DEF ArenaTypes, Carries
  <2>7. CacheInv'
    <3>1. tail' = (head' + cached') % CacheSlots
      BY <2>5, CacheRing
    <3>2. ASSUME NEW i \in 0 .. CacheSlots - 1
          PROVE  slots'[(head' + i) % CacheSlots] # Null <=> i < cached'
      <4>1. i \in 0 .. CacheSlots
        BY <1>4
      <4>2. (head' + i) % CacheSlots = Wrapped(head' + i)
        BY <2>5, <4>1, CacheRing
      <4> QED
        BY <2>5, <4>2
    <3> QED
      BY <3>1, <3>2 DEF CacheInv
  <2>8. ASSUME NEW p \in Chunks \ evicted PROVE Placed(p)'
    <3>1. Placed(p)
      BY <1>1 DEF ChunkInv
    <3>2. TrackedAt(p)' = TrackedAt(p) /\ HeldAt(p)' = HeldAt(p)
      BY <1>2 DEF TrackedAt, HeldAt
    <3>3. Users(p)' = Users(p)
      BY <1>1, <1>2 DEF Users, ArenaTypes, Carries
    <3>4. \A u \in Clients : hand'[u] = p => p \notin owned'[u]
      BY <1>2, <3>1 DEF Placed
    <3>5. DOMAIN slots = 0 .. CacheSlots - 1 /\ DOMAIN slots' = 0 .. CacheSlots - 1
      BY <1>1, <2>3 DEF ArenaTypes
    <3>6. CASE p # x
      <4>1. HeldBy(p)' = HeldBy(p)
        BY <1>1, <1>2, <1>3, <2>1, <3>6 DEF HeldBy, ArenaTypes
      <4>2. CachedAt(p)' = CachedAt(p) \ {tail}
        BY <1>5, <2>3, <3>5, <3>6 DEF CachedAt
      <4>3. CASE slots[tail] # p
        <5>1. CachedAt(p)' = CachedAt(p) /\ released'[p] = released[p]
          BY <2>5, <4>2, <4>3 DEF CachedAt
        <5> QED
          BY <1>2, <3>1, <3>2, <3>3, <3>4, <4>1, <5>1, StaysPut
      <4>4. CASE slots[tail] = p
        <5>1. tail \in CachedAt(p)
          BY <1>5, <3>5, <4>4 DEF CachedAt
        <5>2. /\ HeldBy(p) = {} /\ HeldAt(p) = {} /\ released[p] = 0
              /\ Cardinality(CachedAt(p)) = 1
          BY <1>1, <3>1, <5>1, Alone
        <5>3. PICK S : S = CachedAt(p)
          OBVIOUS
        <5>4. S \ {tail} = {}
          BY <1>1, <5>1, <5>2, <5>3, PlacesFinite, OnlyOne
        <5>5. /\ Cardinality(HeldBy(p)') = 0 /\ Cardinality(CachedAt(p)') = 0
              /\ Cardinality(HeldAt(p)') = 0
          BY <3>2, <4>1, <4>2, <5>2, <5>3, <5>4, FS_EmptySet
        <5>6. released'[p] = 1
          BY <2>5, <4>4, <5>2
        <5>7. p \notin fresh
          BY <3>1, <5>1 DEF Placed
        <5> QED
          BY <1>2, <3>1, <3>2, <3>3, <3>4, <5>5, <5>6, <5>7 DEF Placed
      <4> QED
        BY <4>3, <4>4
    <3>7. CASE p = x
      <4>1. t \in HeldBy(p)
        BY <1>2, <1>3, <3>7 DEF HeldBy
      <4>2. /\ CachedAt(p) = {} /\ HeldAt(p) = {} /\ released[p] = 0 /\ Cardinality(HeldBy(p)) = 1
        BY <1>1, <3>1, <4>1, Alone
      <4>3. p \notin fresh
        BY <3>1, <4>1 DEF Placed
      <4>4. HeldBy(p)' = {}
        <5>1. HeldBy(p)' = HeldBy(p) \ {t}
          BY <1>1, <1>2, <1>3, <2>1, <3>1, <3>7 DEF HeldBy, ArenaTypes, Placed
        <5>2. PICK S : S = HeldBy(p)
          OBVIOUS
        <5>3. S \ {t} = {}
          BY <1>1, <4>1, <4>2, <5>2, PlacesFinite, OnlyOne
        <5> QED
          BY <5>1, <5>2, <5>3
      <4>5. CachedAt(p)' = {tail}
        BY <1>5, <2>3, <3>5, <3>7, <4>2 DEF CachedAt
      <4>6. released'[p] = 0
        BY <1>5, <2>5, <3>5, <4>2 DEF CachedAt
      <4>7. /\ Cardinality(HeldBy(p)') = 0 /\ Cardinality(CachedAt(p)') = 1
            /\ Cardinality(HeldAt(p)') = 0
        BY <3>2, <4>2, <4>4, <4>5, FS_EmptySet, FS_Singleton
      <4> QED
        BY <1>2, <3>1, <3>2, <3>3, <3>4, <4>3, <4>6, <4>7 DEF Placed
    <3> QED
      BY <3>6, <3>7
  <2> QED
    BY <1>2, <2>4, <2>6, <2>7, <2>8 DEF ArenaInv, ChunkInv
<1> QED
  BY <1>9, <1>10

\* A finite set of integers that is not empty has a least element.
LEMMA LeastOfFinite ==
    ASSUME NEW S, S \subseteq Int, IsFiniteSet(S), S # {}
    PROVE  Min(S) \in S /\ \A y \in S : Min(S) <= y
<1> DEFINE Below(x) == {y \in S : y < x}
           T == {Below(x) : x \in S}
           R == StrictSubsetOrdering(S)
<1>1. \E U \in T : \A V \in T : ~ (<<V, U>> \in R)
  <2>1. T # {}
    OBVIOUS
  <2>2. \A x \in S : Below(x) \in SUBSET S /\ IsFiniteSet(Below(x))
    BY FS_Subset
  <2>3. T \subseteq FiniteSubsetsOf(S)
    BY <2>2 DEF FiniteSubsetsOf
  <2>4. IsWellFoundedOn(R, FiniteSubsetsOf(S))
    BY FS_StrictSubsetOrderingWellFounded
  <2> HIDE DEF T, R
  <2> QED
    BY <2>1, <2>3, <2>4, WFMin
<1>2. PICK x \in S : \A y \in S : ~ (<<Below(y), Below(x)>> \in R)
  BY <1>1
<1>3. ASSUME NEW y \in S, y < x PROVE FALSE
  <2>1. \A z \in S : z < y => z < x
    BY <1>3
  <2>2. Below(y) \subseteq Below(x)
    BY <2>1
  <2>3. y \in Below(x) /\ y \notin Below(y)
    BY <1>3
  <2>4. <<Below(y), Below(x)>> \in (SUBSET S) \X (SUBSET S)
    OBVIOUS
  <2>5. <<Below(y), Below(x)>> \in R
    BY <2>2, <2>3, <2>4 DEF StrictSubsetOrdering
  <2> QED
    BY <2>5, <1>2
<1>4. \E z \in S : \A y \in S : z <= y
  BY <1>3
<1> QED
  BY <1>4 DEF Min

\* ttak_detachable_untrack_pointer
LEMMA UntrackKeeps ==
    ASSUME ArenaInv, NEW t \in Clients, Untrack(t)
    PROVE  ArenaInv'
<1>1. ArenaTypes /\ HandInv /\ RowInv /\ CacheInv /\ ChunkInv /\ Null \notin Chunks
  BY DetachableAssumption DEF ArenaInv
<1>2. /\ stage[t] = "untrack" /\ hand[t] \in Chunks
      /\ stage' = [stage EXCEPT ![t] = "idle"] /\ hand' = [hand EXCEPT ![t] = Null]
      /\ kept' = [kept EXCEPT ![t] = FALSE]
      /\ UNCHANGED <<flags, activeRow, slots, head, tail, cached, quarantine, fresh, owned, evicted>>
  BY <1>1 DEF Untrack, Go, HandInv, cache, Carries
<1>3. PICK x : x = hand[t]
  OBVIOUS
<1>4. PICK row : row = rows[activeRow]
  OBVIOUS
<1>5. /\ row \in Seq(Chunks \union {Null}) /\ x \in Chunks /\ DOMAIN row = 1 .. Len(row)
      /\ Len(row) \in Nat /\ activeRow \in 0 .. MatrixRows - 1
  BY <1>1, <1>2, <1>3, <1>4 DEF ArenaTypes
<1>6. PICK where : where = {r \in DOMAIN rows : x \in ToSet(rows[r])}
  OBVIOUS
<1>7. PICK I : I = {i \in 1 .. Len(row) : row[i] = x}
  OBVIOUS
<1>8. TrackedAt(x) = I
  BY <1>4, <1>5, <1>7 DEF TrackedAt
<1>9. where = IF I = {} THEN {} ELSE {activeRow}
  <2>1. \A r \in 0 .. MatrixRows - 1 : r # activeRow => ToSet(rows[r]) = {}
    <3> SUFFICES ASSUME NEW r \in 0 .. MatrixRows - 1, r # activeRow PROVE ToSet(rows[r]) = {}
      OBVIOUS
    <3>1. rows[r] \in Seq(Chunks \union {Null}) /\ Len(rows[r]) <= 0
      BY <1>1 DEF ArenaTypes, RowInv
    <3>2. DOMAIN rows[r] = {}
      BY <3>1
    <3> QED
      BY <3>2 DEF ToSet
  <2>2. x \in ToSet(row) <=> I # {}
    BY <1>5, <1>7 DEF ToSet
  <2>3. DOMAIN rows = 0 .. MatrixRows - 1
    BY <1>1 DEF ArenaTypes
  <2> QED
    BY <1>4, <1>5, <1>6, <2>1, <2>2, <2>3
<1>10. /\ rows' = IF where = {} THEN rows
                  ELSE [rows EXCEPT ![Min(where)][SelectInSeq(rows[Min(where)],
                                                              LAMBDA q : q = x)] = Null]
       /\ IF kept[t] \/ (where = {} /\ "ebr" \in flags) THEN UNCHANGED released
          ELSE Releasing({x})
  BY <1>3, <1>6 DEF Untrack
<1>11. released' \in [Chunks -> 0 .. 2]
  BY <1>1, <1>10, Releases DEF ArenaTypes
\* Either nothing changes in the rows, or the first entry of x becomes a hole.
<1>12. CASE I = {}
  <2>1. rows' = rows
    BY <1>9, <1>10, <1>12
  <2>2. ArenaTypes'
    BY <1>1, <1>2, <1>11, <2>1 DEF ArenaTypes, Carries
  <2>3. HandInv' /\ RowInv' /\ CacheInv'
    BY <1>1, <1>2, <2>1 DEF ArenaTypes, HandInv, Carries, RowInv, CacheInv
  <2>4. ASSUME NEW p \in Chunks \ evicted PROVE Placed(p)'
    <3>1. Placed(p)
      BY <1>1 DEF ChunkInv
    <3>2. p # x
      <4> SUFFICES ASSUME p = x PROVE FALSE
        OBVIOUS
      <4>1. t \in Users(p)
        BY <1>2, <1>3 DEF Users, Carries
      <4> QED
        BY <1>1, <1>8, <1>12, <3>1, <4>1, Alone
    <3>3. released'[p] = released[p]
      <4>1. CASE kept[t] \/ (where = {} /\ "ebr" \in flags)
        BY <1>10, <4>1
      <4>2. CASE ~(kept[t] \/ (where = {} /\ "ebr" \in flags))
        <5>1. PICK s : s = {x}
          OBVIOUS
        <5>2. Releasing(s) /\ p \in Chunks \ s
          BY <1>10, <3>2, <4>2, <5>1
        <5> QED
          BY <1>1, <5>2, Releases
      <4> QED
        BY <4>1, <4>2
    <3>4. TrackedAt(p)' = TrackedAt(p) /\ CachedAt(p)' = CachedAt(p) /\ HeldAt(p)' = HeldAt(p)
      BY <1>2, <2>1 DEF TrackedAt, CachedAt, HeldAt
    <3>5. HeldBy(p)' = HeldBy(p) /\ Users(p)' = Users(p)
      BY <1>1, <1>2, <1>3, <3>2 DEF ArenaTypes, HeldBy, Users, Carries
    <3>6. \A u \in Clients : hand'[u] = p => p \notin owned'[u]
      BY <1>1, <1>2, <3>1 DEF ArenaTypes, Placed
    <3> QED
      BY <1>2, <3>1, <3>3, <3>4, <3>5, <3>6, StaysPut
  <2> QED
    BY <1>2, <2>2, <2>3, <2>4 DEF ArenaInv, ChunkInv
<1>13. CASE I # {}
  <2>1. PICK j : j = Min(I)
    OBVIOUS
  <2>2. j \in I
    <3>1. I \subseteq Int /\ IsFiniteSet(I)
      <4>1. I \subseteq 1 .. Len(row) /\ IsFiniteSet(1 .. Len(row))
        BY <1>5, <1>7, FS_Interval
      <4>2. IsFiniteSet(I)
        BY <4>1, FS_Subset
      <4> QED
        BY <4>1, <4>2
    <3> QED
      BY <1>13, <2>1, <3>1, LeastOfFinite
  <2>3. rows' = [rows EXCEPT ![activeRow][j] = Null]
    <3>1. where = {activeRow}
      BY <1>9, <1>13
    <3>2. Min(where) = activeRow
      BY <1>5, <3>1 DEF Min
    <3>3. SelectInSeq(row, LAMBDA q : q = x) = j
      BY <1>7, <1>13, <2>1 DEF SelectInSeq
    <3> QED
      BY <1>4, <1>10, <3>1, <3>2, <3>3
  <2>4. PICK less : less = [row EXCEPT ![j] = Null]
    OBVIOUS
  <2>5. /\ less \in Seq(Chunks \union {Null}) /\ Len(less) = Len(row)
        /\ DOMAIN less = DOMAIN row /\ less[j] = Null /\ j \in DOMAIN row
        /\ \A i \in DOMAIN row : i # j => less[i] = row[i]
    BY <1>5, <1>7, <2>2, <2>4
  <2>6. /\ rows' \in [0 .. MatrixRows - 1 -> Seq(Chunks \union {Null})]
        /\ rows'[activeRow] = less
        /\ \A r \in 0 .. MatrixRows - 1 : r # activeRow => rows'[r] = rows[r]
    <3>1. PICK S : S = Seq(Chunks \union {Null})
      OBVIOUS
    <3>2. /\ rows \in [0 .. MatrixRows - 1 -> S] /\ less \in S
          /\ rows' = [rows EXCEPT ![activeRow] = less] /\ activeRow \in 0 .. MatrixRows - 1
      BY <1>1, <1>4, <1>5, <2>3, <2>4, <2>5, <3>1 DEF ArenaTypes
    <3>3. /\ rows' \in [0 .. MatrixRows - 1 -> S] /\ rows'[activeRow] = less
          /\ \A r \in 0 .. MatrixRows - 1 : r # activeRow => rows'[r] = rows[r]
      BY <3>2
    <3> QED
      BY <3>1, <3>3
  <2>7. ArenaTypes'
    BY <1>1, <1>2, <1>11, <2>6 DEF ArenaTypes, Carries
  <2>8. HandInv' /\ CacheInv'
    BY <1>1, <1>2 DEF ArenaTypes, HandInv, Carries, CacheInv
  <2>9. RowInv'
    BY <1>1, <1>2, <1>4, <2>5, <2>6 DEF RowInv
  <2>10. \A p \in Chunks : TrackedAt(p)' = TrackedAt(p) \ (IF p = x THEN {j} ELSE {})
    <3>1. \A p : TrackedAt(p)' = {i \in DOMAIN less : less[i] = p}
      BY <1>2, <2>6 DEF TrackedAt
    <3>2. \A p : TrackedAt(p) = {i \in DOMAIN row : row[i] = p}
      BY <1>4 DEF TrackedAt
    <3>3. row[j] = x
      BY <1>7, <2>2
    <3> QED
      BY <1>1, <2>5, <3>1, <3>2, <3>3
  <2>11. ASSUME NEW p \in Chunks \ evicted PROVE Placed(p)'
    <3>1. Placed(p)
      BY <1>1 DEF ChunkInv
    <3>2. CachedAt(p)' = CachedAt(p) /\ HeldAt(p)' = HeldAt(p)
      BY <1>2 DEF CachedAt, HeldAt
    <3>3. \A u \in Clients : hand'[u] = p => p \notin owned'[u]
      BY <1>1, <1>2, <3>1 DEF ArenaTypes, Placed
    <3>4. CASE p # x
      <4>1. released'[p] = released[p]
        <5>1. CASE kept[t] \/ (where = {} /\ "ebr" \in flags)
          BY <1>10, <5>1
        <5>2. CASE ~(kept[t] \/ (where = {} /\ "ebr" \in flags))
          <6>1. PICK s : s = {x}
            OBVIOUS
          <6>2. Releasing(s) /\ p \in Chunks \ s
            BY <1>10, <3>4, <5>2, <6>1
          <6> QED
            BY <1>1, <6>2, Releases
        <5> QED
          BY <5>1, <5>2
      <4>2. TrackedAt(p)' = TrackedAt(p)
        BY <2>10, <3>4
      <4>3. HeldBy(p)' = HeldBy(p) /\ Users(p)' = Users(p)
        BY <1>1, <1>2, <1>3, <3>4 DEF ArenaTypes, HeldBy, Users, Carries
      <4> QED
        BY <1>2, <3>1, <3>2, <3>3, <4>1, <4>2, <4>3, StaysPut
    <3>5. CASE p = x
      <4>1. PICK T, U, H : T = TrackedAt(p) /\ U = Users(p) /\ H = HeldBy(p)
        OBVIOUS
      <4>2. IsFiniteSet(T) /\ IsFiniteSet(U) /\ IsFiniteSet(H) /\ Cardinality(T) = Cardinality(U)
        BY <1>1, <3>1, <4>1, PlacesFinite DEF Placed
      <4>3. TrackedAt(p)' = T \ {j} /\ j \in T
        BY <1>8, <2>2, <2>10, <3>5, <4>1
      <4>4. t \in U /\ p \notin owned[t] /\ p \notin fresh
        BY <1>2, <1>3, <3>1, <3>5, <4>1 DEF Users, Carries, Placed
      <4>5. Users(p)' = U \ {t}
        BY <1>1, <1>2, <3>5, <4>1, <4>4 DEF ArenaTypes, Users, Carries
      <4>6. Cardinality(TrackedAt(p)') = Cardinality(Users(p)')
        <5>1. Cardinality(T \ {j}) = Cardinality(T) - 1 /\ Cardinality(U \ {t}) = Cardinality(U) - 1
          BY <4>2, <4>3, <4>4, Counted
        <5> QED
          BY <4>2, <4>3, <4>5, <5>1
      <4>7. CASE kept[t]
        <5>1. released' = released
          BY <1>10, <4>7
        <5>2. HeldBy(p)' = HeldBy(p)
          BY <1>1, <1>2, <3>5, <4>4, <4>7 DEF ArenaTypes, HeldBy
        <5> QED
          BY <1>2, <3>1, <3>2, <3>3, <4>4, <4>6, <5>1, <5>2 DEF Placed
      <4>8. CASE ~kept[t]
        <5>1. t \in H
          BY <1>2, <1>3, <3>5, <4>1, <4>8 DEF HeldBy
        <5>2. /\ CachedAt(p) = {} /\ HeldAt(p) = {} /\ released[p] = 0 /\ Cardinality(H) = 1
          BY <1>1, <3>1, <4>1, <5>1, Alone
        <5>3. HeldBy(p)' = {}
          <6>1. HeldBy(p)' = H \ {t}
            BY <1>1, <1>2, <3>5, <4>1, <4>4 DEF ArenaTypes, HeldBy
          <6> QED
            BY <4>2, <5>1, <5>2, <6>1, OnlyOne
        <5>4. released'[p] = 1
          <6>1. PICK s : s = {x}
            OBVIOUS
          <6>2. Releasing(s) /\ p \in Chunks \cap s
            BY <1>9, <1>10, <1>13, <3>5, <4>8, <6>1
          <6> QED
            BY <1>1, <5>2, <6>2, Releases
        <5>5. /\ Cardinality(HeldBy(p)') = 0 /\ Cardinality(CachedAt(p)') = 0
              /\ Cardinality(HeldAt(p)') = 0
          BY <3>2, <5>2, <5>3, FS_EmptySet
        <5> QED
          BY <1>2, <3>1, <3>2, <3>3, <4>4, <4>6, <5>4, <5>5 DEF Placed
      <4> QED
        BY <4>7, <4>8
    <3> QED
      BY <3>4, <3>5
  <2> QED
    BY <1>2, <2>7, <2>8, <2>9, <2>11 DEF ArenaInv, ChunkInv
<1> QED
  BY <1>12, <1>13

\* ttak_detachable_context_destroy
LEMMA DestroyKeeps ==
    ASSUME ArenaInv, ArenaDestroy
    PROVE  ArenaInv'
<1>1. ArenaTypes /\ HandInv /\ RowInv /\ CacheInv /\ ChunkInv /\ Null \notin Chunks
  BY DetachableAssumption DEF ArenaInv
<1>2. PICK tracked : tracked = (UNION {ToSet(rows[r]) : r \in DOMAIN rows}) \ {Null}
  OBVIOUS
<1>3. PICK resting : resting = (Range(slots) \union ToSet(quarantine)) \ {Null}
  OBVIOUS
<1>4. PICK none : none = <<>>
  OBVIOUS
<1>5. none \in Seq(Chunks \union {Null}) /\ none \in Seq(Chunks) /\ Len(none) = 0 /\ DOMAIN none = {}
  BY <1>4
<1>6. CacheSlots \in Nat \ {0} /\ MatrixRows \in Nat \ {0} /\ Generations \in Nat
  BY DetachableAssumption
<1>7. /\ \A t \in Clients : stage[t] = "idle"
      /\ stage' = [t \in Clients |-> "destroyed"]
      /\ released' = [p \in Chunks |->
            Min({2, released[p] + (IF p \in tracked THEN 1 ELSE 0)
                                + (IF p \in resting THEN 1 ELSE 0)})]
      /\ rows' = [r \in DOMAIN rows |-> none]
      /\ slots' = [i \in DOMAIN slots |-> Null]
      /\ head' = 0 /\ tail' = 0 /\ cached' = 0
      /\ quarantine' = none
      /\ owned' = [t \in Clients |-> {}]
      /\ UNCHANGED <<flags, activeRow, fresh, hand, kept, evicted>>
  BY <1>2, <1>3, <1>4 DEF ArenaDestroy
<1>8. \A t \in Clients : hand[t] \notin Chunks /\ ~kept[t]
  BY <1>1, <1>7 DEF HandInv, Carries
<1>9. \A p \in Chunks : /\ p \in tracked <=> TrackedAt(p) # {}
                        /\ p \in resting <=> CachedAt(p) # {} \/ HeldAt(p) # {}
  <2>1. \A r \in 0 .. MatrixRows - 1 : r # activeRow => ToSet(rows[r]) = {}
    <3> SUFFICES ASSUME NEW r \in 0 .. MatrixRows - 1, r # activeRow PROVE ToSet(rows[r]) = {}
      OBVIOUS
    <3>1. rows[r] \in Seq(Chunks \union {Null}) /\ Len(rows[r]) <= 0
      BY <1>1 DEF ArenaTypes, RowInv
    <3>2. DOMAIN rows[r] = {}
      BY <3>1
    <3> QED
      BY <3>2 DEF ToSet
  <2>2. DOMAIN rows = 0 .. MatrixRows - 1 /\ activeRow \in 0 .. MatrixRows - 1
    BY <1>1 DEF ArenaTypes
  <2>3. \A p : p \in ToSet(rows[activeRow]) <=> TrackedAt(p) # {}
    BY DEF ToSet, TrackedAt
  <2>4. \A p \in Chunks : p \in tracked <=> TrackedAt(p) # {}
    <3> SUFFICES ASSUME NEW p \in Chunks PROVE p \in tracked <=> TrackedAt(p) # {}
      OBVIOUS
    <3>1. p # Null
      BY <1>1
    <3>2. p \in tracked <=> \E r \in DOMAIN rows : p \in ToSet(rows[r])
      BY <1>2, <3>1
    <3>3. (\E r \in DOMAIN rows : p \in ToSet(rows[r])) <=> p \in ToSet(rows[activeRow])
      BY <2>1, <2>2
    <3> QED
      BY <2>3, <3>2, <3>3
  <2>5. \A p : p \in Range(slots) <=> CachedAt(p) # {}
    BY DEF Range, CachedAt
  <2>6. \A p : p \in ToSet(quarantine) <=> HeldAt(p) # {}
    BY DEF ToSet, HeldAt
  <2> QED
    BY <1>1, <1>3, <2>4, <2>5, <2>6
<1>10. ASSUME NEW p \in Chunks
       PROVE  /\ released'[p] \in 0 .. 2
              /\ p \in tracked /\ p \in resting => released'[p] = 2
              /\ p \in tracked /\ p \notin resting /\ released[p] = 0 => released'[p] = 1
              /\ p \notin tracked /\ p \in resting /\ released[p] = 0 => released'[p] = 1
              /\ p \notin tracked /\ p \notin resting => released'[p] = released[p]
  <2>1. PICK a \in 0 .. 2 : a = released[p]
    BY <1>1 DEF ArenaTypes
  <2>2. PICK b \in 0 .. 2 : b = (IF p \in tracked THEN 1 ELSE 0) + (IF p \in resting THEN 1 ELSE 0)
    OBVIOUS
  <2>3. /\ Min({2, a + b}) \in 0 .. 2 /\ (a + b <= 2 => Min({2, a + b}) = a + b)
        /\ a + b > 2 => Min({2, a + b}) = 2
    <3>1. a + b > 2 => Min({2, a + b}) = 2
      BY DEF Min
    <3> QED
      BY <3>1, SaturatedCount
  <2>4. released'[p] = Min({2, a + b})
    <3>1. released[p] + (IF p \in tracked THEN 1 ELSE 0) + (IF p \in resting THEN 1 ELSE 0) = a + b
      <4>1. PICK c, d \in {0, 1} : /\ c = (IF p \in tracked THEN 1 ELSE 0)
                                    /\ d = (IF p \in resting THEN 1 ELSE 0)
        OBVIOUS
      <4>2. b = c + d /\ a + c + d = a + (c + d)
        BY <2>2, <4>1
      <4> QED
        BY <2>1, <4>1, <4>2
    <3>2. released'[p] = Min({2, released[p] + (IF p \in tracked THEN 1 ELSE 0)
                                             + (IF p \in resting THEN 1 ELSE 0)})
      BY <1>7
    <3> QED
      BY <3>1, <3>2
  <2> QED
    BY <2>1, <2>2, <2>3, <2>4
<1>11. released' \in [Chunks -> 0 .. 2]
  <2>1. DOMAIN released' = Chunks /\ released' = [p \in Chunks |-> released'[p]]
    BY <1>7
  <2> QED
    BY <1>10, <2>1
<1>12. ArenaTypes'
  <2>1. /\ rows' \in [0 .. MatrixRows - 1 -> Seq(Chunks \union {Null})]
        /\ slots' \in [0 .. CacheSlots - 1 -> Chunks \union {Null}]
    BY <1>1, <1>5, <1>7 DEF ArenaTypes
  <2>2. head' \in 0 .. CacheSlots - 1 /\ tail' \in 0 .. CacheSlots - 1 /\ cached' \in 0 .. CacheSlots
    BY <1>6, <1>7
  <2>3. owned' \in [Clients -> SUBSET Chunks] /\ stage' \in [Clients -> Carries \union {"idle", "destroyed"}]
    BY <1>7
  <2> QED
    BY <1>1, <1>5, <1>7, <1>11, <2>1, <2>2, <2>3 DEF ArenaTypes
<1>13. HandInv'
  BY <1>7, <1>8 DEF HandInv, Carries
<1>14. RowInv'
  <2>1. DOMAIN rows = 0 .. MatrixRows - 1
    BY <1>1 DEF ArenaTypes
  <2>2. \A r \in 0 .. MatrixRows - 1 : rows'[r] = none
    BY <1>7, <2>1
  <2>3. \A r \in 0 .. MatrixRows - 1 : Len(rows'[r]) = 0
    BY <1>5, <2>2
  <2> QED
    BY <1>6, <2>3 DEF RowInv
<1>15. CacheInv'
  <2>1. 0 \in 0 .. CacheSlots - 1 /\ 0 \in 0 .. CacheSlots
    BY <1>6
  <2>2. (0 + 0) % CacheSlots = Wrapped(0 + 0) /\ Wrapped(0 + 0) = 0
    BY <1>6, <2>1, CacheRing DEF Wrapped
  <2>3. ASSUME NEW i \in 0 .. CacheSlots - 1 PROVE slots'[(head' + i) % CacheSlots] = Null
    <3>1. i \in 0 .. CacheSlots
      BY <1>6
    <3>2. (0 + i) % CacheSlots \in 0 .. CacheSlots - 1
      BY <2>1, <3>1, CacheRing
    <3>3. DOMAIN slots = 0 .. CacheSlots - 1
      BY <1>1 DEF ArenaTypes
    <3> QED
      BY <1>7, <3>2, <3>3
  <2>4. \A i \in 0 .. CacheSlots - 1 : ~(i < 0)
    BY <1>6
  <2> QED
    BY <1>7, <2>2, <2>3, <2>4 DEF CacheInv
<1>16. ASSUME NEW p \in Chunks \ evicted PROVE Placed(p)'
  <2>1. Placed(p)
    BY <1>1 DEF ChunkInv
  <2>2. TrackedAt(p)' = {} /\ HeldAt(p)' = {} /\ CachedAt(p)' = {}
    <3>1. DOMAIN rows = 0 .. MatrixRows - 1 /\ activeRow \in 0 .. MatrixRows - 1
      BY <1>1 DEF ArenaTypes
    <3>2. rows'[activeRow'] = none
      BY <1>7, <3>1
    <3> QED
      BY <1>1, <1>5, <1>7, <3>2 DEF TrackedAt, HeldAt, CachedAt
  <2>3. Users(p)' = {} /\ HeldBy(p)' = {}
    BY <1>7, <1>8 DEF Users, HeldBy
  <2>4. \A u \in Clients : hand'[u] = p => p \notin owned'[u]
    BY <1>7
  <2>5. /\ Cardinality(TrackedAt(p)') = 0 /\ Cardinality(HeldAt(p)') = 0
        /\ Cardinality(CachedAt(p)') = 0 /\ Cardinality(Users(p)') = 0
        /\ Cardinality(HeldBy(p)') = 0
    BY <2>2, <2>3, FS_EmptySet
  <2>6. Users(p) = HeldBy(p)
    BY <1>7, <1>8 DEF Users, HeldBy
  <2>7. CASE p \in fresh
    <3>1. TrackedAt(p) = {} /\ CachedAt(p) = {} /\ HeldAt(p) = {} /\ released[p] = 0
      BY <1>1, <2>1, <2>7, Alone DEF Placed
    <3>2. released'[p] = 0
      BY <1>9, <1>10, <3>1
    <3> QED
      BY <1>7, <2>2, <2>3, <2>4, <2>5, <2>7, <3>2 DEF Placed
  <2>8. CASE p \notin fresh
    <3>1. released'[p] = 1
      <4>1. CASE HeldBy(p) # {}
        <5>1. TrackedAt(p) # {} /\ CachedAt(p) = {} /\ HeldAt(p) = {} /\ released[p] = 0
          BY <1>1, <2>1, <2>6, <4>1, Alone
        <5> QED
          BY <1>9, <1>10, <5>1
      <4>2. CASE HeldBy(p) = {}
        <5>1. TrackedAt(p) = {}
          BY <1>1, <2>1, <2>6, <4>2, Alone
        <5>2. CASE CachedAt(p) # {} \/ HeldAt(p) # {}
          <6>1. released[p] = 0
            BY <1>1, <2>1, <5>2, Alone
          <6> QED
            BY <1>9, <1>10, <5>1, <5>2, <6>1
        <5>3. CASE CachedAt(p) = {} /\ HeldAt(p) = {}
          <6>1. released[p] = 1
            BY <1>1, <2>1, <2>8, <4>2, <5>3, Alone
          <6> QED
            BY <1>9, <1>10, <5>1, <5>3, <6>1
        <5> QED
          BY <5>2, <5>3
      <4> QED
        BY <4>1, <4>2
    <3> QED
      BY <1>7, <2>4, <2>5, <2>8, <3>1 DEF Placed
  <2> QED
    BY <2>7, <2>8
<1> QED
  BY <1>7, <1>12, <1>13, <1>14, <1>15, <1>16 DEF ArenaInv, ChunkInv

\* The invariant holds of a new arena,
LEMMA ArenaInvInit == ArenaInit => ArenaInv
<1> SUFFICES ASSUME ArenaInit PROVE ArenaInv
  OBVIOUS
<1>1. /\ CacheSlots \in Nat \ {0} /\ MatrixRows \in Nat \ {0} /\ Generations \in Nat
      /\ Null \notin Chunks
  BY DetachableAssumption
<1>2. PICK none : none = <<>>
  OBVIOUS
<1>3. none \in Seq(Chunks \union {Null}) /\ none \in Seq(Chunks) /\ Len(none) = 0 /\ DOMAIN none = {}
  BY <1>2
<1>4. /\ rows = [r \in 0 .. MatrixRows - 1 |-> none] /\ activeRow = 0
      /\ slots = [i \in 0 .. CacheSlots - 1 |-> Null] /\ head = 0 /\ tail = 0 /\ cached = 0
      /\ quarantine = none /\ fresh = Chunks /\ owned = [t \in Clients |-> {}]
      /\ stage = [t \in Clients |-> "idle"] /\ hand = [t \in Clients |-> Null]
      /\ kept = [t \in Clients |-> FALSE] /\ released = [p \in Chunks |-> 0] /\ evicted = {}
  BY <1>2 DEF ArenaInit
<1>5. ArenaTypes
  BY <1>1, <1>3, <1>4 DEF ArenaTypes
<1>6. HandInv /\ RowInv
  BY <1>1, <1>3, <1>4 DEF HandInv, RowInv, Carries
<1>7. CacheInv
  <2>1. 0 \in 0 .. CacheSlots - 1 /\ 0 \in 0 .. CacheSlots
    BY <1>1
  <2>2. (0 + 0) % CacheSlots = Wrapped(0 + 0) /\ Wrapped(0 + 0) = 0
    BY <1>1, <2>1, CacheRing DEF Wrapped
  <2>3. ASSUME NEW i \in 0 .. CacheSlots - 1 PROVE slots[(head + i) % CacheSlots] = Null
    <3>1. i \in 0 .. CacheSlots
      BY <1>1
    <3>2. (0 + i) % CacheSlots \in 0 .. CacheSlots - 1
      BY <2>1, <3>1, CacheRing
    <3> QED
      BY <1>4, <3>2
  <2>4. \A i \in 0 .. CacheSlots - 1 : ~(i < 0)
    BY <1>1
  <2> QED
    BY <1>4, <2>2, <2>3, <2>4 DEF CacheInv
<1>8. ASSUME NEW p \in Chunks PROVE Placed(p)
  <2>1. TrackedAt(p) = {} /\ HeldAt(p) = {} /\ CachedAt(p) = {} /\ Users(p) = {} /\ HeldBy(p) = {}
    BY <1>1, <1>3, <1>4 DEF TrackedAt, HeldAt, CachedAt, Users, HeldBy
  <2> QED
    BY <1>4, <2>1 DEF Placed
<1> QED
  BY <1>5, <1>6, <1>7, <1>8 DEF ArenaInv, ChunkInv

\* and every step of a call keeps it.
LEMMA ArenaInvNext == ArenaInv /\ [ArenaNext]_arenaVars => ArenaInv'
<1> SUFFICES ASSUME ArenaInv, [ArenaNext]_arenaVars PROVE ArenaInv'
  OBVIOUS
<1>1. ASSUME NEW t \in Clients, TakeCached(t) PROVE ArenaInv'
  BY <1>1, TakeCachedKeeps
<1>2. ASSUME NEW t \in Clients, TakeFresh(t) PROVE ArenaInv'
  BY <1>2, TakeFreshKeeps
<1>3. ASSUME NEW t \in Clients, Track(t) PROVE ArenaInv'
  BY <1>3, TrackKeeps
<1>4. ASSUME NEW t \in Clients, Quarantine(t) PROVE ArenaInv'
  BY <1>4, QuarantineKeeps
<1>5. ASSUME NEW t \in Clients, QuarantineFails(t) PROVE ArenaInv'
  BY <1>5, QuarantineFailsKeeps
<1>6. ASSUME NEW t \in Clients, Store(t) PROVE ArenaInv'
  BY <1>6, StoreKeeps
<1>7. ASSUME NEW t \in Clients, Untrack(t) PROVE ArenaInv'
  BY <1>7, UntrackKeeps
<1>8. ASSUME NEW t \in Clients, NEW p \in Chunks, NEW hot \in BOOLEAN, FreeChunk(t, p, hot)
      PROVE  ArenaInv'
  BY <1>8, FreeKeeps
<1>9. CASE ArenaDestroy
  BY <1>9, DestroyKeeps
<1>10. CASE UNCHANGED arenaVars
  <2>1. ArenaTypes' /\ HandInv' /\ RowInv' /\ CacheInv'
    BY <1>10 DEF arenaVars, ArenaInv, ArenaTypes, HandInv, RowInv, CacheInv
  <2>2. ChunkInv'
    <3> SUFFICES ASSUME NEW p \in Chunks \ evicted PROVE Placed(p)'
      BY <1>10 DEF arenaVars, ChunkInv
    <3>1. Placed(p)
      BY DEF ArenaInv, ChunkInv
    <3>2. /\ TrackedAt(p)' = TrackedAt(p) /\ Users(p)' = Users(p) /\ HeldBy(p)' = HeldBy(p)
          /\ CachedAt(p)' = CachedAt(p) /\ HeldAt(p)' = HeldAt(p)
      BY <1>10 DEF arenaVars, HeldBy, CachedAt, HeldAt, TrackedAt, Users
    <3>3. \A t \in Clients : hand'[t] = p => p \notin owned'[t]
      BY <1>10, <3>1 DEF arenaVars, Placed
    <3> QED
      BY <1>10, <3>1, <3>2, <3>3, StaysPut DEF arenaVars
  <2> QED
    BY <2>1, <2>2 DEF ArenaInv
<1> QED
  BY <1>1, <1>2, <1>3, <1>4, <1>5, <1>6, <1>7, <1>8, <1>9, <1>10 DEF ArenaNext

\* Between the stages of any number of calls and up to the destruction of the
\* arena a chunk that no flush of a row released is in one place, and the ring
\* and the rows are within their bounds (detachable.c:277, 405, 531).
THEOREM ChunksPlaced == ArenaSpec => []ChunkInOnePlace
<1>1. ArenaInv => ChunkInOnePlace
  <2> SUFFICES ASSUME ArenaInv PROVE ChunkInOnePlace
    OBVIOUS
  <2>1. \A p \in Chunks \ (evicted \union fresh) : Places(p) = 1
    BY DEF ArenaInv, ChunkInv, Placed, Places, HeldBy, CachedAt, HeldAt
  <2>2. \A r \in DOMAIN rows : Len(rows[r]) <= IF r = activeRow THEN Generations ELSE 0
    BY DEF ArenaInv, ArenaTypes, RowInv
  <2> QED
    BY <2>1, <2>2 DEF ArenaInv, ArenaTypes, CacheInv, ChunkInOnePlace
<1> QED
  BY <1>1, ArenaInvInit, ArenaInvNext, PTL DEF ArenaSpec

(***************************************************************************)
(* The lattice.                                                             *)
(***************************************************************************)

\* What a node and a call may be, for a side length d.
Grid(d) == (0 .. d - 1) \X (0 .. d - 1)
NodesOf(d) == [real : BOOLEAN, used : Int, state : [Grid(d) -> {"free", "writing", "ready", "reading"}]]
SlotPlaces(d) == (Nat \ {0}) \X Grid(d)
CallsOf(d) ==
    {Quiet, [at |-> "compact"]}
        \union [at : {"found", "writing", "count"}, slot : SlotPlaces(d), view : BOOLEAN]
        \union [at : {"reading", "uncount"}, slot : SlotPlaces(d)]
        \union [at : {"stub"}, node : Nat]

\* What a holder finds in its slot.
Shown == [found |-> "free", writing |-> "writing", count |-> "ready", reading |-> "reading"]
Working == Holding \union {"uncount"}

\* The slots of node k in use, the calls that are about to count one, and the balance.
Busy(d, l, k) == {s \in Grid(d) : l[k].state[s] \in {"ready", "reading"}}
Doing(a, where, k) == {t \in Receivers : a[t].at = where /\ a[t].slot[1] = k}
Balanced(d, l, a, k) ==
    l[k].used = Cardinality(Busy(d, l, k)) - Cardinality(Doing(a, "count", k))
                + Cardinality(Doing(a, "uncount", k))

LatticeTypes(d, l, a, v) ==
    /\ d \in DOMAIN Crews /\ l \in Seq(NodesOf(d)) /\ a \in [Receivers -> CallsOf(d)]
    /\ v \subseteq SlotPlaces(d)
There(d, l, p) == p[1] \in 1 .. Len(l) /\ l[p[1]].real
HoldersInv(d, l, a, v) ==
    /\ \A t \in Receivers : a[t].at \in Working => There(d, l, a[t].slot)
    /\ \A t \in Receivers : a[t].at \in Holding =>
          /\ t \in Crews[d] /\ InLane(d, WorkerId[t], a[t].slot[2])
          /\ l[a[t].slot[1]].state[a[t].slot[2]] = Shown[a[t].at]
ViewsInv(d, l, a, v) ==
    \A p \in v : /\ There(d, l, p) /\ l[p[1]].state[p[2]] = "reading"
                 /\ \A t \in Receivers : a[t].at \in Holding => a[t].slot # p
CountsInv(d, l, a) == \A k \in 1 .. Len(l) : l[k].real => Balanced(d, l, a, k)

Sane(d, l, a, v) ==
    LatticeTypes(d, l, a, v) /\ HoldersInv(d, l, a, v) /\ ViewsInv(d, l, a, v) /\ CountsInv(d, l, a)
LatticeInv == struck \/ Sane(dim, lattice, act, views)

-----------------------------------------------------------------------------

LEMMA Stages ==
    /\ \A d : \A c \in CallsOf(d) :
          /\ c.at \in Working => c.slot \in SlotPlaces(d) /\ c.slot[1] \in Nat \ {0} /\ c.slot[2] \in Grid(d)
          /\ c.at \in {"found", "writing", "count"} => c.view \in BOOLEAN
          /\ c.at \in {"idle", "compact", "stub"} \union Working
    /\ Quiet.at = "idle"
    /\ Shown["found"] = "free" /\ Shown["writing"] = "writing" /\ Shown["count"] = "ready"
    /\ Shown["reading"] = "reading"
<1>1. ASSUME NEW d, NEW c \in CallsOf(d)
      PROVE  /\ c.at \in Working => c.slot \in SlotPlaces(d) /\ c.slot[1] \in Nat \ {0} /\ c.slot[2] \in Grid(d)
             /\ c.at \in {"found", "writing", "count"} => c.view \in BOOLEAN
             /\ c.at \in {"idle", "compact", "stub"} \union Working
  <2>0. \A p \in SlotPlaces(d) : p[1] \in Nat \ {0} /\ p[2] \in Grid(d)
    BY DEF SlotPlaces
  <2>1. CASE c = Quiet
    BY <2>1 DEF Quiet, Working, Holding
  <2>2. CASE c = [at |-> "compact"]
    BY <2>2 DEF Working, Holding
  <2>3. CASE c \in [at : {"found", "writing", "count"}, slot : SlotPlaces(d), view : BOOLEAN]
    BY <2>0, <2>3 DEF Working, Holding
  <2>4. CASE c \in [at : {"reading", "uncount"}, slot : SlotPlaces(d)]
    BY <2>0, <2>4 DEF Working, Holding
  <2>5. CASE c \in [at : {"stub"}, node : Nat]
    BY <2>5 DEF Working, Holding
  <2> QED
    BY <2>1, <2>2, <2>3, <2>4, <2>5 DEF CallsOf
<1> QED
  BY <1>1 DEF Quiet, Shown

LEMMA GridFinite ==
    ASSUME NEW d \in DOMAIN Crews
    PROVE  IsFiniteSet(Grid(d)) /\ IsFiniteSet(Receivers) /\ d \in Nat \ {0}
<1>1. d \in Nat \ {0}
  BY CrewAssumption
<1>2. IsFiniteSet(0 .. d - 1)
  <2>1. 0 \in Int /\ d - 1 \in Int
    BY <1>1
  <2> QED
    BY <2>1, FS_Interval
<1>3. IsFiniteSet(Grid(d))
  BY <1>2, FS_Product DEF Grid
<1>4. IsFiniteSet(Receivers)
  <2>1. IsFiniteSet({Releaser})
    BY FS_Singleton
  <2> QED
    BY <2>1, FS_Union, LatticeAssumption DEF Receivers
<1> QED
  BY <1>1, <1>3, <1>4

\* How much an element adds to a set, a state to the slots in use, a call to those counted.
Ones(x, S) == IF x \in S THEN 1 ELSE 0
Weight(x) == Ones(x, {"ready", "reading"})
Is(c, where) == Ones(c.at, {where})

\* Finite sets that differ in one element at most.
LEMMA OneMore ==
    ASSUME NEW S, NEW T, NEW x, IsFiniteSet(S), T \ {x} = S \ {x}
    PROVE  /\ Cardinality(T) = Cardinality(S) + Ones(x, T) - Ones(x, S)
           /\ Cardinality(S) \in Nat /\ Cardinality(T) \in Nat
<1>1. PICK R : R = S \ {x}
  OBVIOUS
<1>2. IsFiniteSet(R) /\ x \notin R /\ Cardinality(R) \in Nat
  BY <1>1, FS_Subset, FS_CardinalityType
<1>3. ASSUME NEW U, U \ {x} = R PROVE Cardinality(U) = Cardinality(R) + Ones(x, U)
  <2>1. CASE x \in U
    <3>1. U = R \union {x} /\ Ones(x, U) = 1
      BY <1>3, <2>1 DEF Ones
    <3> QED
      BY <1>2, <3>1, FS_AddElement
  <2>2. CASE x \notin U
    <3>1. U = R /\ Ones(x, U) = 0
      BY <1>3, <2>2 DEF Ones
    <3> QED
      BY <1>2, <3>1
  <2> QED
    BY <2>1, <2>2
<1>4. Cardinality(S) = Cardinality(R) + Ones(x, S) /\ Cardinality(T) = Cardinality(R) + Ones(x, T)
  BY <1>1, <1>3
<1>5. Ones(x, S) \in {0, 1} /\ Ones(x, T) \in {0, 1}
  BY DEF Ones
<1> QED
  BY <1>2, <1>4, <1>5

\* A call that starts, ends or moves on at a slot moves between the counts.
LEMMA DoingMoves ==
    ASSUME NEW d \in DOMAIN Crews, NEW a \in [Receivers -> CallsOf(d)], NEW b \in [Receivers -> CallsOf(d)],
           NEW t \in Receivers, \A u \in Receivers : u # t => b[u] = a[u], NEW where, NEW k
    PROVE  /\ Cardinality(Doing(b, where, k)) =
                  Cardinality(Doing(a, where, k)) + Ones(t, Doing(b, where, k)) - Ones(t, Doing(a, where, k))
           /\ Cardinality(Doing(a, where, k)) \in Nat /\ Cardinality(Doing(b, where, k)) \in Nat
<1>1. IsFiniteSet(Doing(a, where, k))
  BY GridFinite, FS_Subset DEF Doing
<1>2. Doing(b, where, k) \ {t} = Doing(a, where, k) \ {t}
  BY DEF Doing
<1> QED
  BY <1>1, <1>2, OneMore


\* A step of thread t at slot p, which leaves the slot as it is or has it alone.
SlotSet(l, p, n, x) == [l EXCEPT ![p[1]] = [@ EXCEPT !.used = n, !.state[p[2]] = x]]
OnlyUser(a, t, p) == \A u \in Receivers : u # t /\ a[u].at \in Holding => a[u].slot # p
StepAt(d, l, a, v, t, c, p, x, n, w) ==
    /\ t \in Receivers /\ c \in CallsOf(d) /\ p \in SlotPlaces(d) /\ There(d, l, p)
    /\ x \in {"free", "writing", "ready", "reading"} /\ n \in Int
    /\ a[t].at \in {"count", "uncount"} => a[t].slot = p
    /\ c.at \in Working => c.slot = p
    /\ x = l[p[1]].state[p[2]] \/ OnlyUser(a, t, p)
    /\ c.at \in Holding => t \in Crews[d] /\ InLane(d, WorkerId[t], p[2]) /\ x = Shown[c.at] /\ p \notin w
    /\ w \subseteq v \union {p}
    /\ p \in w => x = "reading" /\ OnlyUser(a, t, p)
    /\ n = l[p[1]].used + Weight(x) - Weight(l[p[1]].state[p[2]])
           - Is(c, "count") + Is(a[t], "count") + Is(c, "uncount") - Is(a[t], "uncount")

LEMMA StepKeeps ==
    ASSUME NEW d, NEW l, NEW a, NEW v, NEW t, NEW c, NEW p, NEW x, NEW n, NEW w,
           Sane(d, l, a, v), StepAt(d, l, a, v, t, c, p, x, n, w)
    PROVE  Sane(d, SlotSet(l, p, n, x), [a EXCEPT ![t] = c], w)
<1> DEFINE m == SlotSet(l, p, n, x)
           b == [a EXCEPT ![t] = c]
<1>1. /\ d \in DOMAIN Crews /\ l \in Seq(NodesOf(d)) /\ a \in [Receivers -> CallsOf(d)]
      /\ v \subseteq SlotPlaces(d) /\ HoldersInv(d, l, a, v) /\ ViewsInv(d, l, a, v) /\ CountsInv(d, l, a)
  BY DEF Sane, LatticeTypes
<1>a. /\ t \in Receivers /\ c \in CallsOf(d) /\ p \in SlotPlaces(d) /\ There(d, l, p)
      /\ x \in {"free", "writing", "ready", "reading"} /\ n \in Int
  BY DEF StepAt
<1>b. /\ a[t].at \in {"count", "uncount"} => a[t].slot = p
      /\ c.at \in Working => c.slot = p
  BY DEF StepAt
<1>c. x = l[p[1]].state[p[2]] \/ OnlyUser(a, t, p)
  BY DEF StepAt
<1>d. c.at \in Holding => t \in Crews[d] /\ InLane(d, WorkerId[t], p[2]) /\ x = Shown[c.at] /\ p \notin w
  BY DEF StepAt
<1>e. w \subseteq v \union {p} /\ (p \in w => x = "reading" /\ OnlyUser(a, t, p))
  BY DEF StepAt
<1>f. n = l[p[1]].used + Weight(x) - Weight(l[p[1]].state[p[2]])
          - Is(c, "count") + Is(a[t], "count") + Is(c, "uncount") - Is(a[t], "uncount")
  BY DEF StepAt
<1>2. PICK k, s : k = p[1] /\ s = p[2]
  OBVIOUS
<1>3. k \in 1 .. Len(l) /\ s \in Grid(d) /\ p = <<k, s>> /\ l[k].real /\ Len(l) \in Nat
  BY <1>1, <1>2, <1>a DEF SlotPlaces, There
<1>4. \A i \in 1 .. Len(l) : l[i] \in NodesOf(d)
  BY <1>1, ElementOfSeq
<1>5. PICK o : o = [l[k] EXCEPT !.used = n, !.state[s] = x]
  OBVIOUS
<1>6. /\ o \in NodesOf(d) /\ o.real = l[k].real /\ o.used = n
      /\ o.state[s] = x /\ \A r \in Grid(d) : r # s => o.state[r] = l[k].state[r]
  <2>1. l[k] \in NodesOf(d)
    BY <1>3, <1>4
  <2> QED
    BY <1>3, <1>5, <1>a, <2>1 DEF NodesOf
<1>7. m = [l EXCEPT ![k] = o]
  BY <1>2, <1>5 DEF SlotSet
<1> HIDE DEF m
<1>8. /\ m \in Seq(NodesOf(d)) /\ Len(m) = Len(l) /\ m[k] = o
      /\ \A i \in 1 .. Len(l) : i # k => m[i] = l[i]
  BY <1>1, <1>3, <1>6, <1>7, ExceptSeq
<1>9. b \in [Receivers -> CallsOf(d)] /\ b[t] = c /\ \A u \in Receivers : u # t => b[u] = a[u]
  BY <1>1, <1>a
<1> HIDE DEF b
<1>10. LatticeTypes(d, m, b, w)
  BY <1>1, <1>8, <1>9, <1>a, <1>e DEF LatticeTypes
<1>11. \A q : There(d, l, q) => There(d, m, q)
  BY <1>3, <1>6, <1>8 DEF There
<1>12. \A q \in SlotPlaces(d) : There(d, l, q) /\ q # p => m[q[1]].state[q[2]] = l[q[1]].state[q[2]]
  <2> SUFFICES ASSUME NEW q \in SlotPlaces(d), There(d, l, q), q # p
               PROVE  m[q[1]].state[q[2]] = l[q[1]].state[q[2]]
    OBVIOUS
  <2>1. q = <<q[1], q[2]>> /\ q[1] \in 1 .. Len(l) /\ q[2] \in Grid(d)
    BY DEF SlotPlaces, There
  <2>2. CASE q[1] # k
    BY <1>8, <2>1, <2>2
  <2>3. CASE q[1] = k
    <3>1. q[2] # s
      BY <1>3, <2>1, <2>3
    <3> QED
      BY <1>6, <1>8, <2>1, <2>3, <3>1
  <2> QED
    BY <2>2, <2>3
<1>13. m[p[1]].state[p[2]] = x
  BY <1>2, <1>6, <1>8
<1>14. HoldersInv(d, m, b, w)
  <2>1. ASSUME NEW u \in Receivers, b[u].at \in Working PROVE There(d, m, b[u].slot)
    <3>1. CASE u = t
      BY <1>9, <1>11, <1>a, <1>b, <2>1, <3>1
    <3>2. CASE u # t
      BY <1>1, <1>9, <1>11, <2>1, <3>2 DEF HoldersInv
    <3> QED
      BY <3>1, <3>2
  <2>2. ASSUME NEW u \in Receivers, b[u].at \in Holding
        PROVE  /\ u \in Crews[d] /\ InLane(d, WorkerId[u], b[u].slot[2])
               /\ m[b[u].slot[1]].state[b[u].slot[2]] = Shown[b[u].at]
    <3>0. b[u].at \in Working
      BY <2>2 DEF Working
    <3>1. CASE u = t
      BY <1>9, <1>13, <1>b, <1>d, <2>2, <3>0, <3>1
    <3>2. CASE u # t
      <4>1. /\ u \in Crews[d] /\ InLane(d, WorkerId[u], a[u].slot[2])
            /\ l[a[u].slot[1]].state[a[u].slot[2]] = Shown[a[u].at]
            /\ There(d, l, a[u].slot) /\ a[u].slot \in SlotPlaces(d)
        BY <1>1, <1>9, <2>2, <3>0, <3>2, Stages DEF HoldersInv
      <4>2. CASE a[u].slot # p
        BY <1>9, <1>12, <3>2, <4>1, <4>2
      <4>3. CASE a[u].slot = p
        <5>1. x = l[p[1]].state[p[2]]
          BY <1>9, <1>c, <2>2, <3>2, <4>3 DEF OnlyUser
        <5> QED
          BY <1>9, <1>13, <3>2, <4>1, <4>3, <5>1
      <4> QED
        BY <4>2, <4>3
    <3> QED
      BY <3>1, <3>2
  <2> QED
    BY <2>1, <2>2 DEF HoldersInv
<1>15. ViewsInv(d, m, b, w)
  <2> SUFFICES ASSUME NEW q \in w
               PROVE  /\ There(d, m, q) /\ m[q[1]].state[q[2]] = "reading"
                      /\ \A u \in Receivers : b[u].at \in Holding => b[u].slot # q
    BY DEF ViewsInv
  <2>1. CASE q = p
    <3>1. c.at \notin Holding /\ x = "reading" /\ OnlyUser(a, t, p)
      BY <1>d, <1>e, <2>1
    <3>2. \A u \in Receivers : b[u].at \in Holding => b[u].slot # q
      BY <1>9, <2>1, <3>1 DEF OnlyUser
    <3> QED
      BY <1>11, <1>13, <1>a, <2>1, <3>1, <3>2
  <2>2. CASE q # p
    <3>1. /\ q \in v /\ There(d, l, q) /\ l[q[1]].state[q[2]] = "reading"
          /\ \A u \in Receivers : a[u].at \in Holding => a[u].slot # q
      BY <1>1, <1>e, <2>2 DEF ViewsInv
    <3>2. m[q[1]].state[q[2]] = "reading"
      BY <1>1, <1>12, <2>2, <3>1
    <3>3. \A u \in Receivers : b[u].at \in Holding => b[u].slot # q
      BY <1>9, <1>b, <2>2, <3>1 DEF Working
    <3> QED
      BY <1>11, <3>1, <3>2, <3>3
  <2> QED
    BY <2>1, <2>2
<1>16. CountsInv(d, m, b)
  <2> SUFFICES ASSUME NEW i \in 1 .. Len(l), m[i].real PROVE Balanced(d, m, b, i)
    BY <1>8 DEF CountsInv
  <2>1. PICK ca, cb, ua, ub, wa, wb :
           /\ ca = Cardinality(Doing(a, "count", i)) /\ ua = Cardinality(Doing(a, "uncount", i))
           /\ cb = Cardinality(Doing(b, "count", i)) /\ ub = Cardinality(Doing(b, "uncount", i))
           /\ wa = Cardinality(Busy(d, l, i)) /\ wb = Cardinality(Busy(d, m, i))
    OBVIOUS
  <2>2. /\ cb = ca + Ones(t, Doing(b, "count", i)) - Ones(t, Doing(a, "count", i))
        /\ ub = ua + Ones(t, Doing(b, "uncount", i)) - Ones(t, Doing(a, "uncount", i))
        /\ {ca, cb, ua, ub} \subseteq Nat
    BY <1>1, <1>9, <1>a, <2>1, DoingMoves
  <2>3. wb = wa + Ones(s, Busy(d, m, i)) - Ones(s, Busy(d, l, i)) /\ {wa, wb} \subseteq Nat
    <3>1. IsFiniteSet(Busy(d, l, i))
      BY <1>1, GridFinite, FS_Subset DEF Busy
    <3>2. Busy(d, m, i) \ {s} = Busy(d, l, i) \ {s}
      <4>1. \A r \in Grid(d) : r # s => m[i].state[r] = l[i].state[r]
        BY <1>6, <1>8
      <4> QED
        BY <4>1 DEF Busy
    <3> QED
      BY <2>1, <3>1, <3>2, OneMore
  <2>4. l[i].real /\ l[i].used = wa - ca + ua /\ l[i].used \in Int
    BY <1>1, <1>3, <1>4, <1>8, <2>1 DEF CountsInv, NodesOf, Balanced
  <2>5. m[i].used = wb - cb + ub
    <3>1. CASE i # k
      <4>1. /\ t \notin Doing(a, "count", i) /\ t \notin Doing(a, "uncount", i)
            /\ t \notin Doing(b, "count", i) /\ t \notin Doing(b, "uncount", i)
        BY <1>2, <1>9, <1>b, <3>1 DEF Doing, Working, Holding
      <4>2. m[i] = l[i] /\ Busy(d, m, i) = Busy(d, l, i)
        BY <1>8, <3>1 DEF Busy
      <4>3. cb = ca /\ ub = ua /\ wb = wa
        BY <2>1, <2>2, <4>1, <4>2 DEF Ones
      <4> QED
        BY <2>4, <4>2, <4>3
    <3>2. CASE i = k
      <4>1. /\ Ones(t, Doing(a, "count", i)) = Is(a[t], "count")
            /\ Ones(t, Doing(a, "uncount", i)) = Is(a[t], "uncount")
        BY <1>2, <1>a, <1>b, <3>2 DEF Doing, Ones, Is
      <4>2. /\ Ones(t, Doing(b, "count", i)) = Is(c, "count")
            /\ Ones(t, Doing(b, "uncount", i)) = Is(c, "uncount")
        BY <1>2, <1>9, <1>a, <1>b, <3>2 DEF Doing, Ones, Is, Working, Holding
      <4>3. Ones(s, Busy(d, m, i)) = Weight(x) /\ Ones(s, Busy(d, l, i)) = Weight(l[k].state[s])
        BY <1>3, <1>6, <1>8, <3>2 DEF Busy, Ones, Weight
      <4>4. n = l[k].used + Weight(x) - Weight(l[k].state[s])
                - Is(c, "count") + Is(a[t], "count") + Is(c, "uncount") - Is(a[t], "uncount")
        BY <1>2, <1>f
      <4>5. PICK f, g, e, h, y, z : /\ f = Weight(x) /\ g = Weight(l[k].state[s])
                                   /\ e = Is(c, "count") /\ h = Is(a[t], "count")
                                   /\ y = Is(c, "uncount") /\ z = Is(a[t], "uncount")
        OBVIOUS
      <4>6. f \in Int /\ g \in Int /\ e \in Int /\ h \in Int /\ y \in Int /\ z \in Int
        BY <4>5 DEF Weight, Is, Ones
      <4>7. m[i].used = l[i].used + f - g - e + h + y - z
        BY <1>6, <1>8, <3>2, <4>4, <4>5
      <4>8. cb = ca + e - h /\ ub = ua + y - z /\ wb = wa + f - g
        BY <2>2, <2>3, <4>1, <4>2, <4>3, <4>5
      <4>9. ca \in Int /\ ua \in Int /\ wa \in Int
        BY <2>2, <2>3
      <4>10. PICK q, r : q = l[i].used /\ r = m[i].used
        OBVIOUS
      <4>11. q = wa - ca + ua /\ r = q + f - g - e + h + y - z
        BY <2>4, <4>7, <4>10
      <4>12. r = wb - cb + ub
        BY <4>6, <4>8, <4>9, <4>11
      <4> QED
        BY <4>10, <4>12
    <3> QED
      BY <3>1, <3>2
  <2> QED
    BY <2>1, <2>5 DEF Balanced
<1> QED
  BY <1>10, <1>14, <1>15, <1>16 DEF Sane, m, b

\* What else a step of one call uses: a slot set to what it holds is the same list,
LEMMA SlotSame ==
    ASSUME NEW d, NEW l \in Seq(NodesOf(d)), NEW p, There(d, l, p)
    PROVE  SlotSet(l, p, l[p[1]].used, l[p[1]].state[p[2]]) = l
<1>1. PICK k, s : k = p[1] /\ s = p[2]
  OBVIOUS
<1>2. k \in 1 .. Len(l) /\ l[k] \in NodesOf(d)
  BY <1>1, ElementOfSeq DEF There
<1>3. [l[k] EXCEPT !.used = l[k].used, !.state[s] = l[k].state[s]] = l[k]
  BY <1>2 DEF NodesOf
<1>4. [l EXCEPT ![k] = l[k]] = l
  BY <1>2
<1> QED
  BY <1>1, <1>3, <1>4 DEF SlotSet

\* a worker has the slots of its lane alone,
LEMMA LaneAlone ==
    ASSUME NEW d, NEW l, NEW a, NEW v, Sane(d, l, a, v), NEW t \in Crews[d], NEW p \in SlotPlaces(d),
           InLane(d, WorkerId[t], p[2])
    PROVE  OnlyUser(a, t, p)
<1> SUFFICES ASSUME NEW u \in Receivers, u # t, a[u].at \in Holding, a[u].slot = p PROVE FALSE
  BY DEF OnlyUser
<1>1. d \in DOMAIN Crews /\ u \in Crews[d] /\ InLane(d, WorkerId[u], p[2])
  BY DEF Sane, LatticeTypes, HoldersInv
<1>2. p[2] \in (0 .. d - 1) \X (0 .. d - 1)
  BY DEF SlotPlaces, Grid
<1> QED
  BY <1>1, <1>2, CrewAssumption

\* and what a call holds no view and no other call has.
LEMMA HolderAlone ==
    ASSUME NEW d, NEW l, NEW a, NEW v, Sane(d, l, a, v), NEW t \in Receivers, a[t].at \in Holding
    PROVE  /\ OnlyUser(a, t, a[t].slot) /\ a[t].slot \notin v
           /\ a[t].slot \in SlotPlaces(d) /\ There(d, l, a[t].slot)
           /\ t \in Crews[d] /\ InLane(d, WorkerId[t], a[t].slot[2])
           /\ l[a[t].slot[1]].state[a[t].slot[2]] = Shown[a[t].at]
<1>1. a[t] \in CallsOf(d) /\ a[t].at \in Working
  BY DEF Sane, LatticeTypes, Working
<1>2. a[t].slot \in SlotPlaces(d) /\ There(d, l, a[t].slot)
  BY <1>1, Stages DEF Sane, HoldersInv
<1>3. /\ t \in Crews[d] /\ InLane(d, WorkerId[t], a[t].slot[2])
      /\ l[a[t].slot[1]].state[a[t].slot[2]] = Shown[a[t].at]
  BY DEF Sane, HoldersInv
<1>4. a[t].slot \notin v
  BY DEF Sane, ViewsInv
<1> QED
  BY <1>2, <1>3, <1>4, LaneAlone

\* A call that holds nothing and moves to a stage where it holds nothing.
LEMMA IdleKeeps ==
    ASSUME NEW d, NEW l, NEW a, NEW v, Sane(d, l, a, v), NEW t \in Receivers, a[t].at \notin Working,
           NEW c \in CallsOf(d), c.at \notin Working
    PROVE  Sane(d, l, [a EXCEPT ![t] = c], v)
<1>1. PICK b : b = [a EXCEPT ![t] = c]
  OBVIOUS
<1>2. LatticeTypes(d, l, a, v) /\ HoldersInv(d, l, a, v) /\ ViewsInv(d, l, a, v) /\ CountsInv(d, l, a)
  BY DEF Sane
<1>3. /\ b \in [Receivers -> CallsOf(d)] /\ b[t] = c
      /\ \A u \in Receivers : u # t => b[u] = a[u]
  BY <1>1, <1>2 DEF LatticeTypes
<1>4. \A u \in Receivers : b[u].at \in Working => u # t /\ b[u] = a[u]
  BY <1>3
<1>5. Holding \subseteq Working
  BY DEF Working
<1>6. LatticeTypes(d, l, b, v)
  BY <1>2, <1>3 DEF LatticeTypes
<1>7. HoldersInv(d, l, b, v)
  BY <1>2, <1>4, <1>5 DEF HoldersInv
<1>8. ViewsInv(d, l, b, v)
  BY <1>2, <1>4, <1>5 DEF ViewsInv
<1>9. CountsInv(d, l, b)
  <2>1. ASSUME NEW k, NEW where \in {"count", "uncount"} PROVE Doing(b, where, k) = Doing(a, where, k)
    BY <1>3, <1>4 DEF Doing, Working, Holding
  <2> QED
    BY <1>2, <2>1 DEF CountsInv, Balanced
<1> QED
  BY <1>1, <1>6, <1>7, <1>8, <1>9 DEF Sane

\* Nodes where nothing is held, seen or counted are replaced by unused ones, or added.
Untouched(a, v, R) ==
    /\ \A t \in Receivers : a[t].at \in Working => a[t].slot[1] \notin R
    /\ \A p \in v : p[1] \notin R
LEMMA ReplaceKeeps ==
    ASSUME NEW d, NEW l, NEW a, NEW v, Sane(d, l, a, v), NEW m \in Seq(NodesOf(d)), NEW R,
           Len(l) <= Len(m), Untouched(a, v, R),
           \A i \in 1 .. Len(m) : i \notin R => i \in 1 .. Len(l) /\ m[i] = l[i],
           \A i \in 1 .. Len(m) : i \in R => m[i].used = 0 /\ \A s \in Grid(d) : m[i].state[s] = "free"
    PROVE  Sane(d, m, a, v)
<1>1. LatticeTypes(d, l, a, v) /\ HoldersInv(d, l, a, v) /\ ViewsInv(d, l, a, v) /\ CountsInv(d, l, a)
  BY DEF Sane
<1>2. LatticeTypes(d, m, a, v) /\ Len(l) \in Nat /\ Len(m) \in Nat
  BY <1>1 DEF LatticeTypes
<1>3. \A q : There(d, l, q) /\ q[1] \notin R => There(d, m, q) /\ m[q[1]] = l[q[1]]
  BY <1>2 DEF There
<1>4. Holding \subseteq Working
  BY DEF Working
<1>5. HoldersInv(d, m, a, v)
  <2>1. ASSUME NEW t \in Receivers, a[t].at \in Working
        PROVE  There(d, m, a[t].slot) /\ m[a[t].slot[1]] = l[a[t].slot[1]]
    BY <1>1, <1>3, <2>1 DEF HoldersInv, Untouched
  <2> QED
    BY <1>1, <1>4, <2>1 DEF HoldersInv
<1>6. ViewsInv(d, m, a, v)
  BY <1>1, <1>3 DEF ViewsInv, Untouched
<1>7. CountsInv(d, m, a)
  <2> SUFFICES ASSUME NEW i \in 1 .. Len(m), m[i].real PROVE Balanced(d, m, a, i)
    BY DEF CountsInv
  <2>1. CASE i \notin R
    <3>1. i \in 1 .. Len(l) /\ m[i] = l[i] /\ Busy(d, m, i) = Busy(d, l, i)
      BY <2>1 DEF Busy
    <3> QED
      BY <1>1, <3>1 DEF CountsInv, Balanced
  <2>2. CASE i \in R
    <3>1. Busy(d, m, i) = {} /\ m[i].used = 0
      BY <2>2 DEF Busy
    <3>2. Doing(a, "count", i) = {} /\ Doing(a, "uncount", i) = {}
      BY <2>2 DEF Untouched, Doing, Working, Holding
    <3>3. Cardinality({}) = 0
      BY FS_EmptySet
    <3>4. /\ Cardinality(Busy(d, m, i)) = 0
          /\ Cardinality(Doing(a, "count", i)) = 0 /\ Cardinality(Doing(a, "uncount", i)) = 0
      BY <3>1, <3>2, <3>3
    <3> QED
      BY <3>1, <3>4 DEF Balanced
  <2> QED
    BY <2>1, <2>2
<1> QED
  BY <1>2, <1>5, <1>6, <1>7 DEF Sane

LEMMA Fresh ==
    dim \in DOMAIN Crews => /\ FreshNode \in NodesOf(dim) /\ FreshNode.used = 0 /\ FreshNode.real
                            /\ \A s \in Grid(dim) : FreshNode.state[s] = "free"
<1>1. Slots = Grid(dim)
  BY DEF Slots, Grid
<1> QED
  BY <1>1 DEF FreshNode, NodesOf

\* A node after k, if there is none.
LEMMA EnsureKeeps ==
    ASSUME NEW l, NEW a, NEW v, Sane(dim, l, a, v), NEW k \in 1 .. Len(l), NEW ok \in BOOLEAN
    PROVE  Sane(dim, EnsureNext(l, k, ok), a, v)
<1>1. LatticeTypes(dim, l, a, v) /\ HoldersInv(dim, l, a, v) /\ ViewsInv(dim, l, a, v)
  BY DEF Sane
<1>2. /\ l \in Seq(NodesOf(dim)) /\ Len(l) \in Nat /\ dim \in DOMAIN Crews
      /\ FreshNode \in NodesOf(dim) /\ FreshNode.used = 0
      /\ \A s \in Grid(dim) : FreshNode.state[s] = "free"
  BY <1>1, Fresh DEF LatticeTypes
<1>3. CASE EnsureNext(l, k, ok) = l
  BY <1>3
<1>4. CASE EnsureNext(l, k, ok) = Append(l, FreshNode)
  <2>1. PICK m : m = Append(l, FreshNode)
    OBVIOUS
  <2>2. /\ m \in Seq(NodesOf(dim)) /\ Len(m) = Len(l) + 1 /\ m[Len(l) + 1] = FreshNode
        /\ \A i \in 1 .. Len(l) : m[i] = l[i]
    BY <1>2, <2>1, AppendProperties
  <2>3. Untouched(a, v, {Len(l) + 1})
    BY <1>1, <1>2 DEF Untouched, HoldersInv, ViewsInv, There
  <2>4. PICK R : R = {Len(l) + 1}
    OBVIOUS
  <2>5. /\ Len(l) <= Len(m) /\ Untouched(a, v, R)
        /\ \A i \in 1 .. Len(m) : i \notin R => i \in 1 .. Len(l) /\ m[i] = l[i]
        /\ \A i \in 1 .. Len(m) : i \in R => m[i].used = 0 /\ \A s \in Grid(dim) : m[i].state[s] = "free"
    BY <1>2, <2>2, <2>3, <2>4
  <2>6. Sane(dim, m, a, v)
    BY <2>2, <2>5, ReplaceKeeps
  <2> QED
    BY <1>4, <2>1, <2>6
<1>5. CASE k # Len(l) /\ ~l[k + 1].real /\ EnsureNext(l, k, ok) = [l EXCEPT ![k + 1] = FreshNode]
  <2>1. PICK m : m = [l EXCEPT ![k + 1] = FreshNode]
    OBVIOUS
  <2>2. k + 1 \in 1 .. Len(l)
    BY <1>2, <1>5
  <2>3. /\ m \in Seq(NodesOf(dim)) /\ Len(m) = Len(l) /\ m[k + 1] = FreshNode
        /\ \A i \in 1 .. Len(l) : i # k + 1 => m[i] = l[i]
    BY <1>2, <2>1, <2>2, ExceptSeq
  <2>4. Untouched(a, v, {k + 1})
    BY <1>1, <1>5 DEF Untouched, HoldersInv, ViewsInv, There
  <2>5. PICK R : R = {k + 1}
    OBVIOUS
  <2>6. /\ Len(l) <= Len(m) /\ Untouched(a, v, R)
        /\ \A i \in 1 .. Len(m) : i \notin R => i \in 1 .. Len(l) /\ m[i] = l[i]
        /\ \A i \in 1 .. Len(m) : i \in R => m[i].used = 0 /\ \A s \in Grid(dim) : m[i].state[s] = "free"
    BY <1>2, <2>3, <2>4, <2>5
  <2>7. Sane(dim, m, a, v)
    BY <2>3, <2>6, ReplaceKeeps
  <2> QED
    BY <1>5, <2>1, <2>7
<1> QED
  BY <1>3, <1>4, <1>5 DEF EnsureNext

LEMMA Figures ==
    /\ Weight("free") = 0 /\ Weight("writing") = 0 /\ Weight("ready") = 1 /\ Weight("reading") = 1
    /\ \A c, where : Is(c, where) = IF c.at = where THEN 1 ELSE 0
BY DEF Weight, Is, Ones

LEMMA Basics ==
    ASSUME Sane(dim, lattice, act, views)
    PROVE  /\ dim \in DOMAIN Crews /\ Crews[dim] \subseteq LatticeWorkers /\ LatticeWorkers \subseteq Receivers
           /\ lattice \in Seq(NodesOf(dim)) /\ Len(lattice) \in Nat /\ DOMAIN lattice = 1 .. Len(lattice)
           /\ \A i \in 1 .. Len(lattice) : lattice[i] \in NodesOf(dim)
           /\ act \in [Receivers -> CallsOf(dim)] /\ views \subseteq SlotPlaces(dim)
           /\ HoldersInv(dim, lattice, act, views) /\ ViewsInv(dim, lattice, act, views)
           /\ CountsInv(dim, lattice, act) /\ Slots = Grid(dim)
<1>1. /\ dim \in DOMAIN Crews /\ lattice \in Seq(NodesOf(dim))
      /\ act \in [Receivers -> CallsOf(dim)] /\ views \subseteq SlotPlaces(dim)
  BY DEF Sane, LatticeTypes
<1>2. Crews[dim] \subseteq LatticeWorkers /\ LatticeWorkers \subseteq Receivers
  BY <1>1, CrewAssumption DEF Receivers
<1>3. \A i \in 1 .. Len(lattice) : lattice[i] \in NodesOf(dim)
  BY <1>1, ElementOfSeq
<1> QED
  BY <1>1, <1>2, <1>3 DEF Sane, Slots, Grid

\* What a sweep finds.
LEMMA SweptSlot ==
    ASSUME Sane(dim, lattice, act, views), NEW w \in Crews[dim], NEW ks, ks \subseteq RealNodes,
           NEW x, NEW p \in Swept(w, ks, x)
    PROVE  /\ p \in SlotPlaces(dim) /\ There(dim, lattice, p) /\ InLane(dim, WorkerId[w], p[2])
           /\ lattice[p[1]].state[p[2]] = x /\ OnlyUser(act, w, p) /\ lattice[p[1]].used \in Int
<1>1. /\ p \in ks \X Slots /\ InLane(dim, WorkerId[w], p[2]) /\ lattice[p[1]].state[p[2]] = x
  BY DEF Swept, OwnSlot
<1>2. p = <<p[1], p[2]>> /\ p[1] \in DOMAIN lattice /\ lattice[p[1]].real /\ p[2] \in Grid(dim)
  BY <1>1, Basics DEF RealNodes
<1>3. p \in SlotPlaces(dim) /\ There(dim, lattice, p) /\ lattice[p[1]].used \in Int
  BY <1>2, Basics DEF SlotPlaces, There, NodesOf
<1> QED
  BY <1>1, <1>3, LaneAlone

LEMMA FindKeeps ==
    ASSUME Sane(dim, lattice, act, views), NEW w \in LatticeWorkers, NEW view \in BOOLEAN, Find(w, view)
    PROVE  Sane(dim', lattice', act', views')
<1>1. /\ act[w] = Quiet /\ w \in Crews[dim] /\ w \in Receivers /\ UNCHANGED <<dim, lattice, views>>
  BY Basics DEF Find
<1>2. PICK p \in Swept(w, Eligible(view), "free") : Moves(w, [at |-> "found", slot |-> p, view |-> view])
  BY DEF Find
<1>3. PICK c : c = [at |-> "found", slot |-> p, view |-> view]
  OBVIOUS
<1>4. /\ p \in SlotPlaces(dim) /\ There(dim, lattice, p) /\ InLane(dim, WorkerId[w], p[2])
      /\ lattice[p[1]].state[p[2]] = "free" /\ OnlyUser(act, w, p) /\ lattice[p[1]].used \in Int
  <2>1. Eligible(view) \subseteq RealNodes
    BY DEF Eligible
  <2> QED
    BY <1>1, <2>1, SweptSlot
<1>5. p \notin views
  BY <1>4, Basics DEF ViewsInv
<1>6. PICK n : n = lattice[p[1]].used
  OBVIOUS
<1>7. StepAt(dim, lattice, act, views, w, c, p, "free", n, views)
  <2>1. c \in CallsOf(dim) /\ c.at = "found" /\ c.slot = p
    BY <1>3, <1>4 DEF CallsOf
  <2>2. n = lattice[p[1]].used + Weight("free") - Weight("free")
            - Is(c, "count") + Is(act[w], "count") + Is(c, "uncount") - Is(act[w], "uncount")
    BY <1>1, <1>4, <1>6, <2>1, Figures DEF Quiet
  <2> QED
    BY <1>1, <1>4, <1>5, <1>6, <2>1, <2>2 DEF StepAt, Quiet, Shown
<1>8. Sane(dim, SlotSet(lattice, p, n, "free"), [act EXCEPT ![w] = c], views)
  BY <1>7, StepKeeps
<1>9. SlotSet(lattice, p, n, "free") = lattice
  BY <1>4, <1>6, Basics, SlotSame
<1> QED
  BY <1>1, <1>2, <1>3, <1>8, <1>9 DEF Moves

\* Setting the state of a slot, the count as it is.
LEMMA StateSet ==
    ASSUME Sane(dim, lattice, act, views), NEW p \in SlotPlaces(dim), There(dim, lattice, p), NEW x, SetState(p, x)
    PROVE  lattice' = SlotSet(lattice, p, lattice[p[1]].used, x)
<1>1. PICK k, s : k = p[1] /\ s = p[2]
  OBVIOUS
<1>2. lattice[k] \in NodesOf(dim)
  BY <1>1, Basics DEF There
<1>3. [lattice[k] EXCEPT !.state[s] = x] = [lattice[k] EXCEPT !.used = lattice[k].used, !.state[s] = x]
  BY <1>2 DEF NodesOf
<1>4. lattice' = [lattice EXCEPT ![k] = [lattice[k] EXCEPT !.state[s] = x]]
  BY <1>1 DEF SetState
<1> QED
  BY <1>1, <1>3, <1>4 DEF SlotSet

LEMMA ClaimKeeps ==
    ASSUME Sane(dim, lattice, act, views), NEW w \in LatticeWorkers, Claim(w)
    PROVE  Sane(dim', lattice', act', views')
<1>1. /\ act[w].at = "found" /\ w \in Receivers /\ UNCHANGED <<dim, views>> /\ act[w] \in CallsOf(dim)
  BY Basics DEF Claim
<1>2. PICK p, c : p = act[w].slot /\ c = [act[w] EXCEPT !.at = "writing"]
  OBVIOUS
<1>3. SetState(p, "writing") /\ Moves(w, c)
  BY <1>2 DEF Claim
<1>4. /\ OnlyUser(act, w, p) /\ p \notin views /\ p \in SlotPlaces(dim) /\ There(dim, lattice, p)
      /\ w \in Crews[dim] /\ InLane(dim, WorkerId[w], p[2]) /\ lattice[p[1]].state[p[2]] = "free"
  BY <1>1, <1>2, HolderAlone, Stages DEF Holding
<1>5. PICK n : n = lattice[p[1]].used
  OBVIOUS
<1>6. n \in Int
  BY <1>4, <1>5, Basics DEF There, NodesOf
<1>7. StepAt(dim, lattice, act, views, w, c, p, "writing", n, views)
  <2>1. act[w] \in [at : {"found", "writing", "count"}, slot : SlotPlaces(dim), view : BOOLEAN]
    BY <1>1 DEF CallsOf, Quiet
  <2>2. c \in CallsOf(dim) /\ c.at = "writing" /\ c.slot = p
    <3>1. c \in [at : {"found", "writing", "count"}, slot : SlotPlaces(dim), view : BOOLEAN]
      BY <1>2, <2>1
    <3> QED
      BY <1>2, <2>1, <3>1 DEF CallsOf
  <2>3. n = lattice[p[1]].used + Weight("writing") - Weight("free")
            - Is(c, "count") + Is(act[w], "count") + Is(c, "uncount") - Is(act[w], "uncount")
    BY <1>1, <1>5, <1>6, <2>2, Figures
  <2> QED
    BY <1>1, <1>4, <1>6, <2>2, <2>3 DEF StepAt, Shown
<1>8. Sane(dim, SlotSet(lattice, p, n, "writing"), [act EXCEPT ![w] = c], views)
  BY <1>7, StepKeeps
<1> QED
  BY <1>1, <1>3, <1>4, <1>5, <1>8, StateSet DEF Moves

LEMMA PublishKeeps ==
    ASSUME Sane(dim, lattice, act, views), NEW w \in LatticeWorkers, Publish(w)
    PROVE  Sane(dim', lattice', act', views')
<1>1. /\ act[w].at = "writing" /\ w \in Receivers /\ UNCHANGED <<dim, views>> /\ act[w] \in CallsOf(dim)
  BY Basics DEF Publish
<1>2. PICK p, c : p = act[w].slot /\ c = [act[w] EXCEPT !.at = "count"]
  OBVIOUS
<1>3. SetState(p, "ready") /\ Moves(w, c)
  BY <1>2 DEF Publish
<1>4. /\ OnlyUser(act, w, p) /\ p \notin views /\ p \in SlotPlaces(dim) /\ There(dim, lattice, p)
      /\ w \in Crews[dim] /\ InLane(dim, WorkerId[w], p[2]) /\ lattice[p[1]].state[p[2]] = "writing"
  BY <1>1, <1>2, HolderAlone, Stages DEF Holding
<1>5. PICK n : n = lattice[p[1]].used
  OBVIOUS
<1>6. n \in Int
  BY <1>4, <1>5, Basics DEF There, NodesOf
<1>7. StepAt(dim, lattice, act, views, w, c, p, "ready", n, views)
  <2>1. act[w] \in [at : {"found", "writing", "count"}, slot : SlotPlaces(dim), view : BOOLEAN]
    BY <1>1 DEF CallsOf, Quiet
  <2>2. c \in CallsOf(dim) /\ c.at = "count" /\ c.slot = p
    <3>1. c \in [at : {"found", "writing", "count"}, slot : SlotPlaces(dim), view : BOOLEAN]
      BY <1>2, <2>1
    <3> QED
      BY <1>2, <2>1, <3>1 DEF CallsOf
  <2>3. n = lattice[p[1]].used + Weight("ready") - Weight("writing")
            - Is(c, "count") + Is(act[w], "count") + Is(c, "uncount") - Is(act[w], "uncount")
    BY <1>1, <1>5, <1>6, <2>2, Figures
  <2> QED
    BY <1>1, <1>4, <1>6, <2>2, <2>3 DEF StepAt, Shown
<1>8. Sane(dim, SlotSet(lattice, p, n, "ready"), [act EXCEPT ![w] = c], views)
  BY <1>7, StepKeeps
<1> QED
  BY <1>1, <1>3, <1>4, <1>5, <1>8, StateSet DEF Moves

LEMMA AcquiredKeeps ==
    ASSUME Sane(dim, lattice, act, views), NEW w \in LatticeWorkers, NEW ok \in BOOLEAN, Acquired(w, ok)
    PROVE  Sane(dim', lattice', act', views')
<1>1. /\ act[w].at = "count" /\ w \in Receivers /\ dim' = dim /\ act[w] \in CallsOf(dim)
      /\ act' = [act EXCEPT ![w] = Quiet]
  <2>1. act[w].at = "count" /\ Moves(w, Quiet)
    BY DEF Acquired
  <2>2. dim' = dim
    BY DEF Acquired
  <2> QED
    BY <2>1, <2>2, Basics DEF Moves
<1>2. PICK p, n, x, m :
         /\ p = act[w].slot /\ n = lattice[p[1]].used + 1
         /\ x = IF act[w].view THEN "reading" ELSE "ready"
         /\ m = SlotSet(lattice, p, n, x)
  OBVIOUS
<1>3. /\ OnlyUser(act, w, p) /\ p \notin views /\ p \in SlotPlaces(dim) /\ There(dim, lattice, p)
      /\ lattice[p[1]].state[p[2]] = "ready" /\ act[w].view \in BOOLEAN
  <2>1. act[w].at \in Holding
    BY <1>1 DEF Holding
  <2>2. p = act[w].slot
    BY <1>2
  <2>3. w \in Receivers /\ act[w].at = "count"
    BY <1>1
  <2>4. /\ OnlyUser(act, w, p) /\ p \notin views /\ p \in SlotPlaces(dim) /\ There(dim, lattice, p)
        /\ lattice[p[1]].state[p[2]] = Shown[act[w].at]
    BY <2>1, <2>2, <2>3, HolderAlone
  <2>5. Shown["count"] = "ready"
    BY Stages
  <2>6. act[w].view \in BOOLEAN
    BY <1>1, Stages
  <2> QED
    BY <2>3, <2>4, <2>5, <2>6
<1>4. lattice[p[1]].used \in Int /\ n \in Int
  <2>1. p[1] \in 1 .. Len(lattice)
    BY <1>3 DEF There
  <2>2. lattice[p[1]] \in NodesOf(dim)
    BY <2>1, Basics
  <2>3. lattice[p[1]].used \in Int
    BY <2>2 DEF NodesOf
  <2>4. n = lattice[p[1]].used + 1
    BY <1>2
  <2> QED
    BY <2>3, <2>4
<1>5. views' = (IF act[w].view THEN views \union {p} ELSE views)
  BY <1>2 DEF Acquired
<1>6. StepAt(dim, lattice, act, views, w, Quiet, p, x, n, views')
  <2>1. Quiet \in CallsOf(dim) /\ Quiet.at = "idle"
    BY DEF CallsOf, Quiet
  <2>2. x \in {"ready", "reading"} /\ Weight(x) = 1
    BY <1>2, Figures
  <2>3. n = lattice[p[1]].used + Weight(x) - Weight("ready")
            - Is(Quiet, "count") + Is(act[w], "count") + Is(Quiet, "uncount") - Is(act[w], "uncount")
    BY <1>1, <1>2, <1>4, <2>1, <2>2, Figures
  <2>4. views' \subseteq views \union {p} /\ (p \in views' => x = "reading")
    BY <1>2, <1>3, <1>5
  <2>5. "idle" \notin Working /\ "idle" \notin Holding
    BY DEF Working, Holding
  <2> QED
    BY <1>1, <1>2, <1>3, <1>4, <2>1, <2>2, <2>3, <2>4, <2>5 DEF StepAt
<1>7. Sane(dim, m, act', views')
  BY <1>1, <1>2, <1>6, StepKeeps
<1>8. m = NewlyUsed(w)
  <2>1. PICK o : o = lattice[p[1]]
    OBVIOUS
  <2>2. o \in NodesOf(dim)
    BY <1>3, <2>1, Basics DEF There
  <2>3. o.state[p[2]] = "ready" /\ n = o.used + 1
    BY <1>2, <1>3, <2>1
  <2>4. x = IF act[w].view THEN "reading" ELSE o.state[p[2]]
    BY <1>2, <2>3
  <2>5. NewlyUsed(w) = [lattice EXCEPT ![p[1]] =
                          [o EXCEPT !.used = o.used + 1,
                                    !.state[p[2]] = IF act[w].view THEN "reading" ELSE o.state[p[2]]]]
    BY <1>2, <2>1 DEF NewlyUsed
  <2>6. m = [lattice EXCEPT ![p[1]] = [o EXCEPT !.used = n, !.state[p[2]] = x]]
    BY <1>2, <2>1 DEF SlotSet
  <2> QED
    BY <2>3, <2>4, <2>5, <2>6
<1>9. lattice' = m \/ lattice' = EnsureNext(m, p[1], ok)
  BY <1>2, <1>8 DEF Acquired
<1>10. p[1] \in 1 .. Len(m)
  <2>1. p[1] \in 1 .. Len(lattice) /\ lattice \in Seq(NodesOf(dim)) /\ m \in Seq(NodesOf(dim))
    BY <1>3, <1>7, Basics DEF There, Sane, LatticeTypes
  <2>2. DOMAIN m = DOMAIN lattice
    BY <1>2 DEF SlotSet
  <2> QED
    BY <2>1, <2>2
<1>11. Sane(dim, EnsureNext(m, p[1], ok), act', views')
  <2>1. PICK b, u : b = act' /\ u = views'
    OBVIOUS
  <2> QED
    BY <1>7, <1>10, <2>1, EnsureKeeps
<1> QED
  BY <1>1, <1>7, <1>9, <1>11

LEMMA ExtendKeeps ==
    ASSUME Sane(dim, lattice, act, views), NEW w, NEW view \in BOOLEAN, Extend(w, view)
    PROVE  Sane(dim', lattice', act', views')
<1>1. lattice' = EnsureNext(lattice, Len(lattice), TRUE) /\ UNCHANGED <<dim, act, views>>
  BY DEF Extend
<1>2. Len(lattice) \in 1 .. Len(lattice)
  BY Basics DEF Extend, Eligible, RealNodes
<1> QED
  BY <1>1, <1>2, EnsureKeeps

LEMMA ReadSlotKeeps ==
    ASSUME Sane(dim, lattice, act, views), NEW w \in LatticeWorkers, ReadSlot(w)
    PROVE  Sane(dim', lattice', act', views')
<1>1. /\ act[w] = Quiet /\ w \in Crews[dim] /\ w \in Receivers /\ UNCHANGED <<dim, views>>
  BY Basics DEF ReadSlot
<1>2. PICK p \in Swept(w, RealNodes \ merging, "ready") :
         SetState(p, "reading") /\ Moves(w, [at |-> "reading", slot |-> p])
  BY DEF ReadSlot
<1>3. PICK c : c = [at |-> "reading", slot |-> p]
  OBVIOUS
<1>4. /\ p \in SlotPlaces(dim) /\ There(dim, lattice, p) /\ InLane(dim, WorkerId[w], p[2])
      /\ lattice[p[1]].state[p[2]] = "ready" /\ OnlyUser(act, w, p) /\ lattice[p[1]].used \in Int
  <2>1. RealNodes \ merging \subseteq RealNodes
    OBVIOUS
  <2> QED
    BY <1>1, <2>1, SweptSlot
<1>5. p \notin views
  BY <1>4, Basics DEF ViewsInv
<1>6. PICK n : n = lattice[p[1]].used
  OBVIOUS
<1>7. StepAt(dim, lattice, act, views, w, c, p, "reading", n, views)
  <2>1. c \in CallsOf(dim) /\ c.at = "reading" /\ c.slot = p
    BY <1>3, <1>4 DEF CallsOf
  <2>2. n = lattice[p[1]].used + Weight("reading") - Weight("ready")
            - Is(c, "count") + Is(act[w], "count") + Is(c, "uncount") - Is(act[w], "uncount")
    BY <1>1, <1>4, <1>6, <2>1, Figures DEF Quiet
  <2> QED
    BY <1>1, <1>4, <1>5, <1>6, <2>1, <2>2 DEF StepAt, Quiet, Shown
<1>8. Sane(dim, SlotSet(lattice, p, n, "reading"), [act EXCEPT ![w] = c], views)
  BY <1>7, StepKeeps
<1> QED
  BY <1>1, <1>2, <1>3, <1>4, <1>6, <1>8, StateSet DEF Moves

LEMMA ReadDoneKeeps ==
    ASSUME Sane(dim, lattice, act, views), NEW w \in LatticeWorkers, ReadDone(w)
    PROVE  Sane(dim', lattice', act', views')
<1>1. /\ act[w].at = "reading" /\ w \in Receivers /\ UNCHANGED <<dim, views>> /\ act[w] \in CallsOf(dim)
  BY Basics DEF ReadDone
<1>2. PICK p, c : p = act[w].slot /\ c = [act[w] EXCEPT !.at = "uncount"]
  OBVIOUS
<1>3. SetState(p, "free") /\ Moves(w, c)
  BY <1>2 DEF ReadDone
<1>4. /\ OnlyUser(act, w, p) /\ p \notin views /\ p \in SlotPlaces(dim) /\ There(dim, lattice, p)
      /\ lattice[p[1]].state[p[2]] = "reading"
  BY <1>1, <1>2, HolderAlone, Stages DEF Holding
<1>5. PICK n : n = lattice[p[1]].used
  OBVIOUS
<1>6. n \in Int
  BY <1>4, <1>5, Basics DEF There, NodesOf
<1>7. StepAt(dim, lattice, act, views, w, c, p, "free", n, views)
  <2>1. act[w] \in [at : {"reading", "uncount"}, slot : SlotPlaces(dim)]
    BY <1>1 DEF CallsOf, Quiet
  <2>2. c \in CallsOf(dim) /\ c.at = "uncount" /\ c.slot = p
    <3>1. c \in [at : {"reading", "uncount"}, slot : SlotPlaces(dim)]
      BY <1>2, <2>1
    <3> QED
      BY <1>2, <2>1, <3>1 DEF CallsOf
  <2>3. n = lattice[p[1]].used + Weight("free") - Weight("reading")
            - Is(c, "count") + Is(act[w], "count") + Is(c, "uncount") - Is(act[w], "uncount")
    BY <1>1, <1>5, <1>6, <2>2, Figures
  <2>4. "uncount" \notin Holding
    BY DEF Holding
  <2> QED
    BY <1>1, <1>4, <1>6, <2>2, <2>3, <2>4 DEF StepAt
<1>8. Sane(dim, SlotSet(lattice, p, n, "free"), [act EXCEPT ![w] = c], views)
  BY <1>7, StepKeeps
<1> QED
  BY <1>1, <1>3, <1>4, <1>5, <1>8, StateSet DEF Moves

LEMMA ViewReleaseKeeps ==
    ASSUME Sane(dim, lattice, act, views), NEW t \in Receivers, ViewRelease(t)
    PROVE  Sane(dim', lattice', act', views')
<1>1. act[t] = Quiet /\ dim' = dim
  BY DEF ViewRelease
<1>2. PICK p \in views : /\ views' = views \ {p} /\ SetState(p, "free")
                         /\ Moves(t, [at |-> "uncount", slot |-> p])
  BY DEF ViewRelease
<1>3. PICK c, n : c = [at |-> "uncount", slot |-> p] /\ n = lattice[p[1]].used
  OBVIOUS
<1>4. /\ p \in SlotPlaces(dim) /\ There(dim, lattice, p) /\ lattice[p[1]].state[p[2]] = "reading"
      /\ OnlyUser(act, t, p)
  BY Basics DEF ViewsInv, OnlyUser
<1>5. n \in Int
  BY <1>3, <1>4, Basics DEF There, NodesOf
<1>6. StepAt(dim, lattice, act, views, t, c, p, "free", n, views')
  <2>1. c \in CallsOf(dim) /\ c.at = "uncount" /\ c.slot = p
    BY <1>3, <1>4 DEF CallsOf
  <2>2. n = lattice[p[1]].used + Weight("free") - Weight("reading")
            - Is(c, "count") + Is(act[t], "count") + Is(c, "uncount") - Is(act[t], "uncount")
    BY <1>1, <1>3, <1>5, <2>1, Figures DEF Quiet
  <2>3. "uncount" \notin Holding /\ p \notin views' /\ views' \subseteq views \union {p}
    BY <1>2 DEF Holding
  <2> QED
    BY <1>1, <1>4, <1>5, <2>1, <2>2, <2>3 DEF StepAt, Quiet
<1>7. Sane(dim, SlotSet(lattice, p, n, "free"), [act EXCEPT ![t] = c], views')
  BY <1>6, StepKeeps
<1> QED
  BY <1>1, <1>2, <1>3, <1>4, <1>7, StateSet DEF Moves

LEMMA SlotReleasedKeeps ==
    ASSUME Sane(dim, lattice, act, views), NEW t \in Receivers, NEW try \in BOOLEAN, SlotReleased(t, try)
    PROVE  Sane(dim', lattice', act', views')
<1>1. act[t].at = "uncount" /\ act[t] \in CallsOf(dim) /\ UNCHANGED <<dim, views>>
  BY Basics DEF SlotReleased
<1>2. PICK p, c, x, n :
         /\ p = act[t].slot /\ c = (IF try THEN [at |-> "compact"] ELSE Quiet)
         /\ x = lattice[p[1]].state[p[2]] /\ n = lattice[p[1]].used - 1
  OBVIOUS
<1>3. p \in SlotPlaces(dim) /\ There(dim, lattice, p) /\ lattice[p[1]] \in NodesOf(dim)
  BY <1>1, <1>2, Basics, Stages DEF HoldersInv, Working, There
<1>4. /\ lattice[p[1]].used \in Int /\ n \in Int
      /\ x \in {"free", "writing", "ready", "reading"}
  BY <1>2, <1>3 DEF NodesOf, SlotPlaces
<1>5. StepAt(dim, lattice, act, views, t, c, p, x, n, views)
  <2>1. c \in CallsOf(dim) /\ c.at \in {"idle", "compact"}
    BY <1>2 DEF CallsOf, Quiet
  <2>2. n = lattice[p[1]].used + Weight(x) - Weight(x)
            - Is(c, "count") + Is(act[t], "count") + Is(c, "uncount") - Is(act[t], "uncount")
    <3>1. Weight(x) \in Int
      BY DEF Weight, Ones
    <3> QED
      <4>1. Is(c, "count") = 0 /\ Is(c, "uncount") = 0 /\ Is(act[t], "count") = 0 /\ Is(act[t], "uncount") = 1
        BY <1>1, <2>1, Figures
      <4> QED
        <5>1. n = lattice[p[1]].used - 1 /\ lattice[p[1]].used \in Int
          BY <1>2, <1>4
        <5>2. PICK f, u : f = Weight(x) /\ u = lattice[p[1]].used
          OBVIOUS
        <5> QED
          BY <3>1, <4>1, <5>1, <5>2
  <2>3. c.at \notin Working /\ c.at \notin Holding
    BY <2>1 DEF Working, Holding
  <2>4. p \in views => x = "reading" /\ OnlyUser(act, t, p)
    BY <1>2, Basics DEF ViewsInv, OnlyUser
  <2> QED
    BY <1>1, <1>2, <1>3, <1>4, <2>1, <2>2, <2>3, <2>4 DEF StepAt
<1>6. Sane(dim, SlotSet(lattice, p, n, x), [act EXCEPT ![t] = c], views)
  BY <1>5, StepKeeps
<1>7. lattice' = SlotSet(lattice, p, n, x)
  <2>1. PICK k, s : k = p[1] /\ s = p[2]
    OBVIOUS
  <2>2. [lattice[k] EXCEPT !.used = n] = [lattice[k] EXCEPT !.used = n, !.state[s] = x]
    BY <1>2, <1>3, <2>1 DEF NodesOf
  <2>3. lattice' = [lattice EXCEPT ![k] = [lattice[k] EXCEPT !.used = n]]
    BY <1>2, <2>1 DEF SlotReleased
  <2> QED
    BY <2>1, <2>2, <2>3 DEF SlotSet
<1>8. act' = [act EXCEPT ![t] = c]
  BY <1>2 DEF SlotReleased, Moves
<1> QED
  BY <1>1, <1>6, <1>7, <1>8

LEMMA CompactKeeps ==
    ASSUME Sane(dim, lattice, act, views), NEW t \in Receivers, Merge(t) \/ GiveUp(t)
    PROVE  Sane(dim', lattice', act', views')
<1>1. act[t].at = "compact" /\ UNCHANGED <<dim, lattice, views>>
  BY DEF Merge, GiveUp
<1>2. PICK c \in CallsOf(dim) : c.at \in {"idle", "stub"} /\ act' = [act EXCEPT ![t] = c]
  <2>1. CASE GiveUp(t)
    <3>1. Quiet \in CallsOf(dim) /\ Quiet.at = "idle"
      BY DEF CallsOf, Quiet
    <3> QED
      BY <2>1, <3>1 DEF GiveUp, Moves
  <2>2. CASE Merge(t)
    <3>1. PICK pair \in EmptyPairs : Moves(t, [at |-> "stub", node |-> pair[2]])
      BY <2>2 DEF Merge
    <3>2. pair[2] \in Nat
      BY Basics DEF EmptyPairs, RealNodes
    <3>3. PICK c : c = [at |-> "stub", node |-> pair[2]]
      OBVIOUS
    <3>4. c \in CallsOf(dim) /\ c.at = "stub"
      BY <3>2, <3>3 DEF CallsOf
    <3> QED
      BY <3>1, <3>3, <3>4 DEF Moves
  <2> QED
    BY <2>1, <2>2
<1>3. act[t].at \notin Working /\ c.at \notin Working
  BY <1>1, <1>2 DEF Working, Holding
<1>4. Sane(dim, lattice, [act EXCEPT ![t] = c], views)
  BY <1>2, <1>3, IdleKeeps
<1> QED
  BY <1>1, <1>2, <1>4

\* A compaction that strikes nothing replaces nodes that nobody uses.
LEMMA StubKeeps ==
    ASSUME Sane(dim, lattice, act, views), NEW t \in Receivers, Stub(t)
    PROVE  struck' \/ Sane(dim', lattice', act', views')
<1> SUFFICES ASSUME ~struck' PROVE Sane(dim', lattice', act', views')
  OBVIOUS
<1>1. /\ act[t].at = "stub" /\ act' = [act EXCEPT ![t] = Quiet] /\ UNCHANGED <<dim, views>>
      /\ \A k \in merging : IdleNode(k) /\ lattice[k].used = 0
      /\ \A w \in LatticeWorkers : act[w].at = "found" => act[w].slot[1] \notin merging
  <2>1. act[t].at = "stub" /\ Moves(t, Quiet) /\ UNCHANGED <<dim, views>>
    BY DEF Stub
  <2>2. ~Overtaken
    BY DEF Stub
  <2> QED
    BY <2>1, <2>2 DEF Overtaken, Moves
<1>2. PICK R : R = merging \intersect 1 .. Len(lattice)
  OBVIOUS
<1>3. \A k \in R : lattice[k].used = 0 /\ \A s \in Grid(dim) : lattice[k].state[s] = "free"
  BY <1>1, <1>2, Basics DEF IdleNode
<1>4. Untouched(act, views, R)
  <2>1. ASSUME NEW u \in Receivers, act[u].at \in Holding, act[u].slot[1] \in R PROVE FALSE
    <3>1. /\ act[u].slot[2] \in Grid(dim) /\ u \in LatticeWorkers
          /\ lattice[act[u].slot[1]].state[act[u].slot[2]] = Shown[act[u].at]
      BY <2>1, HolderAlone, Basics, Stages DEF SlotPlaces
    <3>2. Shown[act[u].at] = "free"
      BY <1>3, <2>1, <3>1
    <3>3. act[u].at = "found"
      BY <2>1, <3>2, Stages DEF Holding
    <3> QED
      BY <1>1, <1>2, <2>1, <3>1, <3>3
  <2>2. ASSUME NEW u \in Receivers, act[u].at = "uncount", act[u].slot[1] \in R PROVE FALSE
    <3>1. PICK k \in R : k = act[u].slot[1]
      BY <2>2
    <3>2. lattice[k].real /\ k \in 1 .. Len(lattice)
      BY <2>2, <3>1, Basics DEF HoldersInv, There, Working
    <3>3. Balanced(dim, lattice, act, k)
      BY <3>2, Basics DEF CountsInv
    <3>4. Busy(dim, lattice, k) = {}
      BY <1>3 DEF Busy
    <3>5. Doing(act, "count", k) = {}
      BY <2>1, <3>1 DEF Doing, Holding
    <3>6. lattice[k].used = 0
      BY <1>3
    <3>7. PICK C : C = Doing(act, "uncount", k)
      OBVIOUS
    <3>8. IsFiniteSet(C) /\ u \in C
      BY <2>2, <3>1, <3>7, Basics, GridFinite, FS_Subset DEF Doing
    <3>9. Cardinality(C) \in Nat /\ Cardinality(C) # 0
      BY <3>8, FS_EmptySet, FS_CardinalityType
    <3>10. Cardinality({}) = 0
      BY FS_EmptySet
    <3>11. 0 = 0 - 0 + Cardinality(C)
      BY <3>3, <3>4, <3>5, <3>6, <3>7, <3>10 DEF Balanced
    <3> QED
      BY <3>9, <3>11
  <2>3. ASSUME NEW p \in views, p[1] \in R PROVE FALSE
    <3>1. lattice[p[1]].state[p[2]] = "reading" /\ p[2] \in Grid(dim)
      BY Basics DEF ViewsInv, SlotPlaces
    <3> QED
      BY <1>3, <2>3, <3>1
  <2> QED
    BY <2>1, <2>2, <2>3 DEF Untouched, Working
<1>5. PICK m : m = lattice'
  OBVIOUS
<1>6. PICK stub : stub = act[t].node
  OBVIOUS
<1>7. m = [k \in 1 .. Len(lattice) |-> IF k \in merging THEN Compacted(k, stub) ELSE lattice[k]]
  BY <1>5, <1>6, Basics DEF Stub
<1>8. \A k \in 1 .. Len(lattice) : m[k] = IF k \in R THEN Compacted(k, stub) ELSE lattice[k]
  BY <1>2, <1>7
<1>9. ASSUME NEW k \in R
      PROVE  /\ Compacted(k, stub) \in NodesOf(dim) /\ Compacted(k, stub).used = 0
             /\ \A s \in Grid(dim) : Compacted(k, stub).state[s] = "free"
  <2>1. PICK r \in BOOLEAN : r = (k # stub)
    OBVIOUS
  <2>2. PICK u : u = IF k = stub THEN 0 ELSE lattice[k].used
    OBVIOUS
  <2>3. u = 0
    BY <1>3, <2>2
  <2>4. Compacted(k, stub) = [FreshNode EXCEPT !.real = r, !.used = u]
    BY <2>1, <2>2 DEF Compacted
  <2>5. PICK f : f = FreshNode
    OBVIOUS
  <2>6. f \in NodesOf(dim) /\ \A s \in Grid(dim) : f.state[s] = "free"
    BY <2>5, Fresh, Basics
  <2>7. PICK g : g = [f EXCEPT !.real = r, !.used = u]
    OBVIOUS
  <2>8. g \in NodesOf(dim) /\ g.used = 0 /\ g.state = f.state
    <3>1. f \in [real : BOOLEAN, used : Int, state : [Grid(dim) -> {"free", "writing", "ready", "reading"}]]
      BY <2>6 DEF NodesOf
    <3>2. g = [real |-> r, used |-> u, state |-> f.state]
      BY <2>7, <3>1
    <3>3. f.state \in [Grid(dim) -> {"free", "writing", "ready", "reading"}]
      BY <3>1
    <3> QED
      BY <2>3, <3>2, <3>3 DEF NodesOf
  <2>9. Compacted(k, stub) = g
    BY <2>4, <2>5, <2>7
  <2> QED
    BY <2>6, <2>8, <2>9
<1>10. /\ m \in Seq(NodesOf(dim)) /\ Len(lattice) <= Len(m)
       /\ \A k \in 1 .. Len(m) : k \notin R => k \in 1 .. Len(lattice) /\ m[k] = lattice[k]
       /\ \A k \in 1 .. Len(m) : k \in R => m[k].used = 0 /\ \A s \in Grid(dim) : m[k].state[s] = "free"
  <2>0. Len(lattice) \in Nat
    BY Basics
  <2>1. PICK n \in Nat : n = Len(lattice)
    BY <2>0
  <2>2. \A k \in 1 .. n : m[k] \in NodesOf(dim)
    BY <1>8, <1>9, <2>1, Basics
  <2>3. m = [k \in 1 .. n |-> m[k]]
    BY <1>7, <2>1
  <2>4. m \in Seq(NodesOf(dim)) /\ Len(m) = n
    BY <2>1, <2>2, <2>3
  <2> QED
    BY <1>8, <1>9, <2>1, <2>4
<1>11. Sane(dim, m, act, views)
  BY <1>4, <1>10, ReplaceKeeps
<1>12. /\ act[t].at \notin Working /\ Quiet \in CallsOf(dim) /\ Quiet.at \notin Working
  BY <1>1 DEF Working, Holding, Quiet, CallsOf
<1>13. Sane(dim, m, [act EXCEPT ![t] = Quiet], views)
  BY <1>11, <1>12, IdleKeeps
<1> QED
  BY <1>1, <1>5, <1>13

\* The invariant holds of a new lattice,
LEMMA LatticeInvInit == LatticeInit => LatticeInv
<1> SUFFICES ASSUME LatticeInit PROVE Sane(dim, lattice, act, views)
  BY DEF LatticeInv
<1>1. /\ dim \in DOMAIN Crews /\ lattice = <<FreshNode>> /\ act = [t \in Receivers |-> Quiet] /\ views = {}
  BY DEF LatticeInit
<1>2. /\ lattice \in Seq(NodesOf(dim)) /\ Len(lattice) = 1 /\ lattice[1] = FreshNode
      /\ FreshNode.used = 0 /\ \A s \in Grid(dim) : FreshNode.state[s] = "free"
  BY <1>1, Fresh
<1>3. act \in [Receivers -> CallsOf(dim)] /\ \A t \in Receivers : act[t].at \notin Working
  BY <1>1 DEF CallsOf, Quiet, Working, Holding
<1>4. LatticeTypes(dim, lattice, act, views)
  BY <1>1, <1>2, <1>3 DEF LatticeTypes
<1>5. HoldersInv(dim, lattice, act, views) /\ ViewsInv(dim, lattice, act, views)
  BY <1>1, <1>3 DEF HoldersInv, ViewsInv, Working
<1>6. CountsInv(dim, lattice, act)
  <2> SUFFICES ASSUME NEW i \in 1 .. Len(lattice) PROVE Balanced(dim, lattice, act, i)
    BY DEF CountsInv
  <2>1. i = 1
    BY <1>2
  <2>2. Busy(dim, lattice, i) = {} /\ lattice[i].used = 0
    BY <1>2, <2>1 DEF Busy
  <2>3. Doing(act, "count", i) = {} /\ Doing(act, "uncount", i) = {}
    BY <1>3 DEF Doing, Working, Holding
  <2>4. Cardinality({}) = 0
    BY FS_EmptySet
  <2>5. /\ Cardinality(Busy(dim, lattice, i)) = 0 /\ Cardinality(Doing(act, "count", i)) = 0
        /\ Cardinality(Doing(act, "uncount", i)) = 0
    BY <2>2, <2>3, <2>4
  <2> QED
    BY <2>2, <2>5 DEF Balanced
<1> QED
  BY <1>4, <1>5, <1>6 DEF Sane

\* and every step keeps it.
LEMMA LatticeInvNext == LatticeInv /\ [LatticeNext]_latticeVars => LatticeInv'
<1> SUFFICES ASSUME LatticeInv, [LatticeNext]_latticeVars PROVE LatticeInv'
  OBVIOUS
<1>1. CASE UNCHANGED latticeVars
  BY <1>1 DEF latticeVars, LatticeInv
<1>2. CASE LatticeNext
  <2>1. Sane(dim, lattice, act, views)
    BY <1>2 DEF LatticeNext, LatticeInv
  <2>2. Sane(dim', lattice', act', views') => LatticeInv'
    BY DEF LatticeInv
  <2>3. ASSUME NEW w \in LatticeWorkers, NEW view \in BOOLEAN, Find(w, view) PROVE LatticeInv'
    BY <2>1, <2>2, <2>3, FindKeeps
  <2>4. ASSUME NEW w \in LatticeWorkers, NEW view \in BOOLEAN, Extend(w, view) PROVE LatticeInv'
    BY <2>1, <2>2, <2>4, ExtendKeeps
  <2>5. ASSUME NEW w \in LatticeWorkers, Claim(w) PROVE LatticeInv'
    BY <2>1, <2>2, <2>5, ClaimKeeps
  <2>6. ASSUME NEW w \in LatticeWorkers, Publish(w) PROVE LatticeInv'
    BY <2>1, <2>2, <2>6, PublishKeeps
  <2>7. ASSUME NEW w \in LatticeWorkers, ReadSlot(w) PROVE LatticeInv'
    BY <2>1, <2>2, <2>7, ReadSlotKeeps
  <2>8. ASSUME NEW w \in LatticeWorkers, ReadDone(w) PROVE LatticeInv'
    BY <2>1, <2>2, <2>8, ReadDoneKeeps
  <2>9. ASSUME NEW w \in LatticeWorkers, NEW ok \in BOOLEAN, Acquired(w, ok) PROVE LatticeInv'
    BY <2>1, <2>2, <2>9, AcquiredKeeps
  <2>10. ASSUME NEW t \in Receivers, ViewRelease(t) PROVE LatticeInv'
    BY <2>1, <2>2, <2>10, ViewReleaseKeeps
  <2>11. ASSUME NEW t \in Receivers, Merge(t) \/ GiveUp(t) PROVE LatticeInv'
    BY <2>1, <2>2, <2>11, CompactKeeps
  <2>12. ASSUME NEW t \in Receivers, Stub(t) PROVE LatticeInv'
    BY <2>1, <2>12, StubKeeps DEF LatticeInv
  <2>13. ASSUME NEW t \in Receivers, NEW try \in BOOLEAN, SlotReleased(t, try) PROVE LatticeInv'
    BY <2>1, <2>2, <2>13, SlotReleasedKeeps
  <2> QED
    BY <1>2, <2>3, <2>4, <2>5, <2>6, <2>7, <2>8, <2>9, <2>10, <2>11, <2>12, <2>13 DEF LatticeNext
<1> QED
  BY <1>1, <1>2

LEMMA LatticeAnswer == LatticeInv => LatticeSlots
<1> SUFFICES ASSUME Sane(dim, lattice, act, views) PROVE LatticeSlots
  BY DEF LatticeInv, LatticeSlots
<1>1. ASSUME NEW t \in Held, NEW u \in Held, t # u PROVE act[t].slot # act[u].slot
  <2>1. t \in Receivers /\ u \in Receivers /\ act[t].at \in Holding /\ act[u].at \in Holding
    BY DEF Held
  <2> QED
    BY <1>1, <2>1, HolderAlone DEF OnlyUser
<1>2. ASSUME NEW p \in views
      PROVE  /\ lattice[p[1]].real /\ lattice[p[1]].state[p[2]] = "reading"
             /\ \A t \in Held : act[t].slot # p
  BY Basics DEF ViewsInv, There, Held
<1>3. ASSUME NEW k \in RealNodes
      PROVE  lattice[k].used = Cardinality({s \in Slots : lattice[k].state[s] \in {"ready", "reading"}})
                               - AtNode("count", k) + AtNode("uncount", k)
  <2>1. Balanced(dim, lattice, act, k)
    BY Basics DEF CountsInv, RealNodes
  <2>2. Busy(dim, lattice, k) = {s \in Slots : lattice[k].state[s] \in {"ready", "reading"}}
    BY Basics DEF Busy
  <2>3. /\ Cardinality(Doing(act, "count", k)) = AtNode("count", k)
        /\ Cardinality(Doing(act, "uncount", k)) = AtNode("uncount", k)
    BY DEF Doing, AtNode
  <2> QED
    BY <2>1, <2>2, <2>3 DEF Balanced
<1> QED
  BY <1>1, <1>2, <1>3 DEF LatticeSlots

\* A slot has one user at a time, worker or view, and used_slots counts the slots in
\* use, while workers find, claim, publish and free slots, views come and go, nodes are
\* added and pairs of nodes compacted (lattice.c, view.c), until a compaction overtakes a
\* sweep that has found a slot.
THEOREM LatticeShared == LatticeSpec => []LatticeSlots
<1>1. LatticeSpec => []LatticeInv
  BY LatticeInvInit, LatticeInvNext, PTL DEF LatticeSpec
<1> QED
  BY <1>1, LatticeAnswer, PTL
====
