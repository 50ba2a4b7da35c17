------------------------------ MODULE Endpoint ------------------------------
(***************************************************************************)
(* A shared network endpoint (src/src/net/endpoint.c) and its guard         *)
(* (src/src/io/io.c).  ttak_net_endpoint_access goes through access() of    *)
(* the shared container, which takes at most a read lock, and that only     *)
(* after set_atomic_read, which endpoint_create does not call: the calls    *)
(* of several threads overlap, and each is taken apart here where another   *)
(* call can come in between.  A snapshot is used without the endpoint and   *)
(* committed later.  The kernel gives out the lowest descriptor numbers     *)
(* again after a close.                                                     *)
(***************************************************************************)
EXTENDS Integers, FiniteSets

CONSTANTS Callers,         \* threads that share the endpoint
          Binders,         \* those that may bind a descriptor to it
          Descriptors,     \* descriptor numbers
          MaxGeneration,   \* bound on generation_id
          MaxGuards        \* bound on the guards armed

ASSUME EndpointAssumption == /\ Binders \subseteq Callers
                             /\ Descriptors \subseteq Nat /\ 0 \in Descriptors
                             /\ MaxGeneration \in Nat /\ MaxGuards \in Nat

NoFd == -1

VARIABLES guard,        \* payload->guard
          generation,   \* payload->generation_id
          reachable,    \* payload's domain and addr.len are set
          holder,       \* descriptor -> who has it open
          call,         \* caller -> its call: operation, place and locals
          snapshot,     \* caller -> what it copied; torn if a change overlapped that or the commit
          lapsed,       \* descriptors that lost their guard to a bind over it
          clash         \* two calls that change the endpoint have overlapped

endpointVars == <<guard, generation, reachable, holder, call, snapshot, lapsed, clash>>

\* ttl is the guard's ttl_ns # 0; session numbers the guards that were armed.
Disarmed == [fd |-> NoFd, ttl |-> FALSE, closed |-> TRUE, expired |-> FALSE, session |-> 0]
NoSnapshot == [fd |-> NoFd, generation |-> 0, session |-> 0, torn |-> FALSE]
\* closing is the descriptor about to be closed (or that was copied), opened
\* the one that is to come under guard, count the generation that was read.
NoCall == [op |-> "none", at |-> "idle", closing |-> NoFd, opened |-> NoFd,
           ttl |-> FALSE, addr |-> FALSE, count |-> 0]

EndpointInit ==
    /\ guard = Disarmed /\ generation = 0 /\ reachable = FALSE
    /\ holder = [d \in Descriptors |-> "free"]
    /\ call = [t \in Callers |-> NoCall]
    /\ snapshot = [t \in Callers |-> NoSnapshot]
    /\ lapsed = {} /\ clash = FALSE

-----------------------------------------------------------------------------
(* The program opens a socket by itself; the kernel picks the lowest number. *)

Lowest(h) == {d \in Descriptors : h[d] = "free" /\ \A e \in Descriptors : e < d => h[e] # "free"}

OpenByCaller == \E d \in Lowest(holder) :
    /\ holder' = [holder EXCEPT ![d] = "caller"]
    /\ UNCHANGED <<guard, generation, reachable, call, snapshot, lapsed, clash>>

CloseByCaller == \E d \in Descriptors :
    /\ holder[d] = "caller"
    /\ holder' = [holder EXCEPT ![d] = "free"]
    /\ UNCHANGED <<guard, generation, reachable, call, snapshot, lapsed, clash>>

-----------------------------------------------------------------------------
(* Calls begin, go on and end; what overlaps what is written down.          *)

Changing == {t \in Callers : call[t].op \in {"bind", "close", "restart"}}
Copying == {t \in Callers : call[t].op \in {"snapshot", "commit"}}

\* Bounds on the changes.
Room(op) ==
    /\ generation < MaxGeneration
    /\ op # "close" => guard.session < MaxGuards

BeginChange(t, c) ==
    /\ Room(c.op) /\ call[t] = NoCall
    /\ call' = [call EXCEPT ![t] = c]
    /\ clash' = (clash \/ Changing # {})
    /\ snapshot' = [u \in Callers |-> [snapshot[u] EXCEPT !.torn = @ \/ u \in Copying]]

BeginCopy(t, c, s) ==
    /\ call[t] = NoCall
    /\ call' = [call EXCEPT ![t] = c]
    /\ snapshot' = [snapshot EXCEPT ![t] = [s EXCEPT !.torn = @ \/ Changing # {}]]
    /\ UNCHANGED clash

IsAt(t, from) == call[t].at = from
Goes(t, c) == call' = [call EXCEPT ![t] = c] /\ UNCHANGED clash
GoOn(t, from, to) == IsAt(t, from) /\ Goes(t, [call[t] EXCEPT !.at = to])
Return(t) == Goes(t, NoCall)

Released(h, d) == IF d = NoFd THEN h ELSE [h EXCEPT ![d] = "free"]

-----------------------------------------------------------------------------
(* bind_fd, close and force_restart, down to the change of generation.      *)

\* From here on d is the endpoint's, unless the guard is going to refuse it.
BindFd(t, d, ttl, addr) ==
    /\ t \in Binders /\ holder[d] = "caller"
    /\ BeginChange(t, [NoCall EXCEPT !.op = "bind", !.at = "read", !.opened = d,
                                     !.ttl = ttl, !.addr = addr])
    /\ holder' = IF ttl THEN [holder EXCEPT ![d] = "endpoint"] ELSE holder
    /\ UNCHANGED <<guard, generation, reachable, lapsed>>

EndpointClose(t) ==
    /\ BeginChange(t, [NoCall EXCEPT !.op = "close", !.at = "shut", !.closing = guard.fd])
    /\ UNCHANGED <<guard, generation, reachable, holder, lapsed>>

\* force_restart: a new socket is opened and connected (or bound and put to
\* listen); only then is the old one closed.  A step that fails closes the new
\* socket and keeps the old.
Restart(t) ==
    /\ reachable
    /\ \E d \in Lowest(holder) :
          /\ BeginChange(t, [NoCall EXCEPT !.op = "restart", !.at = "connect", !.opened = d])
          /\ holder' = [holder EXCEPT ![d] = "endpoint"]
    /\ UNCHANGED <<guard, generation, reachable, lapsed>>

Connected(t) ==
    /\ IsAt(t, "connect")
    /\ Goes(t, [call[t] EXCEPT !.at = "shut", !.closing = guard.fd])
    /\ UNCHANGED <<guard, generation, reachable, holder, snapshot, lapsed>>

ConnectFails(t) ==
    /\ IsAt(t, "connect") /\ Return(t)
    /\ holder' = Released(holder, call[t].opened)
    /\ UNCHANGED <<guard, generation, reachable, snapshot, lapsed>>

\* ttak_io_guard_close: the descriptor it has read, then the fields.
Shut(t) ==
    /\ GoOn(t, "shut", "clear")
    /\ holder' = Released(holder, call[t].closing)
    /\ UNCHANGED <<guard, generation, reachable, snapshot, lapsed>>

ClearGuard(t) ==
    /\ GoOn(t, "clear", "read")
    /\ guard' = [guard EXCEPT !.fd = NoFd, !.closed = TRUE, !.expired = TRUE]
    /\ UNCHANGED <<generation, reachable, holder, snapshot, lapsed>>

\* generation_id++ reads ...
ReadGeneration(t) ==
    /\ IsAt(t, "read")
    /\ Goes(t, [call[t] EXCEPT !.at = "write", !.count = generation])
    /\ UNCHANGED <<guard, generation, reachable, holder, snapshot, lapsed>>

\* ... and writes; a close then forgets the address, a bind sets its own.
RenewedMutant(n) == n            \* mutant: the generation stays
Renewed(n) == n + 1

WriteGeneration(t) ==
    /\ IsAt(t, "write")
    /\ generation' = Renewed(call[t].count)
    /\ IF call[t].op = "close" THEN Return(t) ELSE GoOn(t, "write", "init")
    /\ reachable' = IF call[t].op = "restart" THEN reachable ELSE call[t].addr
    /\ UNCHANGED <<guard, holder, snapshot, lapsed>>

-----------------------------------------------------------------------------
(* ttak_io_guard_init: a restart passes the guard's own ttl.                *)

Ttl(t) == IF call[t].op = "restart" THEN guard.ttl ELSE call[t].ttl

\* A zero ttl is refused and the guard left alone; a restart then closes the
\* socket it opened, a bind leaves it to the caller.
InitRefused(t) ==
    /\ IsAt(t, "init") /\ ~Ttl(t) /\ Return(t)
    /\ holder' = IF call[t].op = "restart" THEN Released(holder, call[t].opened) ELSE holder
    /\ UNCHANGED <<guard, generation, reachable, snapshot, lapsed>>

\* memset: for a moment the guard is open, without expiry and of descriptor 0.
Wipe(t) ==
    /\ Ttl(t) /\ GoOn(t, "init", "arm")
    /\ guard' = [Disarmed EXCEPT !.fd = 0, !.closed = FALSE, !.session = guard.session]
    /\ lapsed' = IF guard.fd = NoFd THEN lapsed ELSE lapsed \union {guard.fd}
    /\ UNCHANGED <<generation, reachable, holder, snapshot>>

Arm(t) ==
    /\ IsAt(t, "arm") /\ Return(t)
    /\ guard' = [fd |-> call[t].opened, ttl |-> TRUE, closed |-> FALSE, expired |-> FALSE,
                 session |-> guard.session + 1]
    /\ UNCHANGED <<generation, reachable, holder, snapshot, lapsed>>

\* Time passes the guard's expiry.
Expiry ==
    /\ guard.fd # NoFd /\ guard.ttl /\ ~guard.expired
    /\ guard' = [guard EXCEPT !.expired = TRUE]
    /\ UNCHANGED <<generation, reachable, holder, call, snapshot, lapsed, clash>>

-----------------------------------------------------------------------------
(* snapshot_guard and guard_commit.                                         *)

\* An expired guard is refused (no step); an earlier snapshot is overwritten.
Snapshot(t) ==
    /\ guard.fd # NoFd => ~guard.closed /\ ~guard.expired
    /\ BeginCopy(t, [NoCall EXCEPT !.op = "snapshot", !.at = "copy"], NoSnapshot)
    /\ UNCHANGED <<guard, generation, reachable, holder, lapsed>>

\* The descriptor is copied; without one the call fails ...
CopyFd(t) ==
    /\ IF guard.fd = NoFd
         THEN /\ IsAt(t, "copy") /\ Return(t)
              /\ snapshot' = [snapshot EXCEPT ![t] = NoSnapshot]
         ELSE /\ GoOn(t, "copy", "stamp")
              /\ snapshot' = [snapshot EXCEPT ![t] = [@ EXCEPT !.fd = guard.fd, !.session = guard.session]]
    /\ UNCHANGED <<guard, generation, reachable, holder, lapsed>>

\* ... and then the generation.
CopyGeneration(t) ==
    /\ IsAt(t, "stamp") /\ Return(t)
    /\ snapshot' = [snapshot EXCEPT ![t].generation = generation]
    /\ UNCHANGED <<guard, generation, reachable, holder, lapsed>>

\* guard_commit goes on to the refresh if the generation is still the same.
Commit(t) ==
    /\ snapshot[t].fd # NoFd
    /\ guard.fd # NoFd /\ generation = snapshot[t].generation
    /\ BeginCopy(t, [NoCall EXCEPT !.op = "commit", !.at = "refresh"], snapshot[t])
    /\ UNCHANGED <<guard, generation, reachable, holder, lapsed>>

\* Otherwise it does nothing.
CommitStale(t) ==
    /\ snapshot[t].fd # NoFd /\ call[t] = NoCall
    /\ guard.fd = NoFd \/ generation # snapshot[t].generation
    /\ snapshot' = [snapshot EXCEPT ![t] = NoSnapshot]
    /\ UNCHANGED <<guard, generation, reachable, holder, call, lapsed, clash>>

\* ttak_io_guard_refresh
Refresh(t) ==
    /\ IsAt(t, "refresh") /\ Return(t)
    /\ guard' = IF guard.fd # NoFd /\ ~guard.closed THEN [guard EXCEPT !.expired = FALSE] ELSE guard
    /\ snapshot' = [snapshot EXCEPT ![t] = NoSnapshot]
    /\ UNCHANGED <<generation, reachable, holder, lapsed>>

-----------------------------------------------------------------------------
EndpointNext ==
    \/ OpenByCaller \/ CloseByCaller \/ Expiry
    \/ \E t \in Callers :
          \/ \E d \in Descriptors, ttl, addr \in BOOLEAN : BindFd(t, d, ttl, addr)
          \/ EndpointClose(t) \/ Restart(t) \/ Connected(t) \/ ConnectFails(t)
          \/ Shut(t) \/ ClearGuard(t) \/ ReadGeneration(t) \/ WriteGeneration(t)
          \/ InitRefused(t) \/ Wipe(t) \/ Arm(t)
          \/ Snapshot(t) \/ CopyFd(t) \/ CopyGeneration(t)
          \/ Commit(t) \/ CommitStale(t) \/ Refresh(t)

EndpointSpec == EndpointInit /\ [][EndpointNext]_endpointVars

-----------------------------------------------------------------------------
\* The descriptor under guard: not while it is closed or its guard written.
Guarded == IF guard.fd = NoFd \/ \E t \in Callers : call[t].at \in {"clear", "arm"} THEN {}
           ELSE {guard.fd}

\* Those that a call has in hand and will put under guard or close.
Coming == {call[t].opened : t \in {u \in Callers : call[u].op = "restart" \/ call[u].ttl}}

\* As long as no two calls that change the endpoint have overlapped (nothing but
\* their callers sees to that), and whatever snapshots, uses and commits run
\* meanwhile: the endpoint closes only descriptors that are its own, although
\* numbers come back; those it has open are the one under guard, those in the
\* hands of a call and those a bind replaced without closing them, and none of
\* them is two of these; and a commit never prolongs another socket's guard than
\* the one its snapshot was taken of, although restarts and closes came between
\* the two.  A snapshot or commit that a change itself overlaps is excepted: it
\* may copy the old descriptor with the new generation, or the 0 of the memset.
EndpointFds ==
    ~clash =>
    /\ {d \in Descriptors : holder[d] = "endpoint"} = lapsed \union Guarded \union Coming
    /\ lapsed \intersect (Guarded \union Coming) = {} /\ Guarded \intersect Coming = {}
    /\ \A t \in Callers :
          /\ IsAt(t, "shut") /\ call[t].closing # NoFd => holder[call[t].closing] = "endpoint"
          /\ IsAt(t, "refresh") /\ ~snapshot[t].torn =>
                guard.fd = snapshot[t].fd /\ guard.session = snapshot[t].session
=============================================================================
