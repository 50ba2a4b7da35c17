---------------------------- MODULE MCComponents -----------------------------
(***************************************************************************)
(* The components that keep their state to themselves, one per behaviour:   *)
(* `subject` picks the component that runs, and the others stay in one of   *)
(* their initial states.  Nothing of one of them is read by another, so     *)
(* interleaving two of them would only multiply their states.               *)
(***************************************************************************)
EXTENDS DynamicMask, Detachable, Owners, Containers, Tables, TaskQueue, Buddy,
        SearchTrees, Sessions, Endpoint, Lattice, BigInt, Scanner, Tracker, Bitwise

VARIABLE subject

btreeVars == <<btree, inserted>>
bplusVars == <<nodes, root, held>>
maskState == <<inside, status, pinned, maskVars>>

\* Where a component can be created in several ways, an idle one is in the
\* simplest, so that it does not multiply the initial states.
Idle == /\ subject # "ring" => ring.capacity = 1
        /\ subject # "pool" => pool.capacity = 3 /\ pool.chained
        /\ subject # "buddy" => zone.length = <<>>
        /\ subject # "table" => ~table.is_static
        /\ subject # "arena" => flags = {}
        /\ subject # "lattice" => dim = 2

ComponentsInit ==
    /\ subject \in {"mask", "arena", "owners", "ring", "pool", "table", "queue", "buddy",
                    "btree", "bplus", "sessions", "endpoint", "lattice",
                    "bigint", "scanner", "tracker"}
    /\ MaskInit /\ ArenaInit /\ OwnersInit /\ RingInit /\ PoolInit /\ TableInit /\ QueueInit
    /\ BuddyInit /\ BTreeInit /\ BPlusInit /\ SessionsInit /\ EndpointInit
    /\ LatticeInit /\ BigInit /\ ScannerInit /\ TrackerInit
    /\ Idle

\* The variables of every component except those of the given ones stay.
Only(name) ==
    /\ subject = name /\ UNCHANGED subject
    /\ name # "mask" => UNCHANGED maskState
    /\ name # "arena" => UNCHANGED arenaVars
    /\ name # "owners" => UNCHANGED ownersVars
    /\ name # "ring" => UNCHANGED ringVars
    /\ name # "pool" => UNCHANGED poolVars
    /\ name # "table" => UNCHANGED tableVars
    /\ name # "queue" => UNCHANGED queueVars
    /\ name # "buddy" => UNCHANGED buddyVars
    /\ name # "btree" => UNCHANGED btreeVars
    /\ name # "bplus" => UNCHANGED bplusVars
    /\ name # "sessions" => UNCHANGED sessionVars
    /\ name # "endpoint" => UNCHANGED endpointVars
    /\ name # "lattice" => UNCHANGED latticeVars
    /\ name # "bigint" => UNCHANGED bigVars
    /\ name # "scanner" => UNCHANGED scannerVars
    /\ name # "tracker" => UNCHANGED trackerVars

\* The endpoint is followed up to the first two changes that overlap: from there
\* on EndpointFds claims nothing.
EndpointOfInterest == ~clash

\* main hunts until the queue holds what it wants, whatever else happens; once
\* no seed is left to be found it would do so for ever.
HuntEnds == batch.left = 0 \/ batch.at = "warmup" \/ hunting["main"] # NoSeed \/ ~(Seeds \subseteq registry)

\* Two workers at the same place are alike: the first of them goes on.
InTurn(before, after) == before["v1"] = before["v2"] /\ after["v2"] # before["v2"] => after["v1"] # before["v1"]
ScannerInTurn == InTurn(scan, scan')
TrackerInTurn == flush.by \in Crew \/ InTurn(crew, crew')

ComponentsNext ==
    \/ subject = "mask" /\ MaskNext /\ Only("mask")
    \/ subject = "arena" /\ ArenaNext /\ Only("arena")
    \/ subject = "owners" /\ OwnersNext /\ Only("owners")
    \/ subject = "ring" /\ RingNext /\ Only("ring")
    \/ subject = "pool" /\ PoolNext /\ Only("pool")
    \/ subject = "table" /\ TableNext /\ Only("table")
    \/ subject = "queue" /\ QueueNext /\ Only("queue")
    \/ subject = "buddy" /\ BuddyNext /\ Only("buddy")
    \/ subject = "btree" /\ BTreeNext /\ Only("btree")
    \/ subject = "bplus" /\ BPlusNext /\ Only("bplus")
    \/ subject = "sessions" /\ SessionsNext /\ Only("sessions")
    \/ subject = "endpoint" /\ EndpointOfInterest /\ EndpointNext /\ Only("endpoint")
    \/ subject = "lattice" /\ LatticeNext /\ Only("lattice")
    \/ subject = "bigint" /\ BigNext /\ Only("bigint")
    \/ subject = "scanner" /\ ScannerNext /\ ScannerInTurn /\ Only("scanner")
    \/ subject = "tracker" /\ HuntEnds /\ TrackerNext /\ TrackerInTurn /\ Only("tracker")

-----------------------------------------------------------------------------
(* Values of constants.                                                     *)

MCAnd(a, b) == a & b
MCXor(a, b) == a ^^ b
MCHash == <<0, 1, 2, 3, 3>>
MCPools == {<<0, FALSE>>, <<5, TRUE>>}
MCWorkerId == [w0 |-> 0, w2 |-> 2]
MCCrews == [d \in {2, 4} |-> IF d = 2 THEN {"w0"} ELSE {"w0", "w2"}]
MCMaxPackets == [d \in {2, 4} |-> IF d = 2 THEN 5 ELSE 2]
=============================================================================
