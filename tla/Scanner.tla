------------------------------ MODULE Scanner -------------------------------
(***************************************************************************)
(* The range scanner of src/apps/immature/aliquot-swipe-amicable-by-3: a    *)
(* main thread hands blocks of seeds to pool workers, a journal on disk     *)
(* holds a line when a block is reserved and one when it is done, and a     *)
(* checkpoint holds the frontier.  The process may be killed at any step,   *)
(* or exit because a line could only be written in part; a restart takes    *)
(* the work up from journal and checkpoint.                                 *)
(***************************************************************************)
EXTENDS Naturals, Sequences, SequencesExt, FiniteSets, FiniteSetsExt

CONSTANTS ScanWorkers,
          MaxInflight,   \* max_inflight
          LastBlock,     \* bound: the last block that is dispatched
          MaxLines       \* bound on the lines of the journal

ASSUME ScannerAssumption == {MaxInflight, LastBlock, MaxLines} \subseteq Nat

Blocks == 0 .. LastBlock
NoBlock == LastBlock + 1

VARIABLES
    journal, ragged,      \* the lines on disk that parse; does the last lack its end
    checkpoint,           \* verified and next on disk
    phase,                \* "down", "up", "stopping" (g_shutdown_requested)
    blockState, inflight, \* g_block_state (0, 1 reserved, 2 done), g_inflight_state
    requeue,              \* blocks to be taken up again
    frontier, nextBlock,  \* g_verified_frontier, g_next_dispatch
    main, scan, queued,   \* where main and each worker are; tasks not yet fetched
    scanned,              \* blocks whose scan came to its end
    blurred               \* blocks whose reservation was appended to a torn line

scannerVars == <<journal, ragged, checkpoint, phase, blockState, inflight, requeue, frontier,
                 nextBlock, main, scan, queued, scanned, blurred>>
diskVars == <<journal, ragged, checkpoint>>
progressVars == <<requeue, frontier, nextBlock>>

Idling == [at |-> "idle", block |-> NoBlock]

\* What the process keeps in memory, as it is before a start.
Forgotten ==
    /\ phase' = "down"
    /\ blockState' = [b \in Blocks |-> 0] /\ inflight' = {} /\ requeue' = {}
    /\ frontier' = 0 /\ nextBlock' = 0
    /\ main' = Idling /\ scan' = [w \in ScanWorkers |-> Idling] /\ queued' = <<>>

ScannerInit ==
    /\ journal = <<>> /\ ragged = FALSE /\ checkpoint = [verified |-> 0, next |-> 0]
    /\ phase = "down"
    /\ blockState = [b \in Blocks |-> 0] /\ inflight = {} /\ requeue = {}
    /\ frontier = 0 /\ nextBlock = 0
    /\ main = Idling /\ scan = [w \in ScanWorkers |-> Idling] /\ queued = <<>>
    /\ scanned = {} /\ blurred = {}

-----------------------------------------------------------------------------
(* The journal and the checkpoint. *)

\* The lines that parse once another is written: behind a torn line it does not.
Legible(type, b) == IF ragged THEN journal ELSE Append(journal, [type |-> type, block |-> b])

\* journal_append_reserve, journal_append_done: written and synced as one line.
AppendLine(type, b) ==
    /\ Len(journal) < MaxLines
    /\ journal' = Legible(type, b)
    /\ blurred' = IF ragged /\ type = "R" THEN blurred \union {b} ELSE blurred
    /\ ragged' = FALSE

\* write_all wrote a part of the line, perhaps all but its end, and the process exits.
TearLine(type, b) ==
    /\ Len(journal) < MaxLines
    /\ journal' \in {journal, Legible(type, b)}
    /\ blurred' = IF ragged /\ type = "R" THEN blurred \union {b} ELSE blurred
    /\ ragged' = TRUE
    /\ Forgotten /\ UNCHANGED <<checkpoint, scanned>>

\* save_checkpoint replaces the file by a rename, or leaves the old one.
SaveCheckpoint(verified, next) ==
    checkpoint' \in {checkpoint, [verified |-> verified, next |-> Max({verified, next})]}

\* advance_verified_frontier, and the loop of recovery.
Contiguous(state, b) == Min({k \in b .. NoBlock : k = NoBlock \/ state[k] # 2})

-----------------------------------------------------------------------------
(* journal_recover_or_init: the last line of a block counts. *)

Recovered == [b \in Blocks |->
    LET lines == {i \in DOMAIN journal : journal[i].block = b} IN
        IF lines = {} THEN 0 ELSE IF journal[Max(lines)].type = "R" THEN 1 ELSE 2]
JournalEnd == Max({0} \union {journal[i].block + 1 : i \in DOMAIN journal})

RecoveredFrontier == Max({checkpoint.verified, Contiguous(Recovered, 0)})
RecoveredNext == Max({checkpoint.next, JournalEnd, RecoveredFrontier})

RequeuedMutant == {}                       \* mutant: reservations are not taken up again
Requeued == {b \in Blocks : Recovered[b] = 1}

\* main refuses to begin anew beside a journal that is not empty, unless `allow`.
Refused(allow) ==
    RecoveredFrontier = 0 /\ ~allow /\ ~(journal = <<>> /\ ~ragged /\ blurred = {})

\* `allow` is ALIQUOT_ALLOW_RESET, `forced` ALIQUOT_START_SEED, which may take
\* the dispatch back but, in this model, not ahead over blocks never scanned.
Start(allow, forced) ==
    /\ phase = "down" /\ forced <= RecoveredNext
    /\ SaveCheckpoint(RecoveredFrontier, RecoveredNext)
    /\ IF Refused(allow)
       THEN Forgotten
       ELSE /\ phase' = "up"
            /\ blockState' = Recovered /\ requeue' = Requeued /\ inflight' = {}
            /\ frontier' = RecoveredFrontier /\ nextBlock' = Max({forced, RecoveredFrontier})
            /\ UNCHANGED <<main, scan, queued>>
    /\ UNCHANGED <<journal, ragged, scanned, blurred>>

-----------------------------------------------------------------------------
(* The main thread. *)

Live == Len(queued) + Cardinality({w \in ScanWorkers : scan[w] # Idling})
MainGoes(from, at, b) == main.at = from /\ main' = [at |-> at, block |-> b]

\* A block for dispatch_one: one to be taken up again, else the next one.
PickRequeued ==
    /\ phase = "up" /\ Live < MaxInflight
    /\ \E b \in requeue : MainGoes("idle", "check", b) /\ requeue' = requeue \ {b}
    /\ UNCHANGED <<diskVars, phase, blockState, inflight, frontier, nextBlock, scan, queued,
                   scanned, blurred>>

PickNext ==
    /\ phase = "up" /\ Live < MaxInflight /\ requeue = {} /\ main.at = "idle"
    /\ nextBlock \in Blocks /\ nextBlock' = nextBlock + 1
    /\ main' = IF nextBlock < frontier \/ blockState[nextBlock] = 2
               THEN main ELSE [at |-> "check", block |-> nextBlock]
    /\ UNCHANGED <<diskVars, phase, blockState, inflight, requeue, frontier, scan, queued,
                   scanned, blurred>>

\* dispatch_one: nothing to do for a block that is done or in flight.
Check ==
    /\ LET dup == blockState[main.block] = 2 \/ main.block \in inflight IN
          /\ MainGoes("check", IF dup THEN "idle" ELSE "reserve", IF dup THEN NoBlock ELSE main.block)
          /\ inflight' = IF dup THEN inflight ELSE inflight \union {main.block}
    /\ UNCHANGED <<diskVars, progressVars, phase, blockState, scan, queued, scanned, blurred>>

Reserve ==
    /\ MainGoes("reserve", "mark", main.block)
    /\ AppendLine("R", main.block)
    /\ UNCHANGED <<checkpoint, phase, blockState, inflight, progressVars, scan, queued, scanned>>

MarkReserved ==
    /\ MainGoes("mark", "submit", main.block)
    /\ blockState' = [blockState EXCEPT ![main.block] = IF @ = 0 THEN 1 ELSE @]
    /\ UNCHANGED <<diskVars, progressVars, phase, inflight, scan, queued, scanned, blurred>>

Submit ==
    /\ MainGoes("submit", "idle", NoBlock)
    /\ queued' = Append(queued, main.block)
    /\ UNCHANGED <<diskVars, progressVars, phase, blockState, inflight, scan, scanned, blurred>>

\* The rest of the loop: the frontier moves on, and now and then it is saved.
Poll ==
    /\ phase # "down" /\ main.at = "idle"
    /\ frontier' = Contiguous(blockState, frontier)
    /\ SaveCheckpoint(frontier', nextBlock)
    /\ UNCHANGED <<journal, ragged, phase, blockState, inflight, requeue, nextBlock, main, scan,
                   queued, scanned, blurred>>

Signal ==
    /\ phase = "up" /\ phase' = "stopping"
    /\ UNCHANGED <<diskVars, progressVars, blockState, inflight, main, scan, queued, scanned, blurred>>

\* ttak_thread_pool_destroy drops what is queued and joins the workers.
Retirement ==
    /\ phase = "stopping" /\ main.at = "idle" /\ \A w \in ScanWorkers : scan[w] = Idling
    /\ SaveCheckpoint(Contiguous(blockState, frontier), nextBlock)
    /\ Forgotten
    /\ UNCHANGED <<journal, ragged, scanned, blurred>>

\* A kill, a power cut, the watchdog or a second signal.
Crash ==
    /\ phase # "down" /\ Forgotten
    /\ UNCHANGED <<diskVars, scanned, blurred>>

-----------------------------------------------------------------------------
(* worker_scan_range. *)

WorkerGoes(w, from, at, b) == scan[w].at = from /\ scan' = [scan EXCEPT ![w] = [at |-> at, block |-> b]]

Fetch(w) ==
    /\ \E i \in DOMAIN queued : WorkerGoes(w, "idle", "scan", queued[i]) /\ queued' = RemoveAt(queued, i)
    /\ UNCHANGED <<diskVars, progressVars, phase, blockState, inflight, main, scanned, blurred>>

\* A scan that a shutdown cut short leaves its block reserved.
CompletedMutant == TRUE                    \* mutant: the shutdown is not asked for
Completed == phase = "up"

\* A shutdown may cut the scan short at any seed.
Scan(w) ==
    /\ WorkerGoes(w, "scan", IF Completed THEN "done" ELSE "idle", IF Completed THEN scan[w].block ELSE NoBlock)
    /\ scanned' = IF phase = "up" THEN scanned \union {scan[w].block} ELSE scanned
    /\ UNCHANGED <<diskVars, progressVars, phase, blockState, inflight, main, queued, blurred>>

RecordDone(w) ==
    /\ WorkerGoes(w, "done", "record", scan[w].block)
    /\ AppendLine("D", scan[w].block)
    /\ UNCHANGED <<checkpoint, phase, blockState, inflight, progressVars, main, queued, scanned>>

MarkDone(w) ==
    /\ WorkerGoes(w, "record", "idle", NoBlock)
    /\ blockState' = [blockState EXCEPT ![scan[w].block] = 2]
    /\ inflight' = inflight \ {scan[w].block}
    /\ UNCHANGED <<diskVars, progressVars, phase, main, queued, scanned, blurred>>

Torn == \/ main.at = "reserve" /\ TearLine("R", main.block)
        \/ \E w \in ScanWorkers : scan[w].at = "done" /\ TearLine("D", scan[w].block)

ScannerNext ==
    \/ \E allow \in BOOLEAN, forced \in 0 .. NoBlock : Start(allow, forced)
    \/ PickRequeued \/ PickNext \/ Check \/ Reserve \/ MarkReserved \/ Submit \/ Poll
    \/ Signal \/ Retirement \/ Crash \/ Torn
    \/ \E w \in ScanWorkers : Fetch(w) \/ Scan(w) \/ RecordDone(w) \/ MarkDone(w)

ScannerSpec == ScannerInit /\ [][ScannerNext]_scannerVars

-----------------------------------------------------------------------------
\* Whatever counts as verified was scanned to its end, in this process or in
\* one that crashed: the frontier, the checkpoint, the blocks marked done and
\* those with a done line.
FrontierSound ==
    \A b \in Blocks :
        \/ b < frontier \/ b < checkpoint.verified
        \/ blockState[b] = 2 \/ \E i \in DOMAIN journal : journal[i] = [type |-> "D", block |-> b]
        => b \in scanned

\* In how many places of a running process a block is.  One that main has
\* picked counts once main has found that nobody else has it.
BlockPlaces(b) ==
    (IF blockState[b] = 2 THEN 1 ELSE 0) + (IF b \in requeue THEN 1 ELSE 0)
    + (IF main.block = b /\ main.at # "check" THEN 1 ELSE 0)
    + Cardinality({i \in DOMAIN queued : queued[i] = b})
    + Cardinality({w \in ScanWorkers : scan[w].block = b})

\* Strict resume and duplicate-free dispatch (main.c:3): a block behind the
\* next one to be dispatched is done, about to be, or to be taken up again,
\* and only one of these; on disk it is verified or has a line.  Exempt are
\* the blocks whose reservation was appended to a torn line, against
\* main.c:8 ("Any parsing failure is fatal") skipped by recovery (main.c:1093).
BlockInOnePlace ==
    \A b \in Blocks \ blurred :
        /\ BlockPlaces(b) <= 1
        /\ phase = "up" /\ frontier <= b /\ b < nextBlock => BlockPlaces(b) = 1 \/ main.block = b
        /\ b < checkpoint.next =>
               b < checkpoint.verified \/ \E i \in DOMAIN journal : journal[i].block = b
=============================================================================
