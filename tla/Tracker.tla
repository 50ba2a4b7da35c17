------------------------------ MODULE Tracker -------------------------------
(***************************************************************************)
(* The aliquot tracker of src/apps/immature/aliquot-tracker: scouts and     *)
(* main look for seeds and enqueue them, pool workers run them and record   *)
(* them in ledgers, and whoever finds the last flush too long ago writes    *)
(* ledgers and pending seeds to disk.  The process may die at any step; a   *)
(* start loads what is on disk.                                             *)
(***************************************************************************)
EXTENDS Naturals, Sequences, FiniteSets, Functions

CONSTANTS Seeds, NoSeed,
          Hunters, Crew,   \* scouts, workers of the pool
          QueueCap,        \* JOB_QUEUE_CAP
          Headroom,        \* what scouts leave free of it, 8 in the code
          MaxTracks,       \* bound on the track records of one life
          MaxBoots         \* bound on the starts of the process

ASSUME TrackerAssumption ==
    /\ {QueueCap, Headroom, MaxTracks, MaxBoots} \subseteq Nat
    /\ NoSeed \notin Seeds /\ Hunters \cap Crew = {}
    /\ {"main", "stop"} \cap (Hunters \union Crew) = {}
    /\ IsFiniteSet(Hunters) /\ IsFiniteSet(Crew)

Ledgers == {"found", "jump", "track"}
Finders == Hunters \union {"main"}
Cpus == Cardinality(Crew)

VARIABLES
    jsonl, queueFile,   \* on disk: a log per ledger, the pending seeds
    mode,               \* "down", "loading", "up", "joining" the scouts, "draining" the pool
    registry,           \* g_seed_buckets
    ledger, persisted,  \* the records of each ledger, persisted_*_count
    pending, depth,     \* how often a seed is in g_pending_queue, and its count
    submitted,          \* how often a seed is in the pool's queue
    unread,             \* seeds of the checkpoint that are still to be enqueued
    hunting, crew,      \* the seed of each finder, where each worker is
    batch,              \* where main is, and what is left of its batch
    flush,              \* who holds g_disk_lock, what is written next
    accepted,           \* seeds that were enqueued, or found on disk after a crash
    turnedAway,         \* a load found the queue full
    boots

trackerVars == <<jsonl, queueFile, mode, registry, ledger, persisted, pending, depth, submitted,
                 unread, hunting, crew, batch, flush, accepted, turnedAway, boots>>
logVars == <<jsonl, ledger, persisted>>
queueCopies == <<pending, depth, submitted>>
promises == <<accepted, turnedAway>>
lifeVars == <<mode, boots>>

NoFlush == [by |-> "stop", at |-> "none", seeds |-> {}]
AtRest == [at |-> "idle", seed |-> NoSeed]
Starting == [at |-> "start", left |-> 0]
Nowhere == [s \in Seeds |-> 0]
NoneYet == [k \in Ledgers |-> 0]

\* What dies with the process.
Died ==
    /\ mode' = "down" /\ registry' = {} /\ unread' = {}
    /\ ledger' = [k \in Ledgers |-> <<>>] /\ persisted' = NoneYet
    /\ pending' = Nowhere /\ depth' = 0 /\ submitted' = Nowhere
    /\ hunting' = [h \in Finders |-> NoSeed] /\ crew' = [w \in Crew |-> AtRest]
    /\ batch' = Starting /\ flush' = NoFlush

TrackerInit ==
    /\ jsonl = [k \in Ledgers |-> <<>>] /\ queueFile = {}
    /\ mode = "down" /\ registry = {} /\ unread = {}
    /\ ledger = [k \in Ledgers |-> <<>>] /\ persisted = NoneYet
    /\ pending = Nowhere /\ depth = 0 /\ submitted = Nowhere
    /\ hunting = [h \in Finders |-> NoSeed] /\ crew = [w \in Crew |-> AtRest]
    /\ batch = Starting /\ flush = NoFlush /\ accepted = {} /\ turnedAway = FALSE /\ boots = 0

-----------------------------------------------------------------------------
(* Ledgers and the pending queue. *)

Recorded(k, s) == [ledger EXCEPT ![k] = Append(@, s)]
Pending == {s \in Seeds : pending[s] > 0}

\* enqueue_job: the queue is full, or the pool is shut down.
HasRoom == depth < QueueCap /\ mode # "draining"
Enqueue(s) ==
    /\ pending' = [pending EXCEPT ![s] = @ + 1] /\ depth' = depth + 1
    /\ submitted' = [submitted EXCEPT ![s] = @ + 1]
    /\ accepted' = accepted \union {s} /\ UNCHANGED turnedAway

RemainingMutant(s) == [pending EXCEPT ![s] = 0]      \* mutant: every copy goes
Remaining(s) == [pending EXCEPT ![s] = @ - 1]        \* pending_queue_remove

-----------------------------------------------------------------------------
(* main: start, load, stop. *)

LoadedCountsMutant == NoneYet              \* mutant: nothing is marked as persisted
LoadedCounts == [k \in Ledgers |-> Len(jsonl[k])]

\* load_found_records and so on; the queue file is read in one piece.
Boot ==
    /\ mode = "down" /\ boots < MaxBoots /\ boots' = boots + 1
    /\ mode' = "loading"
    /\ ledger' = jsonl /\ persisted' = LoadedCounts
    /\ registry' = Range(jsonl["found"]) /\ unread' = queueFile
    /\ UNCHANGED <<jsonl, queueFile, queueCopies, hunting, crew, batch, flush, promises>>

TurnAway(s) == UNCHANGED queueCopies /\ accepted' = accepted \ {s} /\ turnedAway' = TRUE

\* load_queue_checkpoint, one seed: what is in the found log is done, and what
\* the queue has no room for is forgotten.
LoadSeed ==
    /\ mode = "loading"
    /\ \E s \in unread :
          /\ unread' = unread \ {s} /\ registry' = registry \union {s}
          /\ \/ s \notin registry /\ HasRoom /\ Enqueue(s)
             \/ s \notin registry /\ ~HasRoom /\ TurnAway(s)
             \/ s \in registry /\ UNCHANGED <<queueCopies, promises>>
    /\ UNCHANGED <<logVars, lifeVars, queueFile, hunting, crew, batch, flush>>

GoesTo(from, to) ==
    /\ mode = from /\ mode' = to
    /\ UNCHANGED <<logVars, queueFile, registry, queueCopies, unread, hunting, crew, batch, flush, promises, boots>>

\* Nobody looks for seeds; main is between two batches and not flushing.
Rests(h) == hunting[h] = NoSeed /\ flush.by # h /\ (h = "main" => batch.left = 0)

LoadingDone == unread = {} /\ GoesTo("loading", "up")
StopSignal == GoesTo("up", "joining")
ScoutsJoined ==
    /\ batch.at # "start" /\ \A h \in Finders : Rests(h)
    /\ GoesTo("joining", "draining")

-----------------------------------------------------------------------------
(* scout_main; the warm-up and the hunt of main. *)

Hunt(h) ==
    /\ mode = "up" /\ Rests(h) /\ depth < QueueCap - Headroom
    /\ \E s \in Seeds \ registry :
          /\ registry' = registry \union {s}
          /\ \/ hunting' = [hunting EXCEPT ![h] = s] /\ ledger' = Recorded("jump", s)
             \/ UNCHANGED <<hunting, ledger>>      \* frontier_accept_seed, looks_long say no
    /\ UNCHANGED <<jsonl, persisted, lifeVars, queueFile, queueCopies, unread, crew, batch, flush, promises>>

\* main looks at the queue once for a whole batch: a seed per processor when it
\* warms up an empty queue, whatever the signal; then, again and again, what the
\* queue lacks of two per processor.
Goal == IF 2 * Cpus < QueueCap THEN 2 * Cpus ELSE QueueCap
WarmUp ==
    /\ batch.at = "start" /\ mode \in {"up", "joining"}
    /\ batch' = [at |-> "warmup", left |-> IF depth = 0 THEN Cpus ELSE 0]
    /\ UNCHANGED <<logVars, lifeVars, queueFile, registry, queueCopies, unread, hunting, crew, flush, promises>>

LookAtQueue ==
    /\ batch.at # "start" /\ mode = "up" /\ Rests("main")
    /\ batch' = [at |-> "hunt", left |-> IF depth < Goal THEN Goal - depth ELSE 0]
    /\ UNCHANGED <<logVars, lifeVars, queueFile, registry, queueCopies, unread, hunting, crew, flush, promises>>

MainHunt ==
    /\ batch.left > 0 /\ hunting["main"] = NoSeed
    /\ batch' = [batch EXCEPT !.left = @ - 1]
    /\ \/ \E s \in Seeds \ registry :
             registry' = registry \union {s} /\ hunting' = [hunting EXCEPT !["main"] = s]
       \/ batch.at = "warmup" /\ registry # {} /\ UNCHANGED <<registry, hunting>>   \* seen before
    /\ UNCHANGED <<logVars, lifeVars, queueFile, queueCopies, unread, crew, flush, promises>>

\* The hunt counts only what was enqueued.
EnqueueHunted(h) ==
    /\ hunting[h] # NoSeed /\ hunting' = [hunting EXCEPT ![h] = NoSeed]
    /\ \/ HasRoom /\ Enqueue(hunting[h]) /\ UNCHANGED batch
       \/ /\ ~HasRoom /\ UNCHANGED <<queueCopies, promises>>
          /\ batch' = IF h = "main" /\ batch.at = "hunt" THEN [batch EXCEPT !.left = @ + 1] ELSE batch
    /\ UNCHANGED <<logVars, lifeVars, queueFile, registry, unread, crew, flush>>

-----------------------------------------------------------------------------
(* worker_process_job_wrapper and process_job. *)

Proceed(w, from, to, s) == crew[w].at \in from /\ crew' = [crew EXCEPT ![w] = [at |-> to, seed |-> s]]

TakeJob(w) ==
    /\ mode # "draining"
    /\ \E s \in Seeds :
          /\ submitted[s] > 0 /\ submitted' = [submitted EXCEPT ![s] = @ - 1]
          /\ Proceed(w, {"idle"}, "run", s)
    /\ UNCHANGED <<logVars, lifeVars, queueFile, registry, pending, depth, unread, hunting, batch,
                   flush, promises>>

\* A long sequence is enqueued a second time before its job ends.
Retry(w) ==
    /\ HasRoom /\ Len(ledger["track"]) < MaxTracks
    /\ Proceed(w, {"run"}, "track", crew[w].seed) /\ Enqueue(crew[w].seed)
    /\ UNCHANGED <<logVars, lifeVars, queueFile, registry, unread, hunting, batch, flush>>

RecordFound(w) ==
    /\ Proceed(w, {"run"}, "track", crew[w].seed) /\ ledger' = Recorded("found", crew[w].seed)
    /\ UNCHANGED <<jsonl, persisted, lifeVars, queueFile, registry, queueCopies, unread, hunting, batch, flush, promises>>

RecordTrack(w) ==
    /\ Proceed(w, {"track"}, "recorded", crew[w].seed) /\ ledger' = Recorded("track", crew[w].seed)
    /\ UNCHANGED <<jsonl, persisted, lifeVars, queueFile, registry, queueCopies, unread, hunting, batch, flush, promises>>

\* The seed is pending until its job has recorded it, and perhaps flushed.
Settle(w) ==
    /\ flush.by # w /\ Proceed(w, {"recorded", "flushed"}, "idle", NoSeed)
    /\ pending' = Remaining(crew[w].seed) /\ depth' = depth - 1
    /\ UNCHANGED <<logVars, lifeVars, queueFile, registry, submitted, unread, hunting, batch, flush, promises>>

-----------------------------------------------------------------------------
(* flush_ledgers, under g_disk_lock: the logs, then the pending seeds. *)

FlushStart(a) ==
    /\ flush = NoFlush /\ flush' = [by |-> a, at |-> "found", seeds |-> {}]
    /\ UNCHANGED <<logVars, lifeVars, queueFile, registry, queueCopies, unread, hunting, batch, promises>>

FlushByWorker(w) == FlushStart(w) /\ Proceed(w, {"recorded"}, "flushed", crew[w].seed)
FlushByHunter(h) ==
    /\ mode \in {"up", "joining"} /\ Rests(h) /\ (h = "main" => batch.at = "hunt")
    /\ FlushStart(h) /\ UNCHANGED crew
FlushAtStop == mode = "draining" /\ crew = [w \in Crew |-> AtRest] /\ FlushStart("stop") /\ UNCHANGED crew

Unpersisted(k) == SubSeq(ledger[k], persisted[k] + 1, Len(ledger[k]))
After(k) == CASE k = "found" -> "jump" [] k = "jump" -> "track" [] k = "track" -> "queue"
Opens == IF flush.by = "stop" THEN {TRUE} ELSE BOOLEAN    \* fopen may fail, but not at the end

PersistLog ==
    /\ flush.at \in Ledgers /\ flush' = [flush EXCEPT !.at = After(@)]
    /\ \E opens \in Opens :
          /\ jsonl' = IF opens THEN [jsonl EXCEPT ![flush.at] = @ \o Unpersisted(flush.at)] ELSE jsonl
          /\ persisted' = IF opens THEN [persisted EXCEPT ![flush.at] = Len(ledger[flush.at])] ELSE persisted
    /\ UNCHANGED <<ledger, lifeVars, queueFile, registry, queueCopies, unread, hunting, crew, batch, promises>>

SnapshotPending ==
    /\ flush.at = "queue" /\ flush' = [flush EXCEPT !.at = "open", !.seeds = Pending]
    /\ UNCHANGED <<logVars, lifeVars, queueFile, registry, queueCopies, unread, hunting, crew, batch, promises>>

\* fopen cuts the file to nothing; until fclose any part of it may be there.
OpenQueueFile ==
    /\ flush.at = "open"
    /\ \E opens \in Opens :
          /\ flush' = IF opens THEN [flush EXCEPT !.at = "close"] ELSE NoFlush
          /\ queueFile' \in IF opens THEN SUBSET flush.seeds ELSE {queueFile}
    /\ UNCHANGED <<logVars, lifeVars, registry, queueCopies, unread, hunting, crew, batch, promises>>

\* The last flush ends the process.
CloseQueueFile ==
    /\ flush.at = "close" /\ queueFile' = flush.seeds
    /\ IF flush.by = "stop" THEN Died
       ELSE flush' = NoFlush /\ UNCHANGED <<ledger, persisted, mode, registry, queueCopies, unread, hunting, crew, batch>>
    /\ UNCHANGED <<jsonl, boots, promises>>

-----------------------------------------------------------------------------
\* The process is killed, or gives up on a scout that does not join; of a log
\* that is being written the first lines may be there.
OnDisk(logs, file) == Range(logs["found"]) \union file
Kill ==
    /\ mode # "down" /\ Died
    /\ IF flush.at \in Ledgers
       THEN \E n \in 0 .. Len(Unpersisted(flush.at)) :
               jsonl' = [jsonl EXCEPT ![flush.at] = @ \o SubSeq(Unpersisted(flush.at), 1, n)]
       ELSE UNCHANGED jsonl
    /\ accepted' = OnDisk(jsonl', queueFile)
    /\ UNCHANGED <<queueFile, boots, turnedAway>>

TrackerNext ==
    \/ Boot \/ LoadSeed \/ LoadingDone \/ StopSignal \/ ScoutsJoined \/ FlushAtStop
    \/ PersistLog \/ SnapshotPending \/ OpenQueueFile \/ CloseQueueFile \/ Kill
    \/ WarmUp \/ LookAtQueue \/ MainHunt
    \/ \E h \in Hunters : Hunt(h)
    \/ \E h \in Finders : EnqueueHunted(h) \/ FlushByHunter(h)
    \/ \E w \in Crew : TakeJob(w) \/ Retry(w) \/ RecordFound(w) \/ RecordTrack(w) \/ Settle(w) \/ FlushByWorker(w)

TrackerSpec == TrackerInit /\ [][TrackerNext]_trackerVars

-----------------------------------------------------------------------------
\* What scouts leave free of the queue is enough for the seeds that they and main
\* have in hand or may still enqueue before they look at it again, and for a
\* retry of every worker.
RoomForRetries == Headroom < QueueCap /\ Cardinality(Hunters) + 3 * Cpus <= Headroom + 1

\* A seed that was enqueued, or that a crash left on disk, is recorded, pending
\* or about to be enqueued again while the process runs, and on disk once it
\* has stopped: also one that is enqueued anew by its own job (main.c:1848),
\* dropped by the pool's destruction or taken over from an earlier life.  A seed
\* for which a load finds no room is excepted, and with RoomForRetries there is
\* none: the retries of what was loaded first never fill the queue.
SeedKept ==
    /\ accepted \subseteq IF mode = "down" THEN OnDisk(jsonl, queueFile)
                          ELSE Range(ledger["found"]) \union Pending \union unread
    /\ RoomForRetries => ~turnedAway

\* Each log is the part of its ledger that counts as persisted, over restarts
\* and whoever flushed (main.c:1133, 1230), and no seed is found twice.
LogsInStep ==
    /\ IsInjective(jsonl["found"])
    /\ mode # "down" => \A k \in Ledgers : jsonl[k] = SubSeq(ledger[k], 1, persisted[k])
=============================================================================
