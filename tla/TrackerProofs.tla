---------------------------- MODULE TrackerProofs ----------------------------
(***************************************************************************)
(* The journal of the aliquot tracker, for any number of seeds, scouts and  *)
(* workers and any number of kills: the logs are a part of the ledgers at   *)
(* every moment, and no accepted seed is forgotten but one for which a load *)
(* finds no room.                                                           *)
(***************************************************************************)
EXTENDS Tracker, Integers, FiniteSetTheorems, SequenceTheorems, TLAPS

\* Parts of a sequence.
LEMMA Parts ==
    ASSUME NEW S, NEW s \in Seq(S), NEW p \in 0 .. Len(s), NEW n \in 0 .. Len(s) - p
    PROVE  /\ SubSeq(s, 1, p) \in Seq(S) /\ Len(SubSeq(s, 1, p)) = p
           /\ \A i \in 1 .. p : SubSeq(s, 1, p)[i] = s[i]
           /\ SubSeq(s, 1, Len(s)) = s
           /\ SubSeq(s, 1, p) \o SubSeq(s, p + 1, Len(s)) = s
           /\ SubSeq(s, 1, p) \o SubSeq(SubSeq(s, p + 1, Len(s)), 1, n) = SubSeq(s, 1, p + n)
           /\ \A e \in S : SubSeq(Append(s, e), 1, p) = SubSeq(s, 1, p)
<1>1. /\ SubSeq(s, 1, p) \in Seq(S) /\ Len(SubSeq(s, 1, p)) = p
      /\ \A i \in 1 .. p : SubSeq(s, 1, p)[i] = s[i]
  BY SubSeqProperties
<1>2. SubSeq(s, 1, Len(s)) = s
  OBVIOUS
<1>3. SubSeq(s, 1, p) \o SubSeq(s, p + 1, Len(s)) = s
  <2>1. 1 \in 1 .. Len(s) + 1 /\ p \in 1 - 1 .. Len(s) /\ Len(s) \in p .. Len(s)
    OBVIOUS
  <2>2. SubSeq(s, 1, p) \o SubSeq(s, p + 1, Len(s)) = SubSeq(s, 1, Len(s))
    BY <2>1, ConcatAdjacentSubSeq
  <2> QED
    BY <1>2, <2>2
<1>4. SubSeq(s, 1, p) \o SubSeq(SubSeq(s, p + 1, Len(s)), 1, n) = SubSeq(s, 1, p + n)
  OBVIOUS
<1>5. \A e \in S : SubSeq(Append(s, e), 1, p) = SubSeq(s, 1, p)
  OBVIOUS
<1> QED
  BY <1>1, <1>2, <1>3, <1>4, <1>5

LEMMA PartGrows ==
    ASSUME NEW S, NEW s \in Seq(S), NEW p \in 0 .. Len(s), NEW n \in 0 .. Len(s) - p
    PROVE  /\ SubSeq(s, 1, p) \o SubSeq(SubSeq(s, p + 1, Len(s)), 1, n) = SubSeq(s, 1, p + n)
           /\ SubSeq(s, 1, p + n) \in Seq(S)
<1>1. p + n \in 0 .. Len(s)
  OBVIOUS
<1>2. SubSeq(s, 1, p + n) \in Seq(S)
  OBVIOUS
<1> QED
  BY <1>2, Parts

LEMMA RestOf ==
    ASSUME NEW S, NEW s \in Seq(S), NEW p \in 0 .. Len(s)
    PROVE  /\ SubSeq(s, p + 1, Len(s)) \in Seq(S)
           /\ Len(SubSeq(s, p + 1, Len(s))) = Len(s) - p
  OBVIOUS

LEMMA PartInjective ==
    ASSUME NEW S, NEW s \in Seq(S), NEW p \in 0 .. Len(s), IsInjective(s)
    PROVE  IsInjective(SubSeq(s, 1, p))
<1>1. /\ DOMAIN SubSeq(s, 1, p) = 1 .. p
      /\ \A i \in 1 .. p : SubSeq(s, 1, p)[i] = s[i]
  OBVIOUS
<1>2. DOMAIN s = 1 .. Len(s)
  OBVIOUS
<1> QED
  BY <1>1, <1>2 DEF IsInjective

LEMMA OneMore ==
    ASSUME NEW S, NEW s \in Seq(S), NEW e \in S, IsInjective(s),
           \A i \in DOMAIN s : s[i] # e
    PROVE  IsInjective(Append(s, e))
<1> DEFINE a == Append(s, e)
<1>1. /\ DOMAIN a = 1 .. Len(s) + 1 /\ DOMAIN s = 1 .. Len(s) /\ Len(s) \in Nat
      /\ \A i \in 1 .. Len(s) : a[i] = s[i]
      /\ a[Len(s) + 1] = e
  OBVIOUS
<1> HIDE DEF a
<1>2. \A i, j \in DOMAIN a : a[i] = a[j] => i = j
  BY <1>1 DEF IsInjective
<1> QED
  BY <1>2 DEF a, IsInjective

-----------------------------------------------------------------------------
(* The invariant of the tracker. *)

Moments == {"none", "queue", "open", "close"} \union Ledgers

\* What main has still to enqueue of its batch, one seed of it perhaps in hand.
InBatch(b, hand) == b.left + IF hand = NoSeed THEN 0 ELSE 1
Batched(b, hand) ==
    /\ b \in [at : {"start", "warmup", "hunt"}, left : Nat]
    /\ InBatch(b, hand) <= 2 * Cpus
    /\ b.at = "start" => b.left = 0 /\ hand = NoSeed

TrackerTypes ==
    /\ jsonl \in [Ledgers -> Seq(Seeds)] /\ ledger \in [Ledgers -> Seq(Seeds)]
    /\ persisted \in [Ledgers -> Nat]
    /\ queueFile \subseteq Seeds /\ unread \subseteq Seeds
    /\ registry \subseteq Seeds /\ accepted \subseteq Seeds
    /\ mode \in {"down", "loading", "up", "joining", "draining"}
    /\ pending \in [Seeds -> Int] /\ submitted \in [Seeds -> {0, 1}] /\ depth \in Int
    /\ hunting \in [Finders -> Seeds \union {NoSeed}]
    /\ crew \in [Crew -> [at : {"idle", "run", "track", "recorded", "flushed"},
                          seed : Seeds \union {NoSeed}]]
    /\ \A w \in Crew : crew[w].at = "idle" <=> crew[w].seed = NoSeed
    /\ Batched(batch, hunting["main"]) /\ turnedAway \in BOOLEAN
    /\ flush \in [by : Finders \union Crew \union {"stop"}, at : Moments, seeds : SUBSET Seeds]

\* A log is the first part of its ledger, and no seed is found twice.
LogInv ==
    /\ IsInjective(jsonl["found"]) /\ IsInjective(ledger["found"])
    /\ mode # "down" => \A k \in Ledgers : /\ persisted[k] <= Len(ledger[k])
                                           /\ jsonl[k] = SubSeq(ledger[k], 1, persisted[k])

\* A seed has one job: hunted, waiting, running or found, it is registered,
\* and it is not two of these.
Found(s) == \E i \in DOMAIN ledger["found"] : ledger["found"][i] = s
Waits(s) == submitted[s] = 1
Runs(s) == \E w \in Crew : crew[w].at = "run" /\ crew[w].seed = s
Hunted(s) == \E h \in Finders : hunting[h] = s
Scouted(s) == \E h \in Hunters : hunting[h] = s

RunsOnce ==
    \A v, w \in Crew :
        crew[v].at = "run" /\ crew[w].at = "run" /\ crew[v].seed = crew[w].seed => v = w
HuntsOnce == \A g, h \in Finders : hunting[g] = hunting[h] /\ hunting[g] \in Seeds => g = h

JobInv ==
    /\ \A s \in Seeds :
          /\ Found(s) \/ Waits(s) \/ Runs(s) \/ Hunted(s) => s \in registry
          /\ Hunted(s) => ~Waits(s) /\ ~Runs(s) /\ ~Found(s)
          /\ Waits(s) => ~Runs(s) /\ ~Found(s)
          /\ Runs(s) => ~Found(s)
    /\ RunsOnce /\ HuntsOnce

\* The pending queue holds a seed once for its waiting job and once for each
\* worker that has not settled it, and its count is that of the jobs.
Busy(s) == {w \in Crew : crew[w].seed = s}
Waiting == {s \in Seeds : submitted[s] = 1}
Working == {w \in Crew : crew[w].seed # NoSeed}

CountInv ==
    /\ \A s \in Seeds : pending[s] = submitted[s] + Cardinality(Busy(s))
    /\ IsFiniteSet(Waiting) /\ depth = Cardinality(Waiting) + Cardinality(Working)

\* Which threads are at work in which phase of the process.
PhaseInv ==
    /\ mode # "loading" => unread = {}
    /\ mode = "loading" => \A s \in unread : s \in registry => Found(s)
    /\ mode \notin {"up", "joining"} => batch.left = 0 /\ \A h \in Finders : hunting[h] = NoSeed
    /\ mode = "down" =>
          /\ \A s \in Seeds : submitted[s] = 0 /\ ~Found(s)
          /\ flush = NoFlush /\ \A w \in Crew : crew[w].at = "idle"
    /\ flush.at = "none" => flush = NoFlush

\* When the last flush has written a log, or read the pending seeds, there is
\* nobody left to make it incomplete.
StopInv ==
    flush.by = "stop" /\ flush.at # "none" =>
        /\ mode = "draining" /\ \A w \in Crew : crew[w].at = "idle"
        /\ flush.at # "found" => persisted["found"] = Len(ledger["found"])
        /\ flush.at \in {"open", "close"} => Waiting \subseteq flush.seeds

\* The seeds that are about to be enqueued or are still worked on, and what is
\* left of main's batch, leave room in the queue for one retry of each worker; so
\* do the seeds of the queue file.
Unsettled == {s \in Seeds : Waits(s) \/ Busy(s) # {} \/ Scouted(s) \/ s \in unread}
Fit(S, n) == IsFiniteSet(S) /\ n \in Nat /\ (S # {} \/ n # 0 => Cardinality(S) + n + Cpus <= QueueCap)
RoomInv ==
    /\ Fit(Unsettled, InBatch(batch, hunting["main"])) /\ Fit(queueFile, 0) /\ Fit(flush.seeds, 0)
    /\ ~turnedAway

\* No job that was accepted is forgotten.
KeptInv ==
    IF mode = "down" THEN accepted \subseteq OnDisk(jsonl, queueFile)
    ELSE \A s \in accepted : s \in unread \/ Found(s) \/ Waits(s) \/ Runs(s)

TrackerInv ==
    /\ TrackerTypes /\ LogInv /\ JobInv /\ CountInv /\ PhaseInv /\ StopInv /\ KeptInv
    /\ RoomForRetries => RoomInv

-----------------------------------------------------------------------------
(* What the steps do to the ledgers, the queue and the workers. *)

\* A ledger grows by one record.
LEMMA LedgerGrows ==
    ASSUME TrackerTypes, NEW k \in Ledgers, NEW s \in Seeds, ledger' = Recorded(k, s)
    PROVE  /\ ledger' \in [Ledgers -> Seq(Seeds)]
           /\ \A j \in Ledgers \ {k} : ledger'[j] = ledger[j]
           /\ Len(ledger'[k]) = Len(ledger[k]) + 1
           /\ \A p \in 0 .. Len(ledger[k]) :
                 SubSeq(ledger'[k], 1, p) = SubSeq(ledger[k], 1, p)
           /\ k = "found" => /\ \A c \in Seeds : Found(c)' <=> Found(c) \/ c = s
                             /\ ~Found(s) /\ IsInjective(ledger["found"])
                                    => IsInjective(ledger'["found"])
<1>1. ledger \in [Ledgers -> Seq(Seeds)] /\ ledger[k] \in Seq(Seeds)
  BY DEF TrackerTypes
<1> DEFINE a == Append(ledger[k], s)
<1>2. /\ a \in Seq(Seeds) /\ Len(a) = Len(ledger[k]) + 1 /\ Len(ledger[k]) \in Nat
      /\ DOMAIN a = 1 .. Len(ledger[k]) + 1 /\ DOMAIN ledger[k] = 1 .. Len(ledger[k])
      /\ \A i \in 1 .. Len(ledger[k]) : a[i] = ledger[k][i]
      /\ a[Len(ledger[k]) + 1] = s
  BY <1>1
<1>3. \A p \in 0 .. Len(ledger[k]) : SubSeq(a, 1, p) = SubSeq(ledger[k], 1, p)
  <2> SUFFICES ASSUME NEW p \in 0 .. Len(ledger[k])
               PROVE  SubSeq(a, 1, p) = SubSeq(ledger[k], 1, p)
    OBVIOUS
  <2>1. 0 \in 0 .. Len(ledger[k]) - p
    BY <1>2
  <2> QED
    BY <1>1, <2>1, Parts
<1>4. ~(\E i \in DOMAIN ledger[k] : ledger[k][i] = s) /\ IsInjective(ledger[k]) => IsInjective(a)
  BY <1>1, OneMore
<1>5. ledger' = [ledger EXCEPT ![k] = a]
  BY DEF Recorded
<1> HIDE DEF a
<1>6. /\ ledger' \in [Ledgers -> Seq(Seeds)] /\ ledger'[k] = a
      /\ \A j \in Ledgers \ {k} : ledger'[j] = ledger[j]
  <2>1. PICK S : S = Seq(Seeds)
    OBVIOUS
  <2>2. ledger \in [Ledgers -> S] /\ a \in S
    BY <1>1, <1>2, <2>1
  <2> QED
    BY <1>5, <2>1, <2>2, Zenon
<1>7. k = "found" => \A c \in Seeds : Found(c)' <=> Found(c) \/ c = s
  BY <1>2, <1>6 DEF Found
<1>8. k = "found" => (~Found(s) /\ IsInjective(ledger["found"]) => IsInjective(ledger'["found"]))
  BY <1>4, <1>6 DEF Found
<1> QED
  BY <1>2, <1>3, <1>6, <1>7, <1>8

\* A log that is written, wholly or in part.
LEMMA LogGrows ==
    ASSUME TrackerTypes, LogInv, mode # "down", NEW k \in Ledgers,
           NEW n \in 0 .. Len(Unpersisted(k)), NEW log,
           log = jsonl[k] \o SubSeq(Unpersisted(k), 1, n)
    PROVE  /\ log \in Seq(Seeds) /\ persisted[k] + n \in 0 .. Len(ledger[k])
           /\ log = SubSeq(ledger[k], 1, persisted[k] + n)
           /\ k = "found" => IsInjective(log)
           /\ Len(Unpersisted(k)) = Len(ledger[k]) - persisted[k]
<1>0. PICK s, p : s = ledger[k] /\ p = persisted[k]
  OBVIOUS
<1>1. s \in Seq(Seeds) /\ p \in 0 .. Len(s) /\ jsonl[k] = SubSeq(s, 1, p) /\ Len(s) \in Nat
  <2>1. s \in Seq(Seeds) /\ p \in Nat
    BY <1>0 DEF TrackerTypes
  <2>2. p <= Len(s) /\ jsonl[k] = SubSeq(s, 1, p)
    BY <1>0 DEF LogInv
  <2> QED
    BY <2>1, <2>2
<1>2. Unpersisted(k) = SubSeq(s, p + 1, Len(s)) /\ Len(Unpersisted(k)) = Len(s) - p
  BY <1>0, <1>1 DEF Unpersisted
<1>3. n \in 0 .. Len(s) - p /\ p + n \in 0 .. Len(s)
  BY <1>1, <1>2
<1>4. log = SubSeq(s, 1, p + n)
  <2>1. log = SubSeq(s, 1, p) \o SubSeq(SubSeq(s, p + 1, Len(s)), 1, n)
    BY <1>1, <1>2, Zenon
  <2>2. SubSeq(s, 1, p) \o SubSeq(SubSeq(s, p + 1, Len(s)), 1, n) = SubSeq(s, 1, p + n)
    BY <1>1, <1>3, PartGrows
  <2> QED
    BY <2>1, <2>2
<1>5. log \in Seq(Seeds)
  BY <1>1, <1>3, <1>4, PartGrows
<1>6. k = "found" => IsInjective(log)
  <2>1. k = "found" => IsInjective(s)
    BY <1>0 DEF LogInv
  <2> QED
    BY <1>1, <1>3, <1>4, <2>1, PartInjective
<1> QED
  BY <1>0, <1>1, <1>2, <1>3, <1>4, <1>5, <1>6

\* enqueue_job, for a seed that no job waits for.
LEMMA JobEnqueued ==
    ASSUME TrackerTypes, CountInv, NEW s \in Seeds, ~Waits(s), Enqueue(s)
    PROVE  /\ pending' \in [Seeds -> Int] /\ submitted' \in [Seeds -> {0, 1}] /\ depth' \in Int
           /\ accepted' = accepted \union {s} /\ turnedAway' = turnedAway
           /\ \A c \in Seeds : Waits(c)' <=> Waits(c) \/ c = s
           /\ (\A c \in Seeds : Busy(c)' = Busy(c)) /\ Working' = Working => CountInv'
<1>1. /\ pending \in [Seeds -> Int] /\ submitted \in [Seeds -> {0, 1}] /\ depth \in Int
      /\ pending' = [pending EXCEPT ![s] = @ + 1] /\ submitted' = [submitted EXCEPT ![s] = @ + 1]
      /\ depth' = depth + 1 /\ submitted[s] = 0 /\ accepted' = accepted \union {s}
      /\ turnedAway' = turnedAway
  BY DEF TrackerTypes, Enqueue, Waits
<1>2. /\ pending' \in [Seeds -> Int] /\ submitted' \in [Seeds -> {0, 1}] /\ depth' \in Int
      /\ submitted'[s] = 1 /\ pending'[s] = pending[s] + 1
      /\ \A c \in Seeds : c # s => submitted'[c] = submitted[c] /\ pending'[c] = pending[c]
  BY <1>1
<1>3. \A c \in Seeds : Waits(c)' <=> Waits(c) \/ c = s
  BY <1>2 DEF Waits
<1>4. Waiting' = Waiting \union {s} /\ s \notin Waiting
  BY <1>1, <1>2 DEF Waiting
<1>5. IsFiniteSet(Waiting') /\ Cardinality(Waiting') = Cardinality(Waiting) + 1
      /\ Cardinality(Waiting) \in Nat
  BY <1>4, FS_AddElement, FS_CardinalityType DEF CountInv
<1>6. Cardinality(Working) \in Nat /\ \A c \in Seeds : Cardinality(Busy(c)) \in Nat
  <2>1. Working \subseteq Crew /\ \A c \in Seeds : Busy(c) \subseteq Crew
    BY DEF Working, Busy
  <2> QED
    BY <2>1, TrackerAssumption, FS_Subset, FS_CardinalityType
<1>7. ASSUME \A c \in Seeds : Busy(c)' = Busy(c), Working' = Working PROVE CountInv'
  <2>1. \A c \in Seeds : pending'[c] = submitted'[c] + Cardinality(Busy(c)')
    BY <1>1, <1>2, <1>6, <1>7 DEF CountInv
  <2>2. depth' = Cardinality(Waiting') + Cardinality(Working')
    BY <1>1, <1>5, <1>6, <1>7 DEF CountInv
  <2> QED
    BY <1>5, <2>1, <2>2 DEF CountInv
<1> QED
  BY <1>1, <1>2, <1>3, <1>7

\* A worker goes to its next stage.
LEMMA CrewMoves ==
    ASSUME TrackerTypes, NEW w \in Crew,
           NEW to \in {"idle", "run", "track", "recorded", "flushed"},
           NEW s \in Seeds \union {NoSeed}, to = "idle" <=> s = NoSeed,
           crew' = [crew EXCEPT ![w] = [at |-> to, seed |-> s]]
    PROVE  /\ crew' \in [Crew -> [at : {"idle", "run", "track", "recorded", "flushed"},
                                  seed : Seeds \union {NoSeed}]]
           /\ \A v \in Crew : crew'[v].at = "idle" <=> crew'[v].seed = NoSeed
           /\ crew'[w].at = to /\ crew'[w].seed = s
           /\ \A v \in Crew : v # w => crew'[v] = crew[v]
  BY DEF TrackerTypes

\* One that keeps its seed is counted as before.
LEMMA CrewStays ==
    ASSUME NEW w \in Crew, crew'[w].seed = crew[w].seed,
           \A v \in Crew : v # w => crew'[v] = crew[v]
    PROVE  (\A c \in Seeds : Busy(c)' = Busy(c)) /\ Working' = Working
<1>1. \A v \in Crew : crew'[v].seed = crew[v].seed
  OBVIOUS
<1> QED
  BY <1>1 DEF Busy, Working

\* Scouts and workers are counted as long as they are finitely many.
LEMMA CrewCounted ==
    /\ IsFiniteSet(Working) /\ Cardinality(Working) \in 0 .. Cardinality(Crew)
    /\ Cardinality(Crew) \in Nat
    /\ \A s : IsFiniteSet(Busy(s)) /\ Cardinality(Busy(s)) \in Nat
<1>1. Working \subseteq Crew /\ \A s : Busy(s) \subseteq Crew
  BY DEF Working, Busy
<1>2. IsFiniteSet(Crew) /\ Cardinality(Crew) \in Nat
  BY TrackerAssumption, FS_CardinalityType
<1>3. \A S : S \subseteq Crew => /\ IsFiniteSet(S) /\ Cardinality(S) \in Nat
                                 /\ Cardinality(S) <= Cardinality(Crew)
  BY <1>2, FS_Subset, FS_CardinalityType
<1> QED
  BY <1>1, <1>2, <1>3

LEMMA FitsSmaller ==
    ASSUME NEW S, NEW T, NEW n, Fit(S, n), T \subseteq S
    PROVE  Fit(T, n) /\ Fit(T, 0)
<1>1. IsFiniteSet(S) /\ IsFiniteSet(T) /\ Cardinality(T) <= Cardinality(S)
      /\ Cardinality(S) \in Nat /\ Cardinality(T) \in Nat
  BY FS_Subset, FS_CardinalityType DEF Fit
<1>2. Cpus \in Nat /\ QueueCap \in Nat /\ n \in Nat
  BY CrewCounted, TrackerAssumption DEF Fit, Cpus
<1>3. T # {} => S # {}
  OBVIOUS
<1>4. S # {} \/ n # 0 => Cardinality(S) + n + Cpus <= QueueCap
  BY DEF Fit
<1> QED
  BY <1>1, <1>2, <1>3, <1>4 DEF Fit

LEMMA FitsNone == Fit({}, 0)
  BY FS_EmptySet DEF Fit

\* Steps that leave the work alone.
LEMMA SameWork ==
    ASSUME UNCHANGED <<ledger, submitted, hunting, unread, crew>>
    PROVE  /\ \A c \in Seeds : /\ Found(c)' <=> Found(c)
                               /\ Waits(c)' <=> Waits(c)
                               /\ Runs(c)' <=> Runs(c)
                               /\ Hunted(c)' <=> Hunted(c)
                               /\ Scouted(c)' <=> Scouted(c)
                               /\ Busy(c)' = Busy(c)
           /\ RunsOnce' = RunsOnce /\ HuntsOnce' = HuntsOnce
           /\ Waiting' = Waiting /\ Working' = Working /\ Unsettled' = Unsettled
<1>1. \A c \in Seeds : (Found(c)' <=> Found(c)) /\ (Waits(c)' <=> Waits(c))
  BY DEF Found, Waits
<1>2. \A c \in Seeds : (Runs(c)' <=> Runs(c)) /\ (Hunted(c)' <=> Hunted(c)) /\ (Scouted(c)' <=> Scouted(c)) /\ Busy(c)' = Busy(c)
  BY DEF Runs, Hunted, Scouted, Busy
<1>3. RunsOnce' = RunsOnce /\ HuntsOnce' = HuntsOnce
  BY DEF RunsOnce, HuntsOnce
<1>4. Waiting' = Waiting /\ Working' = Working
  BY DEF Waiting, Working
<1>5. Unsettled' = Unsettled
  BY <1>1, <1>2 DEF Unsettled
<1> QED
  BY <1>1, <1>2, <1>3, <1>4, <1>5

LEMMA SameJobs ==
    ASSUME TrackerInv, UNCHANGED <<ledger, submitted, hunting, unread, crew, registry, pending, depth>>
    PROVE  JobInv' /\ CountInv'
<1>1. JobInv'
  BY SameWork DEF TrackerInv, JobInv
<1>2. CountInv'
  BY SameWork DEF TrackerInv, CountInv
<1> QED
  BY <1>1, <1>2

\* The process goes on to its next phase.
LEMMA PhaseKeeps ==
    ASSUME TrackerInv, LoadingDone \/ StopSignal \/ ScoutsJoined
    PROVE  TrackerInv'
<1>0. UNCHANGED <<logVars, queueFile, registry, queueCopies, unread, hunting, crew, batch, flush, accepted, turnedAway>>
  BY DEF LoadingDone, StopSignal, ScoutsJoined, GoesTo, promises
<1>m. /\ mode \in {"loading", "up", "joining"} /\ mode' \in {"up", "joining", "draining"}
      /\ mode = "loading" => unread = {}
      /\ mode' = "up" => mode = "loading"
      /\ mode' = "draining" => batch.left = 0 /\ \A h \in Finders : hunting[h] = NoSeed
  BY DEF LoadingDone, StopSignal, ScoutsJoined, GoesTo, Rests, Finders
<1>1. TrackerTypes'
  BY <1>0, <1>m DEF TrackerInv, TrackerTypes, logVars, queueCopies, promises
<1>2. LogInv'
  BY <1>0, <1>m DEF TrackerInv, LogInv, logVars, promises
<1>3. JobInv' /\ CountInv'
  BY <1>0, SameJobs DEF logVars, queueCopies, promises
<1>4. PhaseInv'
  <2>1. mode' # "loading" /\ mode' # "down" /\ unread' = {}
    BY <1>0, <1>m DEF TrackerInv, PhaseInv
  <2>2. mode' \notin {"up", "joining"} => batch'.left = 0 /\ \A h \in Finders : hunting'[h] = NoSeed
    BY <1>0, <1>m DEF promises
  <2> QED
    BY <1>0, <2>1, <2>2 DEF TrackerInv, PhaseInv
<1>5. StopInv'
  BY <1>0, <1>m DEF TrackerInv, StopInv
<1>6. KeptInv' /\ (RoomForRetries => RoomInv')
  <2>1. Unsettled' = Unsettled
    BY <1>0, SameWork DEF logVars, queueCopies, promises
  <2>2. RoomForRetries => RoomInv'
    BY <1>0, <2>1 DEF TrackerInv, RoomInv, Fit
  <2>3. KeptInv'
    BY <1>0, <1>m, SameWork DEF TrackerInv, KeptInv, logVars, queueCopies, TrackerTypes
  <2> QED
    BY <2>2, <2>3
<1> QED
  BY <1>1, <1>2, <1>3, <1>4, <1>5, <1>6 DEF TrackerInv

\* A worker that goes from one stage behind its run to the next.
LEMMA StageEnds ==
    ASSUME TrackerTypes, NEW w \in Crew, NEW to \in {"recorded", "flushed"},
           Proceed(w, {"track", "recorded"}, to, crew[w].seed)
    PROVE  /\ crew' \in [Crew -> [at : {"idle", "run", "track", "recorded", "flushed"},
                                  seed : Seeds \union {NoSeed}]]
           /\ \A v \in Crew : crew'[v].at = "idle" <=> crew'[v].seed = NoSeed
           /\ \A c \in Seeds : (Runs(c)' <=> Runs(c)) /\ Busy(c)' = Busy(c)
           /\ (RunsOnce => RunsOnce') /\ Working' = Working
           /\ crew[w].at # "idle" /\ crew[w].seed \in Seeds
<1>1. /\ crew[w].at \in {"track", "recorded"} /\ crew[w].seed \in Seeds
      /\ crew' = [crew EXCEPT ![w] = [at |-> to, seed |-> crew[w].seed]]
  BY DEF Proceed, TrackerTypes
<1>2. NoSeed \notin Seeds
  BY TrackerAssumption
<1>3. /\ crew' \in [Crew -> [at : {"idle", "run", "track", "recorded", "flushed"},
                             seed : Seeds \union {NoSeed}]]
      /\ \A v \in Crew : crew'[v].at = "idle" <=> crew'[v].seed = NoSeed
      /\ crew'[w].at = to /\ crew'[w].seed = crew[w].seed
      /\ \A v \in Crew : v # w => crew'[v] = crew[v]
  BY <1>1, <1>2, CrewMoves
<1>4. (\A c \in Seeds : Busy(c)' = Busy(c)) /\ Working' = Working
  BY <1>3, CrewStays
<1>5. \A v \in Crew : crew'[v].at = "run" <=> crew[v].at = "run"
  BY <1>1, <1>3
<1>6. \A v \in Crew : crew'[v].seed = crew[v].seed
  BY <1>3
<1>7. (\A c \in Seeds : Runs(c)' <=> Runs(c)) /\ (RunsOnce => RunsOnce')
  BY <1>5, <1>6 DEF Runs, RunsOnce
<1> QED
  BY <1>1, <1>3, <1>4, <1>7

\* Somebody starts to write: a worker that has recorded its job, a scout
\* between two hunts, or the last flush when everybody is gone.
LEMMA FlushStarts ==
    ASSUME TrackerInv, NEW a \in Finders \union Crew \union {"stop"}, FlushStart(a),
           \/ a \in Crew /\ Proceed(a, {"recorded"}, "flushed", crew[a].seed)
           \/ a \in Finders /\ mode \in {"up", "joining"} /\ UNCHANGED crew
           \/ /\ a = "stop" /\ mode = "draining" /\ crew = [w \in Crew |-> AtRest]
              /\ UNCHANGED crew
    PROVE  TrackerInv'
<1>0. /\ UNCHANGED <<jsonl, ledger, persisted, mode, boots, queueFile, registry, pending, depth,
                     submitted, unread, hunting, batch, accepted, turnedAway>>
      /\ flush = NoFlush /\ flush' = [by |-> a, at |-> "found", seeds |-> {}]
  BY DEF FlushStart, logVars, lifeVars, queueCopies, promises
<1>1. /\ crew' \in [Crew -> [at : {"idle", "run", "track", "recorded", "flushed"},
                             seed : Seeds \union {NoSeed}]]
      /\ \A v \in Crew : crew'[v].at = "idle" <=> crew'[v].seed = NoSeed
      /\ \A c \in Seeds : (Runs(c)' <=> Runs(c)) /\ Busy(c)' = Busy(c)
      /\ (RunsOnce => RunsOnce') /\ Working' = Working
      /\ mode # "down"
  <2>1. CASE a \in Crew /\ Proceed(a, {"recorded"}, "flushed", crew[a].seed)
    <3>1. Proceed(a, {"track", "recorded"}, "flushed", crew[a].seed) /\ crew[a].at # "idle"
      BY <2>1 DEF Proceed
    <3>2. mode # "down"
      BY <2>1, <3>1 DEF TrackerInv, PhaseInv
    <3> QED
      BY <2>1, <3>1, <3>2, StageEnds DEF TrackerInv
  <2>2. CASE UNCHANGED crew /\ mode # "down"
    BY <1>0, <2>2, SameWork DEF TrackerInv, TrackerTypes
  <2> QED
    BY <2>1, <2>2
<1>2. \A c \in Seeds : (Found(c)' <=> Found(c)) /\ (Waits(c)' <=> Waits(c)) /\ (Hunted(c)' <=> Hunted(c)) /\ (Scouted(c)' <=> Scouted(c))
  BY <1>0 DEF Found, Waits, Hunted, Scouted
<1>3. TrackerTypes'
  <2>1. flush' \in [by : Finders \union Crew \union {"stop"}, at : Moments, seeds : SUBSET Seeds]
    BY <1>0 DEF Moments, Ledgers
  <2> QED
    BY <1>0, <1>1, <2>1 DEF TrackerInv, TrackerTypes
<1>4. LogInv'
  BY <1>0 DEF TrackerInv, LogInv
<1>5. JobInv'
  <2>1. HuntsOnce'
    BY <1>0 DEF TrackerInv, JobInv, HuntsOnce
  <2> QED
    BY <1>0, <1>1, <1>2, <2>1 DEF TrackerInv, JobInv
<1>6. CountInv'
  <2>1. Waiting' = Waiting
    BY <1>0 DEF Waiting
  <2> QED
    BY <1>0, <1>1, <2>1 DEF TrackerInv, CountInv
<1>7. PhaseInv'
  <2>1. flush'.at # "none"
    BY <1>0
  <2>2. unread \subseteq Seeds
    BY DEF TrackerInv, TrackerTypes
  <2> QED
    BY <1>0, <1>1, <1>2, <2>1, <2>2 DEF TrackerInv, PhaseInv
<1>8. StopInv'
  <2>1. flush'.at = "found" /\ (flush'.by = "stop" => a = "stop")
    BY <1>0
  <2>2. a = "stop" => mode = "draining" /\ \A w \in Crew : crew'[w].at = "idle"
    BY TrackerAssumption DEF AtRest, Finders
  <2> QED
    BY <1>0, <2>1, <2>2 DEF StopInv
<1>9. KeptInv' /\ (RoomForRetries => RoomInv')
  <2>1. Unsettled' = Unsettled
    BY <1>0, <1>1, <1>2 DEF Unsettled
  <2>2. flush'.seeds = {}
    BY <1>0
  <2>3. RoomForRetries => RoomInv'
    BY <1>0, <2>1, <2>2, FitsNone DEF TrackerInv, RoomInv, Fit
  <2>4. KeptInv'
    BY <1>0, <1>1, <1>2 DEF TrackerInv, KeptInv, TrackerTypes
  <2> QED
    BY <2>3, <2>4
<1> QED
  BY <1>3, <1>4, <1>5, <1>6, <1>7, <1>8, <1>9 DEF TrackerInv

\* A log is written, or cannot be opened.
LEMMA PersistKeeps ==
    ASSUME TrackerInv, PersistLog
    PROVE  TrackerInv'
<1> DEFINE k == flush.at
<1>0. /\ k \in Ledgers /\ flush' = [flush EXCEPT !.at = After(k)]
      /\ UNCHANGED <<ledger, mode, boots, queueFile, registry, pending, depth, submitted, unread,
                     hunting, crew, batch, accepted, turnedAway>>
  BY DEF PersistLog, lifeVars, queueCopies, promises
<1>d. mode # "down" /\ flush # NoFlush
  BY <1>0 DEF TrackerInv, PhaseInv, NoFlush, Ledgers
<1>1. PICK opens \in Opens :
         /\ jsonl' = IF opens THEN [jsonl EXCEPT ![k] = @ \o Unpersisted(k)] ELSE jsonl
         /\ persisted' = IF opens THEN [persisted EXCEPT ![k] = Len(ledger[k])] ELSE persisted
  BY DEF PersistLog
<1>2. /\ jsonl \in [Ledgers -> Seq(Seeds)] /\ ledger \in [Ledgers -> Seq(Seeds)]
      /\ persisted \in [Ledgers -> Nat] /\ persisted[k] <= Len(ledger[k])
      /\ \A j \in Ledgers : persisted[j] <= Len(ledger[j])
                            /\ jsonl[j] = SubSeq(ledger[j], 1, persisted[j])
      /\ ledger[k] \in Seq(Seeds) /\ Len(ledger[k]) \in Nat /\ persisted[k] \in Nat
      /\ IsInjective(jsonl["found"])
  BY <1>0, <1>d DEF TrackerInv, TrackerTypes, LogInv
<1>3. PICK log : /\ log = jsonl[k] \o Unpersisted(k) /\ log \in Seq(Seeds)
                 /\ log = SubSeq(ledger[k], 1, Len(ledger[k]))
                 /\ k = "found" => IsInjective(log)
  <2>1. Len(Unpersisted(k)) = Len(ledger[k]) - persisted[k] /\ Unpersisted(k) \in Seq(Seeds)
    <3>1. persisted[k] \in 0 .. Len(ledger[k])
      BY <1>2
    <3> QED
      BY <1>2, <3>1, RestOf DEF Unpersisted
  <2>2. PICK u : u = Unpersisted(k)
    OBVIOUS
  <2>3. SubSeq(u, 1, Len(u)) = u /\ Len(u) \in 0 .. Len(u) /\ Len(u) = Len(ledger[k]) - persisted[k]
    BY <1>2, <2>1, <2>2
  <2>4. PICK n : n = Len(u)
    OBVIOUS
  <2>5. n \in 0 .. Len(Unpersisted(k))
    BY <2>2, <2>3, <2>4
  <2>6. PICK log : log = jsonl[k] \o SubSeq(Unpersisted(k), 1, n)
    OBVIOUS
  <2>7. /\ log \in Seq(Seeds) /\ log = SubSeq(ledger[k], 1, persisted[k] + n)
        /\ k = "found" => IsInjective(log)
    BY <1>0, <1>d, <2>5, <2>6, LogGrows DEF TrackerInv
  <2>8. persisted[k] + n = Len(ledger[k])
    BY <1>2, <2>3, <2>4
  <2>9. log = jsonl[k] \o Unpersisted(k)
    BY <2>2, <2>3, <2>4, <2>6
  <2> QED
    BY <2>7, <2>8, <2>9
<1>4. /\ jsonl' \in [Ledgers -> Seq(Seeds)] /\ persisted' \in [Ledgers -> Nat]
      /\ \A j \in Ledgers : persisted'[j] <= Len(ledger[j])
                            /\ jsonl'[j] = SubSeq(ledger[j], 1, persisted'[j])
      /\ IsInjective(jsonl'["found"])
  <2>1. CASE opens
    <3>1. jsonl' = [jsonl EXCEPT ![k] = log] /\ persisted' = [persisted EXCEPT ![k] = Len(ledger[k])]
      BY <1>1, <1>3, <2>1
    <3>2. \A j \in Ledgers : j # k => jsonl'[j] = jsonl[j] /\ persisted'[j] = persisted[j]
      BY <1>2, <3>1
    <3>3. jsonl'[k] = log /\ persisted'[k] = Len(ledger[k])
      BY <1>0, <1>2, <3>1
    <3>4. jsonl' \in [Ledgers -> Seq(Seeds)] /\ persisted' \in [Ledgers -> Nat]
      BY <1>2, <1>3, <3>1
    <3>5. IsInjective(jsonl'["found"])
      BY <1>2, <1>3, <3>2, <3>3 DEF Ledgers
    <3> HIDE DEF k
    <3>6. \A j \in Ledgers : persisted'[j] <= Len(ledger[j])
                             /\ jsonl'[j] = SubSeq(ledger[j], 1, persisted'[j])
      <4>1. Len(ledger[k]) <= Len(ledger[k]) /\ jsonl'[k] = SubSeq(ledger[k], 1, persisted'[k])
        BY <1>2, <1>3, <3>3
      <4>2. \A j \in Ledgers : j # k => persisted'[j] <= Len(ledger[j])
                                       /\ jsonl'[j] = SubSeq(ledger[j], 1, persisted'[j])
        BY <1>2, <3>2
      <4> QED
        BY <3>3, <4>1, <4>2
    <3> QED
      BY <3>4, <3>5, <3>6
  <2>2. CASE ~opens
    BY <1>1, <1>2, <2>2
  <2> QED
    BY <2>1, <2>2
<1>5. flush'.at \in {"jump", "track", "queue"} /\ flush'.by = flush.by /\ flush'.seeds = flush.seeds
      /\ flush' \in [by : Finders \union Crew \union {"stop"}, at : Moments, seeds : SUBSET Seeds]
  BY <1>0 DEF TrackerInv, TrackerTypes, Moments, After, Ledgers
<1>6. TrackerTypes'
  BY <1>0, <1>4, <1>5 DEF TrackerInv, TrackerTypes
<1>7. LogInv'
  BY <1>0, <1>4 DEF TrackerInv, LogInv
<1>8. JobInv' /\ CountInv'
  BY <1>0, SameJobs
<1>9. PhaseInv'
  <2>1. unread \subseteq Seeds
    BY DEF TrackerInv, TrackerTypes
  <2> QED
    BY <1>0, <1>d, <1>5, <2>1, SameWork DEF TrackerInv, PhaseInv
<1>10. StopInv'
  <2> SUFFICES ASSUME flush.by = "stop"
               PROVE  /\ mode = "draining" /\ \A w \in Crew : crew[w].at = "idle"
                      /\ persisted'["found"] = Len(ledger["found"])
    BY <1>0, <1>5 DEF StopInv
  <2>1. /\ mode = "draining" /\ \A w \in Crew : crew[w].at = "idle"
        /\ k # "found" => persisted["found"] = Len(ledger["found"])
    BY <1>0 DEF TrackerInv, StopInv, Ledgers
  <2>2. opens
    BY <1>1 DEF Opens
  <2>3. persisted'["found"] = Len(ledger["found"])
    BY <1>0, <1>1, <1>2, <2>1, <2>2 DEF Ledgers
  <2> QED
    BY <2>1, <2>3
<1>11. KeptInv' /\ (RoomForRetries => RoomInv')
  <2>1. Unsettled' = Unsettled
    BY <1>0, SameWork
  <2>2. RoomForRetries => RoomInv'
    BY <1>0, <1>5, <2>1 DEF TrackerInv, RoomInv, Fit
  <2>3. KeptInv'
    BY <1>0, <1>d, SameWork DEF TrackerInv, KeptInv, TrackerTypes
  <2> QED
    BY <2>2, <2>3
<1> QED
  BY <1>6, <1>7, <1>8, <1>9, <1>10, <1>11 DEF TrackerInv

\* A seed is pending as long as a job of it waits or is not settled.
LEMMA PendingSeeds ==
    ASSUME TrackerTypes, CountInv
    PROVE  Pending = {s \in Seeds : Waits(s) \/ Busy(s) # {}}
<1> SUFFICES ASSUME NEW s \in Seeds PROVE pending[s] > 0 <=> Waits(s) \/ Busy(s) # {}
  BY DEF Pending
<1>1. pending[s] = submitted[s] + Cardinality(Busy(s)) /\ submitted[s] \in {0, 1}
  BY DEF TrackerTypes, CountInv
<1>2. IsFiniteSet(Busy(s)) /\ Cardinality(Busy(s)) \in Nat
  BY CrewCounted
<1>3. Busy(s) # {} <=> Cardinality(Busy(s)) # 0
  BY <1>2, FS_EmptySet
<1> QED
  BY <1>1, <1>2, <1>3 DEF Waits

\* The pending seeds are read.
LEMMA SnapshotKeeps ==
    ASSUME TrackerInv, SnapshotPending
    PROVE  TrackerInv'
<1>0. /\ flush.at = "queue" /\ flush' = [flush EXCEPT !.at = "open", !.seeds = Pending]
      /\ UNCHANGED <<jsonl, ledger, persisted, mode, boots, queueFile, registry, pending, depth,
                     submitted, unread, hunting, crew, batch, accepted, turnedAway>>
  BY DEF SnapshotPending, logVars, lifeVars, queueCopies, promises
<1>1. Pending = {s \in Seeds : Waits(s) \/ Busy(s) # {}}
  BY PendingSeeds DEF TrackerInv
<1>d. mode # "down"
  BY <1>0 DEF TrackerInv, PhaseInv, NoFlush
<1>2. /\ flush'.at = "open" /\ flush'.by = flush.by /\ flush'.seeds = Pending
      /\ flush' \in [by : Finders \union Crew \union {"stop"}, at : Moments, seeds : SUBSET Seeds]
  BY <1>0, <1>1 DEF TrackerInv, TrackerTypes, Moments
<1>3. TrackerTypes' /\ LogInv'
  <2>1. TrackerTypes'
    BY <1>0, <1>2 DEF TrackerInv, TrackerTypes
  <2>2. LogInv'
    BY <1>0 DEF TrackerInv, LogInv
  <2> QED
    BY <2>1, <2>2
<1>4. JobInv' /\ CountInv'
  BY <1>0, SameJobs
<1>5. PhaseInv'
  <2>1. unread \subseteq Seeds
    BY DEF TrackerInv, TrackerTypes
  <2> QED
    BY <1>0, <1>d, <1>2, <2>1, SameWork DEF TrackerInv, PhaseInv
<1>6. StopInv'
  <2>1. Waiting' \subseteq flush'.seeds
    BY <1>0, <1>1, <1>2 DEF Waiting, Waits
  <2> QED
    BY <1>0, <1>2, <2>1 DEF TrackerInv, StopInv
<1>7. KeptInv' /\ (RoomForRetries => RoomInv')
  <2>1. Unsettled' = Unsettled
    BY <1>0, SameWork
  <2>2. Pending \subseteq Unsettled
    BY <1>1 DEF Unsettled
  <2>3. RoomForRetries => Fit(Pending, 0)
    BY <2>2, FitsSmaller DEF TrackerInv, RoomInv
  <2>4. RoomForRetries => RoomInv'
    BY <1>0, <1>2, <2>1, <2>3 DEF TrackerInv, RoomInv, Fit
  <2>5. KeptInv'
    BY <1>0, <1>d, SameWork DEF TrackerInv, KeptInv, TrackerTypes
  <2> QED
    BY <2>4, <2>5
<1> QED
  BY <1>3, <1>4, <1>5, <1>6, <1>7 DEF TrackerInv

\* The queue file is cut and is being written, or is written whole while the
\* process goes on.
LEMMA QueueFileKeeps ==
    ASSUME TrackerInv, mode # "down", queueFile' \subseteq queueFile \/ queueFile' \subseteq flush.seeds,
           flush' = NoFlush \/ (flush.at = "open" /\ flush' = [flush EXCEPT !.at = "close"]),
           UNCHANGED <<jsonl, ledger, persisted, mode, boots, registry, pending, depth,
                       submitted, unread, hunting, crew, batch, accepted, turnedAway>>
    PROVE  TrackerInv'
<1>1. /\ flush'.at \in {"none", "close"} /\ (flush'.at = "none" => flush' = NoFlush)
      /\ flush' # NoFlush => flush.at = "open" /\ flush'.by = flush.by /\ flush'.seeds = flush.seeds
      /\ flush' \in [by : Finders \union Crew \union {"stop"}, at : Moments, seeds : SUBSET Seeds]
      /\ queueFile' \subseteq Seeds
  <2>1. CASE flush' = NoFlush
    BY <2>1 DEF TrackerInv, TrackerTypes, Moments, NoFlush
  <2>2. CASE flush.at = "open" /\ flush' = [flush EXCEPT !.at = "close"]
    BY <2>2 DEF TrackerInv, TrackerTypes, Moments, NoFlush
  <2> QED
    BY <2>1, <2>2
<1>2. TrackerTypes' /\ LogInv'
  <2>1. TrackerTypes'
    BY <1>1 DEF TrackerInv, TrackerTypes
  <2>2. LogInv'
    BY DEF TrackerInv, LogInv
  <2> QED
    BY <2>1, <2>2
<1>3. JobInv' /\ CountInv'
  BY SameJobs
<1>4. PhaseInv'
  <2>1. unread \subseteq Seeds
    BY DEF TrackerInv, TrackerTypes
  <2> QED
    BY <1>1, <2>1, SameWork DEF TrackerInv, PhaseInv
<1>5. StopInv'
  <2>1. Waiting' = Waiting
    BY SameWork
  <2> QED
    BY <1>1, <2>1 DEF TrackerInv, StopInv, NoFlush
<1>6. KeptInv' /\ (RoomForRetries => RoomInv')
  <2>1. Unsettled' = Unsettled
    BY SameWork
  <2>2. RoomForRetries => Fit(queueFile', 0)
    BY FitsSmaller DEF TrackerInv, RoomInv
  <2>3. flush'.seeds \in {{}, flush.seeds}
    BY <1>1 DEF NoFlush
  <2>4. RoomForRetries => RoomInv'
    BY <2>1, <2>2, <2>3, FitsNone DEF TrackerInv, RoomInv, Fit
  <2>5. KeptInv'
    BY SameWork DEF TrackerInv, KeptInv, TrackerTypes
  <2> QED
    BY <2>4, <2>5
<1> QED
  BY <1>2, <1>3, <1>4, <1>5, <1>6 DEF TrackerInv

LEMMA OpenKeeps ==
    ASSUME TrackerInv, OpenQueueFile
    PROVE  TrackerInv'
<1>1. mode # "down"
  BY DEF TrackerInv, PhaseInv, OpenQueueFile, NoFlush
<1>2. PICK opens \in Opens :
         /\ flush' = IF opens THEN [flush EXCEPT !.at = "close"] ELSE NoFlush
         /\ queueFile' \in IF opens THEN SUBSET flush.seeds ELSE {queueFile}
  BY DEF OpenQueueFile
<1>3. /\ queueFile' \subseteq queueFile \/ queueFile' \subseteq flush.seeds
      /\ flush' = NoFlush \/ flush' = [flush EXCEPT !.at = "close"]
  BY <1>2
<1>4. /\ flush.at = "open"
      /\ UNCHANGED <<jsonl, ledger, persisted, mode, boots, registry, pending, depth,
                     submitted, unread, hunting, crew, batch, accepted, turnedAway>>
  BY DEF OpenQueueFile, logVars, lifeVars, queueCopies, promises
<1> QED
  BY <1>1, <1>3, <1>4, QueueFileKeeps

LEMMA StartsIdle == Batched(Starting, NoSeed) /\ InBatch(Starting, NoSeed) = 0 /\ Starting.left = 0
  BY CrewCounted DEF Starting, Batched, InBatch, Cpus

\* The process ends: what is in its memory is gone.
LEMMA DiedKeeps ==
    ASSUME TrackerInv, Died, jsonl' \in [Ledgers -> Seq(Seeds)], IsInjective(jsonl'["found"]),
           queueFile' \subseteq queueFile \/ queueFile' \subseteq flush.seeds,
           accepted' \subseteq Seeds,
           accepted' \subseteq OnDisk(jsonl', queueFile'), UNCHANGED turnedAway
    PROVE  TrackerInv'
<1>0. /\ mode' = "down" /\ registry' = {} /\ unread' = {}
      /\ ledger' = [k \in Ledgers |-> <<>>] /\ persisted' = NoneYet
      /\ pending' = Nowhere /\ depth' = 0 /\ submitted' = Nowhere
      /\ hunting' = [h \in Finders |-> NoSeed] /\ crew' = [w \in Crew |-> AtRest]
      /\ flush' = NoFlush /\ batch' = Starting
  BY DEF Died
<1>n. NoSeed \notin Seeds
  BY TrackerAssumption
<1>1. /\ \A c \in Seeds : ~Found(c)' /\ ~Waits(c)' /\ ~Runs(c)' /\ ~Hunted(c)' /\ ~Scouted(c)' /\ Busy(c)' = {}
      /\ Waiting' = {} /\ Working' = {} /\ Unsettled' = {}
      /\ RunsOnce' /\ HuntsOnce'
  <2>1. \A c \in Seeds : ~Found(c)' /\ ~Waits(c)'
    BY <1>0 DEF Found, Waits, Nowhere, Ledgers
  <2>2. \A c \in Seeds : ~Runs(c)' /\ ~Hunted(c)' /\ ~Scouted(c)' /\ Busy(c)' = {}
    BY <1>0, <1>n DEF Runs, Hunted, Scouted, Busy, Finders, AtRest
  <2>3. Waiting' = {} /\ Working' = {}
    BY <1>0 DEF Waiting, Working, AtRest, Nowhere
  <2>4. Unsettled' = {}
    BY <1>0, <2>1, <2>2 DEF Unsettled
  <2>5. RunsOnce' /\ HuntsOnce'
    BY <1>0, <1>n DEF RunsOnce, HuntsOnce, AtRest
  <2> QED
    BY <2>1, <2>2, <2>3, <2>4, <2>5
<1>2. TrackerTypes'
  <2>1. ledger' \in [Ledgers -> Seq(Seeds)] /\ persisted' \in [Ledgers -> Nat]
    BY <1>0 DEF NoneYet
  <2>2. pending' \in [Seeds -> Int] /\ submitted' \in [Seeds -> {0, 1}] /\ depth' \in Int
    BY <1>0 DEF Nowhere
  <2>3. /\ hunting' \in [Finders -> Seeds \union {NoSeed}]
        /\ crew' \in [Crew -> [at : {"idle", "run", "track", "recorded", "flushed"},
                               seed : Seeds \union {NoSeed}]]
        /\ \A w \in Crew : crew'[w].at = "idle" <=> crew'[w].seed = NoSeed
    BY <1>0 DEF AtRest
  <2>4. flush' \in [by : Finders \union Crew \union {"stop"}, at : Moments, seeds : SUBSET Seeds]
    BY <1>0 DEF NoFlush, Moments
  <2>5. queueFile' \subseteq Seeds /\ turnedAway' \in BOOLEAN
    BY DEF TrackerInv, TrackerTypes
  <2>6. Batched(batch', hunting'["main"])
    BY <1>0, StartsIdle DEF Finders
  <2> QED
    BY <1>0, <2>1, <2>2, <2>3, <2>4, <2>5, <2>6 DEF TrackerTypes
<1>3. LogInv'
  BY <1>0 DEF LogInv, IsInjective, Ledgers
<1>4. JobInv'
  BY <1>1 DEF JobInv
<1>5. CountInv'
  <2>1. IsFiniteSet({}) /\ Cardinality({}) = 0
    BY FS_EmptySet
  <2>2. \A s \in Seeds : pending'[s] = 0 /\ submitted'[s] = 0
    BY <1>0 DEF Nowhere
  <2>3. \A s \in Seeds : pending'[s] = submitted'[s] + Cardinality(Busy(s)')
    <3> SUFFICES ASSUME NEW s \in Seeds
                 PROVE  pending'[s] = submitted'[s] + Cardinality(Busy(s)')
      OBVIOUS
    <3>1. Busy(s)' = {}
      BY <1>1
    <3>2. Cardinality(Busy(s)') = 0
      BY <2>1, <3>1
    <3> QED
      BY <2>2, <3>2
  <2>4. IsFiniteSet(Waiting') /\ depth' = Cardinality(Waiting') + Cardinality(Working')
    BY <1>0, <1>1, <2>1
  <2> QED
    BY <2>3, <2>4 DEF CountInv
<1>6. PhaseInv'
  BY <1>0, <1>1 DEF PhaseInv, Nowhere, AtRest, Starting
<1>7. StopInv'
  BY <1>0 DEF StopInv, NoFlush
<1>8. KeptInv' /\ (RoomForRetries => RoomInv')
  <2>1. RoomForRetries => Fit(queueFile', 0)
    BY FitsSmaller DEF TrackerInv, RoomInv
  <2>2. flush'.seeds = {}
    BY <1>0 DEF NoFlush
  <2>3. RoomForRetries => RoomInv'
    <3>1. InBatch(batch', hunting'["main"]) = 0
      BY <1>0, StartsIdle DEF Finders
    <3> QED
      BY <1>1, <2>1, <2>2, <3>1, FitsNone DEF TrackerInv, RoomInv
  <2>4. KeptInv'
    BY <1>0 DEF KeptInv, OnDisk
  <2> QED
    BY <2>3, <2>4
<1> QED
  BY <1>2, <1>3, <1>4, <1>5, <1>6, <1>7, <1>8 DEF TrackerInv

\* The last flush has written everything that is left.
LEMMA CloseKeeps ==
    ASSUME TrackerInv, CloseQueueFile
    PROVE  TrackerInv'
<1>0. /\ flush.at = "close" /\ queueFile' = flush.seeds
      /\ UNCHANGED <<jsonl, boots, accepted, turnedAway>> /\ mode # "down"
  BY DEF CloseQueueFile, TrackerInv, PhaseInv, NoFlush, promises
<1>1. CASE flush.by # "stop"
  <2>1. flush' = NoFlush
        /\ UNCHANGED <<ledger, persisted, mode, registry, pending, depth, submitted, unread, hunting, crew, batch>>
    BY <1>1 DEF CloseQueueFile, queueCopies, promises
  <2> QED
    BY <1>0, <2>1, QueueFileKeeps
<1>2. CASE flush.by = "stop"
  <2>1. Died
    BY <1>2 DEF CloseQueueFile
  <2>2. /\ mode = "draining" /\ \A w \in Crew : crew[w].at = "idle"
        /\ persisted["found"] = Len(ledger["found"]) /\ Waiting \subseteq flush.seeds
    BY <1>0, <1>2 DEF TrackerInv, StopInv
  <2>3. jsonl["found"] = ledger["found"]
    <3>1. /\ ledger["found"] \in Seq(Seeds)
          /\ jsonl["found"] = SubSeq(ledger["found"], 1, persisted["found"])
      BY <1>0 DEF TrackerInv, TrackerTypes, LogInv, Ledgers
    <3>2. SubSeq(ledger["found"], 1, Len(ledger["found"])) = ledger["found"]
      BY <3>1
    <3> QED
      BY <2>2, <3>1, <3>2
  <2>4. accepted' \subseteq OnDisk(jsonl', queueFile')
    <3> SUFFICES ASSUME NEW s \in accepted
                 PROVE  s \in Range(jsonl["found"]) \/ s \in flush.seeds
      BY <1>0 DEF OnDisk
    <3>1. s \in Seeds /\ (s \in unread \/ Found(s) \/ Waits(s) \/ Runs(s))
      BY <1>0 DEF TrackerInv, TrackerTypes, KeptInv
    <3>2. s \notin unread /\ ~Runs(s)
      BY <2>2 DEF TrackerInv, PhaseInv, Runs
    <3>3. Waits(s) => s \in flush.seeds
      BY <2>2, <3>1 DEF Waiting, Waits
    <3>4. Found(s) => s \in Range(jsonl["found"])
      BY <2>3 DEF Found, Range
    <3> QED
      BY <3>1, <3>2, <3>3, <3>4
  <2>5. /\ jsonl' \in [Ledgers -> Seq(Seeds)] /\ IsInjective(jsonl'["found"])
        /\ accepted' \subseteq Seeds
    BY <1>0 DEF TrackerInv, TrackerTypes, LogInv
  <2> QED
    BY <1>0, <2>1, <2>4, <2>5, DiedKeeps
<1> QED
  BY <1>1, <1>2

LEMMA KillKeeps ==
    ASSUME TrackerInv, Kill
    PROVE  TrackerInv'
<1>0. /\ mode # "down" /\ Died /\ accepted' = OnDisk(jsonl', queueFile) /\ queueFile' = queueFile
      /\ turnedAway' = turnedAway
      /\ IF flush.at \in Ledgers
         THEN \E n \in 0 .. Len(Unpersisted(flush.at)) :
                 jsonl' = [jsonl EXCEPT ![flush.at] = @ \o SubSeq(Unpersisted(flush.at), 1, n)]
         ELSE UNCHANGED jsonl
  BY DEF Kill
<1>1. /\ jsonl \in [Ledgers -> Seq(Seeds)] /\ IsInjective(jsonl["found"])
      /\ queueFile \subseteq Seeds
  BY DEF TrackerInv, TrackerTypes, LogInv
<1>2. jsonl' \in [Ledgers -> Seq(Seeds)] /\ IsInjective(jsonl'["found"])
  <2>1. CASE flush.at \in Ledgers
    <3>1. PICK n \in 0 .. Len(Unpersisted(flush.at)) :
             jsonl' = [jsonl EXCEPT ![flush.at] = @ \o SubSeq(Unpersisted(flush.at), 1, n)]
      BY <1>0, <2>1
    <3>2. PICK log : log = jsonl[flush.at] \o SubSeq(Unpersisted(flush.at), 1, n)
      OBVIOUS
    <3>3. log \in Seq(Seeds) /\ (flush.at = "found" => IsInjective(log))
      BY <1>0, <2>1, <3>2, LogGrows DEF TrackerInv
    <3>4. jsonl' = [jsonl EXCEPT ![flush.at] = log]
      BY <3>1, <3>2
    <3> QED
      BY <1>1, <2>1, <3>3, <3>4 DEF Ledgers
  <2>2. CASE flush.at \notin Ledgers
    BY <1>0, <1>1, <2>2
  <2> QED
    BY <2>1, <2>2
<1>3. accepted' \subseteq Seeds /\ accepted' = OnDisk(jsonl', queueFile')
  <2>1. jsonl'["found"] \in Seq(Seeds)
    BY <1>2 DEF Ledgers
  <2>2. Range(jsonl'["found"]) \subseteq Seeds
    BY <2>1 DEF Range
  <2> QED
    BY <1>0, <1>1, <2>2 DEF OnDisk
<1> QED
  BY <1>0, <1>2, <1>3, DiedKeeps

\* A start reads the logs and the queue file.
LEMMA BootKeeps ==
    ASSUME TrackerInv, Boot
    PROVE  TrackerInv'
<1>0. /\ mode = "down" /\ mode' = "loading" /\ ledger' = jsonl /\ persisted' = LoadedCounts
      /\ registry' = Range(jsonl["found"]) /\ unread' = queueFile
      /\ UNCHANGED <<jsonl, queueFile, pending, depth, submitted, hunting, crew, batch, flush, accepted, turnedAway>>
  BY DEF Boot, queueCopies, promises
<1>1. /\ jsonl \in [Ledgers -> Seq(Seeds)] /\ IsInjective(jsonl["found"])
      /\ queueFile \subseteq Seeds /\ jsonl["found"] \in Seq(Seeds)
      /\ \A k \in Ledgers : jsonl[k] \in Seq(Seeds) /\ Len(jsonl[k]) \in Nat
                            /\ jsonl[k] = SubSeq(jsonl[k], 1, Len(jsonl[k]))
  <2>1. jsonl \in [Ledgers -> Seq(Seeds)] /\ IsInjective(jsonl["found"]) /\ queueFile \subseteq Seeds
    BY DEF TrackerInv, TrackerTypes, LogInv
  <2>2. \A s \in Seq(Seeds) : Len(s) \in Nat /\ s = SubSeq(s, 1, Len(s))
    OBVIOUS
  <2> QED
    BY <2>1, <2>2 DEF Ledgers
<1>2. /\ \A c \in Seeds : ~Waits(c) /\ ~Runs(c) /\ ~Hunted(c) /\ ~Scouted(c) /\ Busy(c) = {}
      /\ flush = NoFlush
  <2>1. /\ \A w \in Crew : crew[w].at = "idle" /\ crew[w].seed = NoSeed
        /\ \A h \in Finders : hunting[h] = NoSeed
        /\ \A s \in Seeds : submitted[s] = 0
        /\ flush = NoFlush
    BY <1>0 DEF TrackerInv, TrackerTypes, PhaseInv
  <2>2. NoSeed \notin Seeds
    BY TrackerAssumption
  <2> QED
    BY <2>1, <2>2 DEF Waits, Runs, Hunted, Scouted, Busy, Finders
<1>3. \A c \in Seeds : /\ (Waits(c)' <=> Waits(c)) /\ (Runs(c)' <=> Runs(c))
                       /\ (Hunted(c)' <=> Hunted(c)) /\ (Scouted(c)' <=> Scouted(c)) /\ Busy(c)' = Busy(c)
                       /\ Found(c)' <=> c \in Range(jsonl["found"])
  <2>1. \A c \in Seeds : Found(c)' <=> c \in Range(jsonl["found"])
    BY <1>0 DEF Found, Range
  <2> QED
    BY <1>0, <2>1 DEF Waits, Runs, Hunted, Scouted, Busy
<1>4. TrackerTypes'
  <2>1. persisted' \in [Ledgers -> Nat]
    BY <1>0, <1>1 DEF LoadedCounts
  <2>2. Range(jsonl["found"]) \subseteq Seeds
    BY <1>1 DEF Range
  <2> QED
    BY <1>0, <1>1, <2>1, <2>2 DEF TrackerInv, TrackerTypes
<1>5. LogInv'
  <2>1. \A k \in Ledgers : persisted'[k] = Len(jsonl[k])
    BY <1>0 DEF LoadedCounts
  <2>2. \A k \in Ledgers : /\ persisted'[k] <= Len(ledger'[k])
                           /\ jsonl'[k] = SubSeq(ledger'[k], 1, persisted'[k])
    BY <1>0, <1>1, <2>1
  <2> QED
    BY <1>0, <1>1, <2>2 DEF LogInv
<1>6. JobInv'
  <2>1. RunsOnce' /\ HuntsOnce'
    BY <1>0 DEF TrackerInv, JobInv, RunsOnce, HuntsOnce
  <2> QED
    BY <1>0, <1>2, <1>3, <2>1 DEF JobInv
<1>7. CountInv'
  <2>1. Waiting' = Waiting /\ Working' = Working
    BY <1>0 DEF Waiting, Working
  <2> QED
    BY <1>0, <1>3, <2>1 DEF TrackerInv, CountInv
<1>8. PhaseInv'
  <2>1. batch.left = 0 /\ \A h \in Finders : hunting[h] = NoSeed
    BY <1>0 DEF TrackerInv, PhaseInv
  <2> QED
    BY <1>0, <1>1, <1>2, <1>3, <2>1 DEF PhaseInv
<1>9. StopInv'
  BY <1>0, <1>2 DEF StopInv, NoFlush
<1>10. KeptInv' /\ (RoomForRetries => RoomInv')
  <2>1. Unsettled' = queueFile
    BY <1>0, <1>1, <1>2, <1>3 DEF Unsettled
  <2>2. RoomForRetries => RoomInv'
    <3>1. InBatch(batch', hunting'["main"]) = 0
      BY <1>0 DEF TrackerInv, PhaseInv, InBatch, Finders
    <3> QED
      BY <1>0, <2>1, <3>1 DEF TrackerInv, RoomInv
  <2>3. KeptInv'
    <3>1. accepted \subseteq OnDisk(jsonl, queueFile)
      BY <1>0 DEF TrackerInv, KeptInv
    <3>2. accepted \subseteq Seeds
      BY DEF TrackerInv, TrackerTypes
    <3> QED
      BY <1>0, <1>3, <3>1, <3>2 DEF KeptInv, OnDisk
  <2> QED
    BY <2>2, <2>3
<1> QED
  BY <1>4, <1>5, <1>6, <1>7, <1>8, <1>9, <1>10 DEF TrackerInv

\* There is room for what is about to be enqueued.
LEMMA RoomForOne ==
    ASSUME TrackerTypes, CountInv, NEW n, Fit(Unsettled, n), NEW s \in Unsettled, ~Waits(s)
    PROVE  depth < QueueCap
<1>1. /\ IsFiniteSet(Unsettled) /\ Cardinality(Unsettled) + n + Cardinality(Crew) <= QueueCap
      /\ Cardinality(Unsettled) \in Nat /\ n \in Nat
  BY FS_CardinalityType DEF Fit, Cpus
<1>2. Waiting \subseteq Unsettled \ {s}
  BY DEF Waiting, Unsettled, Waits
<1>3. /\ IsFiniteSet(Unsettled \ {s})
      /\ Cardinality(Unsettled \ {s}) = Cardinality(Unsettled) - 1
  BY <1>1, FS_RemoveElement
<1>4. Cardinality(Waiting) <= Cardinality(Unsettled) - 1 /\ Cardinality(Waiting) \in Nat
  <2>1. Cardinality(Waiting) <= Cardinality(Unsettled \ {s}) /\ IsFiniteSet(Waiting)
    BY <1>2, <1>3, FS_Subset
  <2>2. Cardinality(Waiting) \in Nat
    BY <2>1, FS_CardinalityType
  <2> QED
    BY <1>3, <2>1, <2>2
<1>5. /\ Cardinality(Working) \in Nat /\ Cardinality(Working) <= Cardinality(Crew)
      /\ Cardinality(Crew) \in Nat /\ QueueCap \in Nat
  BY CrewCounted, TrackerAssumption
<1>6. depth = Cardinality(Waiting) + Cardinality(Working)
  BY DEF CountInv
<1> QED
  BY <1>1, <1>4, <1>5, <1>6

\* A seed of the queue file is enqueued unless it is registered.
LEMMA LoadKeeps ==
    ASSUME TrackerInv, LoadSeed
    PROVE  TrackerInv'
<1>0. /\ mode = "loading"
      /\ UNCHANGED <<jsonl, ledger, persisted, mode, boots, queueFile, hunting, crew, batch, flush>>
  BY DEF LoadSeed, logVars, lifeVars
<1>1. PICK s \in unread :
         /\ unread' = unread \ {s} /\ registry' = registry \union {s}
         /\ \/ s \notin registry /\ HasRoom /\ Enqueue(s)
            \/ s \notin registry /\ ~HasRoom /\ TurnAway(s)
            \/ s \in registry /\ UNCHANGED <<queueCopies, promises>>
  BY DEF LoadSeed
<1>2. /\ s \in Seeds /\ unread \subseteq Seeds /\ registry \subseteq Seeds
      /\ s \in registry => Found(s)
      /\ s \notin registry => ~Found(s) /\ ~Waits(s) /\ ~Runs(s) /\ ~Hunted(s)
  <2>1. s \in Seeds /\ unread \subseteq Seeds /\ registry \subseteq Seeds
    BY DEF TrackerInv, TrackerTypes
  <2>2. s \in registry => Found(s)
    BY <1>0 DEF TrackerInv, PhaseInv
  <2>3. s \notin registry => ~Found(s) /\ ~Waits(s) /\ ~Runs(s) /\ ~Hunted(s)
    BY <2>1 DEF TrackerInv, JobInv
  <2> QED
    BY <2>1, <2>2, <2>3
<1>3. \A c \in Seeds : /\ (Found(c)' <=> Found(c)) /\ (Runs(c)' <=> Runs(c))
                       /\ (Hunted(c)' <=> Hunted(c)) /\ (Scouted(c)' <=> Scouted(c)) /\ Busy(c)' = Busy(c)
  BY <1>0 DEF Found, Runs, Hunted, Scouted, Busy
<1>4. Working' = Working /\ RunsOnce' = RunsOnce /\ HuntsOnce' = HuntsOnce
  BY <1>0 DEF Working, RunsOnce, HuntsOnce
<1>5. /\ pending' \in [Seeds -> Int] /\ submitted' \in [Seeds -> {0, 1}] /\ depth' \in Int
      /\ CountInv' /\ accepted' \subseteq Seeds /\ turnedAway' \in BOOLEAN
      /\ \/ /\ s \notin registry /\ accepted' = accepted \union {s} /\ turnedAway' = turnedAway
            /\ \A c \in Seeds : Waits(c)' <=> Waits(c) \/ c = s
         \/ /\ s \in registry /\ accepted' = accepted /\ turnedAway' = turnedAway
            /\ \A c \in Seeds : Waits(c)' <=> Waits(c)
         \/ /\ s \notin registry /\ ~HasRoom /\ accepted' = accepted \ {s}
            /\ \A c \in Seeds : Waits(c)' <=> Waits(c)
  <2>t. accepted \subseteq Seeds /\ turnedAway \in BOOLEAN
    BY DEF TrackerInv, TrackerTypes
  <2>1. CASE s \notin registry /\ HasRoom /\ Enqueue(s)
    <3>1. ~Waits(s)
      BY <1>2, <2>1
    <3> QED
      BY <1>2, <1>3, <1>4, <2>1, <2>t, <3>1, JobEnqueued DEF TrackerInv
  <2>2. CASE UNCHANGED queueCopies
    <3>1. UNCHANGED <<pending, depth, submitted>>
      BY <2>2 DEF queueCopies
    <3>2. (\A c \in Seeds : Waits(c)' <=> Waits(c)) /\ Waiting' = Waiting
      BY <3>1 DEF Waits, Waiting
    <3>3. CountInv'
      BY <1>3, <1>4, <3>1, <3>2 DEF TrackerInv, CountInv
    <3>4. /\ accepted' \subseteq Seeds /\ turnedAway' \in BOOLEAN
          /\ \/ s \notin registry /\ accepted' = accepted \union {s} /\ Enqueue(s) /\ HasRoom
             \/ s \in registry /\ accepted' = accepted /\ turnedAway' = turnedAway
             \/ s \notin registry /\ ~HasRoom /\ accepted' = accepted \ {s}
      BY <1>1, <1>2, <2>t DEF TurnAway, promises, Enqueue
    <3>5. CASE s \notin registry /\ Enqueue(s) /\ HasRoom
      BY <2>1, <3>5
    <3> QED
      BY <3>1, <3>2, <3>3, <3>4, <3>5 DEF TrackerInv, TrackerTypes
  <2> QED
    BY <1>1, <2>1, <2>2 DEF TurnAway
<1>6. TrackerTypes' /\ LogInv'
  <2>1. TrackerTypes'
    BY <1>0, <1>1, <1>2, <1>5 DEF TrackerInv, TrackerTypes
  <2>2. LogInv'
    BY <1>0 DEF TrackerInv, LogInv
  <2> QED
    BY <2>1, <2>2
<1>7. JobInv'
  BY <1>1, <1>2, <1>3, <1>4, <1>5 DEF TrackerInv, JobInv
<1>8. PhaseInv'
  <2>1. \A c \in unread' : c \in Seeds /\ (c \in registry' => Found(c)')
    BY <1>0, <1>1, <1>2, <1>3 DEF TrackerInv, PhaseInv
  <2> QED
    BY <1>0, <2>1 DEF TrackerInv, PhaseInv
<1>9. StopInv'
  BY <1>0 DEF TrackerInv, StopInv
<1>10. KeptInv'
  <2> SUFFICES ASSUME NEW c \in accepted'
               PROVE  c \in unread' \/ Found(c)' \/ Waits(c)' \/ Runs(c)'
    BY <1>0 DEF KeptInv
  <2>1. CASE c = s
    BY <1>2, <1>3, <1>5, <2>1
  <2>2. CASE c # s
    <3>1. c \in accepted /\ c \in Seeds
      BY <1>5, <2>2
    <3>2. c \in unread \/ Found(c) \/ Waits(c) \/ Runs(c)
      BY <1>0, <3>1 DEF TrackerInv, KeptInv
    <3> QED
      BY <1>1, <1>3, <1>5, <2>2, <3>1, <3>2
  <2> QED
    BY <2>1, <2>2
<1>11. RoomForRetries => RoomInv'
  <2> SUFFICES ASSUME RoomForRetries PROVE RoomInv'
    OBVIOUS
  <2>1. s \in Unsettled /\ Unsettled' \subseteq Unsettled
    BY <1>1, <1>2, <1>3, <1>5 DEF Unsettled
  <2>2. Fit(Unsettled', InBatch(batch, hunting["main"]))
    BY <2>1, FitsSmaller DEF TrackerInv, RoomInv
  <2>3. s \in registry \/ HasRoom
    <3>1. s \notin registry => depth < QueueCap
      BY <1>2, <2>1, RoomForOne DEF TrackerInv, RoomInv
    <3> QED
      BY <1>0, <3>1 DEF HasRoom
  <2>4. ~turnedAway'
    BY <1>5, <2>3 DEF TrackerInv, RoomInv
  <2> QED
    BY <1>0, <2>2, <2>4 DEF TrackerInv, RoomInv, Fit
<1> QED
  BY <1>5, <1>6, <1>7, <1>8, <1>9, <1>10, <1>11 DEF TrackerInv

\* The values of a function are no more than its arguments.
LEMMA CountedBy ==
    ASSUME NEW S, NEW f, IsFiniteSet(S), NEW T, T \subseteq {f[x] : x \in S}
    PROVE  IsFiniteSet(T) /\ Cardinality(T) \in Nat /\ Cardinality(T) <= Cardinality(S)
<1> DEFINE I == {f[x] : x \in S}
           g == [x \in S |-> f[x]]
<1>1. g \in Surjection(S, I)
  BY DEF Surjection
<1>2. IsFiniteSet(I) /\ Cardinality(I) <= Cardinality(S)
  BY <1>1, FS_Surjection
<1> QED
  BY <1>2, FS_Subset, FS_CardinalityType

LEMMA TwoCounted ==
    ASSUME NEW S, NEW T, IsFiniteSet(S), IsFiniteSet(T)
    PROVE  /\ IsFiniteSet(S \union T) /\ Cardinality(S \union T) \in Nat
           /\ Cardinality(S \union T) <= Cardinality(S) + Cardinality(T)
           /\ Cardinality(S) \in Nat /\ Cardinality(T) \in Nat
<1>1. /\ IsFiniteSet(S \union T) /\ IsFiniteSet(S \intersect T)
      /\ Cardinality(S \union T) = Cardinality(S) + Cardinality(T) - Cardinality(S \intersect T)
  BY FS_Union, FS_Intersection
<1>2. /\ Cardinality(S \union T) \in Nat /\ Cardinality(S \intersect T) \in Nat
      /\ Cardinality(S) \in Nat /\ Cardinality(T) \in Nat
  BY <1>1, FS_CardinalityType
<1> QED
  BY <1>1, <1>2

\* One seed more, or one less of main's batch, changes the room by one.
LEMMA FitMoves ==
    ASSUME NEW S, NEW T, NEW n, NEW m \in Nat, NEW x, Fit(S, n), n = m + 1, T \subseteq S \union {x}
    PROVE  Fit(T, m)
<1>1. IsFiniteSet(S) /\ n \in Nat /\ n # 0 /\ Cardinality(S) + n + Cpus <= QueueCap
  BY DEF Fit
<1>2. IsFiniteSet({x}) /\ Cardinality({x}) = 1
  BY FS_Singleton
<1>3. PICK U : U = S \union {x}
  OBVIOUS
<1>4. IsFiniteSet(U) /\ Cardinality(U) \in Nat /\ Cardinality(U) <= Cardinality(S) + 1
      /\ Cardinality(S) \in Nat
  BY <1>1, <1>2, <1>3, TwoCounted
<1>5. Cpus \in Nat /\ QueueCap \in Nat
  BY CrewCounted, TrackerAssumption DEF Cpus
<1>6. Fit(U, m)
  BY <1>1, <1>4, <1>5 DEF Fit
<1> QED
  BY <1>3, <1>6, FitsSmaller

\* A record that is not yet written leaves the logs in step.
LEMMA LogAppended ==
    ASSUME TrackerTypes, LogInv, NEW k \in Ledgers, UNCHANGED <<jsonl, persisted>>,
           mode' # "down" => mode # "down",
           \A j \in Ledgers \ {k} : ledger'[j] = ledger[j],
           Len(ledger'[k]) = Len(ledger[k]) + 1,
           \A p \in 0 .. Len(ledger[k]) : SubSeq(ledger'[k], 1, p) = SubSeq(ledger[k], 1, p),
           IsInjective(ledger'["found"])
    PROVE  LogInv'
<1> SUFFICES ASSUME mode' # "down", NEW j \in Ledgers
             PROVE  /\ persisted[j] <= Len(ledger'[j])
                    /\ jsonl[j] = SubSeq(ledger'[j], 1, persisted[j])
  BY DEF LogInv
<1>1. /\ persisted[j] <= Len(ledger[j]) /\ jsonl[j] = SubSeq(ledger[j], 1, persisted[j])
      /\ persisted[j] \in Nat /\ ledger[j] \in Seq(Seeds)
  BY DEF TrackerTypes, LogInv
<1>2. CASE j # k
  BY <1>1, <1>2
<1>3. CASE j = k
  <2>1. Len(ledger[k]) \in Nat /\ persisted[k] \in 0 .. Len(ledger[k])
    BY <1>1, <1>3
  <2>2. SubSeq(ledger'[k], 1, persisted[k]) = SubSeq(ledger[k], 1, persisted[k])
    BY <2>1
  <2>3. persisted[k] <= Len(ledger'[k])
    BY <2>1
  <2> QED
    BY <1>1, <1>3, <2>2, <2>3
<1> QED
  BY <1>2, <1>3

\* What is unsettled while nothing is loaded: the jobs, and a seed of each scout
\* that has one.
LEMMA UnsettledCounted ==
    ASSUME TrackerTypes, CountInv, unread = {}, NEW G, G \subseteq Hunters,
           \A h \in Hunters \ G : hunting[h] = NoSeed
    PROVE  /\ IsFiniteSet(Unsettled) /\ Cardinality(Unsettled) \in Nat
           /\ Cardinality(Unsettled) <= depth + Cardinality(G)
           /\ IsFiniteSet(G) /\ Cardinality(G) \in Nat /\ depth \in Nat
<1> DEFINE B == {c \in Seeds : Busy(c) # {}}
           H == {c \in Seeds : Scouted(c)}
<1>1. IsFiniteSet(B) /\ Cardinality(B) \in Nat /\ Cardinality(B) <= Cardinality(Working)
      /\ Cardinality(Working) \in Nat
  <2>1. IsFiniteSet(Working) /\ Cardinality(Working) \in Nat
    BY CrewCounted
  <2> DEFINE f == [w \in Working |-> crew[w].seed]
  <2>2. \A b \in B : \E w \in Working : f[w] = b
    <3> SUFFICES ASSUME NEW b \in B PROVE \E w \in Working : f[w] = b
      OBVIOUS
    <3>1. PICK w \in Crew : crew[w].seed = b
      BY DEF Busy
    <3> QED
      BY <3>1, TrackerAssumption DEF Working
  <2>4. B \subseteq {f[w] : w \in Working}
    BY <2>2
  <2> QED
    BY <2>1, <2>4, CountedBy
<1>2. IsFiniteSet(H) /\ Cardinality(H) \in Nat /\ Cardinality(H) <= Cardinality(G)
      /\ IsFiniteSet(G) /\ Cardinality(G) \in Nat
  <2>1. IsFiniteSet(G) /\ Cardinality(G) \in Nat
    BY TrackerAssumption, FS_Subset, FS_CardinalityType
  <2> DEFINE f == [g \in G |-> hunting[g]]
  <2>2. \A c \in H : \E g \in G : f[g] = c
    <3> SUFFICES ASSUME NEW c \in H PROVE \E g \in G : f[g] = c
      OBVIOUS
    <3>1. PICK g \in Hunters : hunting[g] = c
      BY DEF Scouted
    <3> QED
      BY <3>1, TrackerAssumption
  <2>3. H \subseteq {f[g] : g \in G}
    BY <2>2
  <2> QED
    BY <2>1, <2>3, CountedBy
<1>3. IsFiniteSet(Waiting) /\ Cardinality(Waiting) \in Nat
      /\ depth = Cardinality(Waiting) + Cardinality(Working)
  BY FS_CardinalityType DEF CountInv
<1>4. Unsettled = (Waiting \union B) \union H
  BY DEF Unsettled, Waiting, Waits
<1> HIDE DEF B, H
<1>5. PICK D : D = Waiting \union B
  OBVIOUS
<1>6. IsFiniteSet(D) /\ Cardinality(D) \in Nat
      /\ Cardinality(D) <= Cardinality(Waiting) + Cardinality(B)
  BY <1>1, <1>3, <1>5, TwoCounted
<1>7. PICK E : E = D \union H
  OBVIOUS
<1>8. IsFiniteSet(E) /\ Cardinality(E) \in Nat /\ Cardinality(E) <= Cardinality(D) + Cardinality(H)
  BY <1>2, <1>6, <1>7, TwoCounted
<1> QED
  BY <1>1, <1>2, <1>3, <1>4, <1>5, <1>6, <1>7, <1>8

LEMMA CrewRoom ==
    ASSUME RoomForRetries
    PROVE  /\ Cpus \in Nat /\ Cardinality(Hunters) \in Nat /\ QueueCap \in Nat /\ Headroom \in Nat
           /\ Headroom < QueueCap /\ Cardinality(Hunters) + 3 * Cpus <= Headroom + 1
  BY CrewCounted, TrackerAssumption, FS_CardinalityType DEF Cpus, RoomForRetries

\* What scouts take while the queue is as short as they ask leaves room for
\* the retries and for what main may have left of its batch.
LEMMA HuntFits ==
    ASSUME TrackerTypes, CountInv, RoomForRetries, NEW h \in Hunters, NEW s \in Seeds,
           unread = {}, unread' = {}, hunting[h] = NoSeed, depth < QueueCap - Headroom,
           \A c \in Seeds : (Waits(c)' <=> Waits(c)) /\ Busy(c)' = Busy(c),
           \A c \in Seeds : Scouted(c)' => Scouted(c) \/ c = s
    PROVE  Fit(Unsettled', InBatch(batch, hunting["main"]))
<1>0. PICK n : n = InBatch(batch, hunting["main"])
  OBVIOUS
<1>1. n \in Nat /\ n <= 2 * Cpus
  BY <1>0 DEF TrackerTypes, Batched, InBatch
<1>2. PICK G : G = Hunters \ {h}
  OBVIOUS
<1>3. Cardinality(G) = Cardinality(Hunters) - 1
  BY <1>2, TrackerAssumption, FS_RemoveElement
<1>4. PICK U, V : U = Unsettled /\ V = U \union {s}
  OBVIOUS
<1>5. IsFiniteSet(U) /\ Cardinality(U) \in Nat /\ Cardinality(U) <= depth + Cardinality(G)
      /\ Cardinality(G) \in Nat /\ depth \in Nat
  <2>1. G \subseteq Hunters /\ \A g \in Hunters \ G : hunting[g] = NoSeed
    BY <1>2
  <2> QED
    BY <1>4, <2>1, UnsettledCounted
<1>6. IsFiniteSet(V) /\ Cardinality(V) \in Nat /\ Cardinality(V) <= Cardinality(U) + 1
  <2>1. IsFiniteSet({s}) /\ Cardinality({s}) = 1
    BY FS_Singleton
  <2> QED
    BY <1>4, <1>5, <2>1, TwoCounted
<1>7. Cardinality(V) + n + Cpus <= QueueCap
  BY <1>1, <1>3, <1>5, <1>6, CrewRoom
<1>8. Fit(V, n)
  BY <1>1, <1>6, <1>7 DEF Fit
<1>9. Unsettled' \subseteq V
  BY <1>4 DEF Unsettled
<1> QED
  BY <1>0, <1>8, <1>9, FitsSmaller

\* A batch of main fits as well when it looks at a queue that is shorter than that.
LEMMA BatchFits ==
    ASSUME TrackerTypes, CountInv, RoomForRetries, unread = {}, NEW n \in Nat, n + depth <= 2 * Cpus
    PROVE  Fit(Unsettled, n)
<1>1. PICK U : U = Unsettled
  OBVIOUS
<1>2. IsFiniteSet(U) /\ Cardinality(U) \in Nat /\ Cardinality(U) <= depth + Cardinality(Hunters)
      /\ depth \in Nat
  <2>1. Hunters \subseteq Hunters /\ \A g \in Hunters \ Hunters : hunting[g] = NoSeed
    OBVIOUS
  <2> QED
    BY <1>1, <2>1, UnsettledCounted
<1>3. Cardinality(U) + n + Cpus <= QueueCap
  BY <1>2, CrewRoom
<1> QED
  BY <1>1, <1>2, <1>3 DEF Fit

\* main looks at the queue, or draws a seed that it has seen before.
LEMMA BatchKeeps ==
    ASSUME TrackerInv, mode \in {"up", "joining"}, Batched(batch', hunting["main"]),
           RoomForRetries => Fit(Unsettled, InBatch(batch', hunting["main"])),
           UNCHANGED <<jsonl, ledger, persisted, mode, boots, queueFile, registry, pending, depth,
                       submitted, unread, hunting, crew, flush, accepted, turnedAway>>
    PROVE  TrackerInv'
<1>1. TrackerTypes' /\ LogInv' /\ StopInv'
  <2>1. TrackerTypes'
    BY DEF TrackerInv, TrackerTypes
  <2>2. LogInv'
    BY DEF TrackerInv, LogInv
  <2>3. StopInv'
    BY SameWork DEF TrackerInv, StopInv
  <2> QED
    BY <2>1, <2>2, <2>3
<1>2. JobInv' /\ CountInv'
  BY SameJobs
<1>3. PhaseInv'
  BY DEF TrackerInv, PhaseInv
<1>4. KeptInv'
  BY SameWork DEF TrackerInv, KeptInv, TrackerTypes
<1>5. RoomForRetries => RoomInv'
  <2>1. Unsettled' = Unsettled
    BY SameWork
  <2> QED
    BY <2>1 DEF TrackerInv, RoomInv, Fit
<1> QED
  BY <1>1, <1>2, <1>3, <1>4, <1>5 DEF TrackerInv

LEMMA WarmUpKeeps ==
    ASSUME TrackerInv, WarmUp \/ LookAtQueue
    PROVE  TrackerInv'
<1>0. /\ mode \in {"up", "joining"} /\ hunting["main"] = NoSeed
      /\ UNCHANGED <<jsonl, ledger, persisted, mode, boots, queueFile, registry, pending, depth,
                     submitted, unread, hunting, crew, flush, accepted, turnedAway>>
  BY DEF WarmUp, LookAtQueue, Rests, logVars, lifeVars, queueCopies, promises, TrackerInv,
         TrackerTypes, Batched
<1>1. PICK n : n = batch'.left
  OBVIOUS
<1>2. Cpus \in Nat /\ depth \in Nat /\ QueueCap \in Nat
  <2>1. IsFiniteSet(Waiting) /\ IsFiniteSet(Working) /\ depth = Cardinality(Waiting) + Cardinality(Working)
    BY CrewCounted DEF TrackerInv, CountInv
  <2> QED
    BY <2>1, CrewCounted, FS_CardinalityType, TrackerAssumption DEF Cpus
<1>3. n \in Nat /\ (n = 0 \/ n + depth <= 2 * Cpus) /\ n <= 2 * Cpus
      /\ batch' \in [at : {"start", "warmup", "hunt"}, left : Nat] /\ batch'.at # "start"
  <2>1. CASE WarmUp
    <3>1. batch' = [at |-> "warmup", left |-> IF depth = 0 THEN Cpus ELSE 0]
      BY <2>1 DEF WarmUp
    <3> QED
      BY <1>1, <1>2, <3>1
  <2>2. CASE LookAtQueue
    <3>1. batch' = [at |-> "hunt", left |-> IF depth < Goal THEN Goal - depth ELSE 0]
      BY <2>2 DEF LookAtQueue
    <3>2. Goal \in Nat /\ Goal <= 2 * Cpus
      BY <1>2 DEF Goal
    <3> QED
      BY <1>1, <1>2, <3>1, <3>2
  <2> QED
    BY <2>1, <2>2
<1>4. InBatch(batch', hunting["main"]) = n
  BY <1>0, <1>1, <1>3 DEF InBatch
<1>5. Batched(batch', hunting["main"])
  BY <1>3, <1>4 DEF Batched
<1>6. RoomForRetries => Fit(Unsettled, n)
  <2> SUFFICES ASSUME RoomForRetries PROVE Fit(Unsettled, n)
    OBVIOUS
  <2>1. CASE n = 0
    BY <2>1, FitsSmaller DEF TrackerInv, RoomInv
  <2>2. CASE n + depth <= 2 * Cpus
    <3>1. unread = {}
      BY <1>0 DEF TrackerInv, PhaseInv
    <3> QED
      BY <1>3, <2>2, <3>1, BatchFits DEF TrackerInv
  <2> QED
    BY <1>3, <2>1, <2>2
<1> QED
  BY <1>0, <1>4, <1>5, <1>6, BatchKeeps

\* Somebody finds a seed, and keeps it or lets it go.
LEMMA SeedFound ==
    ASSUME TrackerInv, mode \in {"up", "joining"}, NEW h \in Finders, hunting[h] = NoSeed,
           NEW s \in Seeds \ registry, registry' = registry \union {s},
           \/ hunting' = [hunting EXCEPT ![h] = s]
           \/ UNCHANGED hunting,
           ledger' = Recorded("jump", s) \/ UNCHANGED ledger,
           Batched(batch', hunting'["main"]),
           RoomForRetries => Fit(Unsettled', InBatch(batch', hunting'["main"])),
           UNCHANGED <<jsonl, persisted, mode, boots, queueFile, pending, depth, submitted, unread,
                       crew, flush, accepted, turnedAway>>
    PROVE  TrackerInv'
<1>2. ~Found(s) /\ ~Waits(s) /\ ~Runs(s) /\ ~Hunted(s)
  BY DEF TrackerInv, JobInv
<1>3. /\ \A c \in Seeds : /\ (Waits(c)' <=> Waits(c)) /\ (Runs(c)' <=> Runs(c))
                          /\ Busy(c)' = Busy(c)
      /\ Working' = Working /\ Waiting' = Waiting /\ RunsOnce' = RunsOnce
  BY DEF Waits, Runs, Busy, Working, Waiting, RunsOnce
<1>n. NoSeed \notin Seeds /\ hunting \in [Finders -> Seeds \union {NoSeed}]
  BY TrackerAssumption DEF TrackerInv, TrackerTypes
<1>4. /\ \A c \in Seeds : Hunted(c)' => Hunted(c) \/ c = s
      /\ hunting' \in [Finders -> Seeds \union {NoSeed}] /\ HuntsOnce'
  <2>1. HuntsOnce
    BY DEF TrackerInv, JobInv
  <2>2. CASE hunting' = [hunting EXCEPT ![h] = s]
    <3>1. /\ hunting'[h] = s /\ \A g \in Finders : g # h => hunting'[g] = hunting[g]
          /\ \A g \in Finders : hunting[g] # s
      BY <1>n, <1>2, <2>2 DEF Hunted
    <3>2. HuntsOnce'
      BY <2>1, <3>1 DEF HuntsOnce
    <3>3. \A c \in Seeds : Hunted(c)' => Hunted(c) \/ c = s
      BY <3>1 DEF Hunted
    <3> QED
      BY <1>n, <2>2, <3>2, <3>3
  <2>3. CASE UNCHANGED hunting
    BY <1>n, <2>1, <2>3 DEF Hunted, HuntsOnce
  <2> QED
    BY <2>2, <2>3
<1>5. /\ ledger' \in [Ledgers -> Seq(Seeds)] /\ ledger'["found"] = ledger["found"]
      /\ LogInv' /\ \A c \in Seeds : Found(c)' <=> Found(c)
  <2>1. CASE ledger' = Recorded("jump", s)
    <3>1. /\ ledger' \in [Ledgers -> Seq(Seeds)]
          /\ \A j \in Ledgers \ {"jump"} : ledger'[j] = ledger[j]
          /\ Len(ledger'["jump"]) = Len(ledger["jump"]) + 1
          /\ \A p \in 0 .. Len(ledger["jump"]) :
                SubSeq(ledger'["jump"], 1, p) = SubSeq(ledger["jump"], 1, p)
      BY <2>1, LedgerGrows DEF TrackerInv, Ledgers
    <3>2. ledger'["found"] = ledger["found"]
      BY <3>1 DEF Ledgers
    <3>3. LogInv'
      <4>1. TrackerTypes /\ LogInv /\ "jump" \in Ledgers /\ IsInjective(ledger'["found"])
        BY <3>2 DEF TrackerInv, LogInv, Ledgers
      <4> QED
        BY <3>1, <4>1, LogAppended
    <3> QED
      BY <3>1, <3>2, <3>3 DEF Found
  <2>2. CASE UNCHANGED ledger
    BY <2>2 DEF TrackerInv, TrackerTypes, LogInv, Found
  <2> QED
    BY <2>1, <2>2
<1>6. TrackerTypes'
  BY <1>4, <1>5 DEF TrackerInv, TrackerTypes
<1>7. JobInv'
  BY <1>2, <1>3, <1>4, <1>5 DEF TrackerInv, JobInv
<1>8. CountInv'
  BY <1>3 DEF TrackerInv, CountInv
<1>9. PhaseInv'
  BY DEF TrackerInv, PhaseInv
<1>10. StopInv'
  BY <1>5 DEF TrackerInv, StopInv
<1>11. KeptInv'
  <2>1. accepted \subseteq Seeds
    BY DEF TrackerInv, TrackerTypes
  <2> QED
    BY <1>3, <1>5, <2>1 DEF TrackerInv, KeptInv
<1>12. RoomForRetries => RoomInv'
  BY DEF TrackerInv, RoomInv, Fit
<1> QED
  BY <1>5, <1>6, <1>7, <1>8, <1>9, <1>10, <1>11, <1>12 DEF TrackerInv

LEMMA HuntKeeps ==
    ASSUME TrackerInv, NEW h \in Hunters, Hunt(h)
    PROVE  TrackerInv'
<1>0. /\ mode = "up" /\ hunting[h] = NoSeed /\ depth < QueueCap - Headroom /\ unread = {}
      /\ UNCHANGED <<jsonl, persisted, mode, boots, queueFile, pending, depth, submitted, unread,
                     crew, batch, flush, accepted, turnedAway>>
  BY DEF Hunt, Rests, lifeVars, queueCopies, promises, TrackerInv, PhaseInv
<1>1. PICK s \in Seeds \ registry :
         /\ registry' = registry \union {s}
         /\ \/ hunting' = [hunting EXCEPT ![h] = s] /\ ledger' = Recorded("jump", s)
            \/ UNCHANGED <<hunting, ledger>>
  BY DEF Hunt
<1>2. /\ h \in Finders /\ h # "main" /\ hunting \in [Finders -> Seeds \union {NoSeed}]
      /\ "main" \in Finders /\ Hunters \subseteq Finders
  BY TrackerAssumption DEF Finders, TrackerInv, TrackerTypes
<1>3. hunting'["main"] = hunting["main"] /\ \A c \in Seeds : Scouted(c)' => Scouted(c) \/ c = s
  BY <1>1, <1>2 DEF Scouted
<1>4. \A c \in Seeds : (Waits(c)' <=> Waits(c)) /\ Busy(c)' = Busy(c)
  BY <1>0 DEF Waits, Busy
<1>5. RoomForRetries => Fit(Unsettled', InBatch(batch, hunting["main"]))
  <2> SUFFICES ASSUME RoomForRetries PROVE Fit(Unsettled', InBatch(batch, hunting["main"]))
    OBVIOUS
  <2> QED
    BY <1>0, <1>1, <1>3, <1>4, HuntFits DEF TrackerInv
<1>6. Batched(batch', hunting'["main"])
  BY <1>0, <1>3 DEF TrackerInv, TrackerTypes
<1> QED
  BY <1>0, <1>1, <1>2, <1>3, <1>5, <1>6, SeedFound

\* main takes a seed of its batch, which was counted when it looked at the queue.
LEMMA MainKeeps ==
    ASSUME TrackerInv, MainHunt
    PROVE  TrackerInv'
<1>0. /\ batch.left > 0 /\ hunting["main"] = NoSeed /\ batch' = [batch EXCEPT !.left = @ - 1]
      /\ UNCHANGED <<jsonl, ledger, persisted, mode, boots, queueFile, pending, depth, submitted,
                     unread, crew, flush, accepted, turnedAway>>
  BY DEF MainHunt, logVars, lifeVars, queueCopies, promises
<1>1. mode \in {"up", "joining"}
  BY <1>0 DEF TrackerInv, PhaseInv
<1>2. /\ batch \in [at : {"start", "warmup", "hunt"}, left : Nat] /\ batch.at # "start"
      /\ batch.left <= 2 * Cpus /\ Cpus \in Nat
  BY <1>0, CrewCounted DEF TrackerInv, TrackerTypes, Batched, InBatch, Cpus
<1>3. batch' \in [at : {"start", "warmup", "hunt"}, left : Nat] /\ batch'.at # "start"
      /\ batch'.left = batch.left - 1
  BY <1>0, <1>2
<1>4. PICK n \in Nat : n = batch.left - 1
  BY <1>0, <1>2
<1>5. InBatch(batch, hunting["main"]) = n + 1 /\ InBatch(batch', NoSeed) = n
      /\ \A x \in Seeds : InBatch(batch', x) = n + 1
  BY <1>0, <1>3, <1>2, <1>4, TrackerAssumption DEF InBatch
<1>6. CASE /\ registry' = registry /\ hunting' = hunting
  <2>1. Batched(batch', hunting["main"])
    BY <1>0, <1>2, <1>3, <1>4, <1>5 DEF Batched
  <2>2. RoomForRetries => Fit(Unsettled, n)
    BY <1>5, FitMoves DEF TrackerInv, RoomInv
  <2> QED
    BY <1>0, <1>1, <1>5, <1>6, <2>1, <2>2, BatchKeeps
<1>7. ASSUME NEW s \in Seeds \ registry, registry' = registry \union {s},
             hunting' = [hunting EXCEPT !["main"] = s]
      PROVE  TrackerInv'
  <2>1. /\ "main" \in Finders /\ "main" \notin Hunters /\ hunting'["main"] = s
        /\ \A h \in Hunters : hunting'[h] = hunting[h]
    BY <1>7, TrackerAssumption DEF TrackerInv, TrackerTypes, Finders
  <2>2. Batched(batch', hunting'["main"])
    BY <1>2, <1>3, <1>4, <1>5, <2>1 DEF Batched
  <2>3. Unsettled' = Unsettled
    BY <1>0, <2>1 DEF Unsettled, Waits, Busy, Scouted
  <2>4. RoomForRetries => Fit(Unsettled', InBatch(batch', hunting'["main"]))
    BY <1>5, <2>1, <2>3 DEF TrackerInv, RoomInv
  <2> QED
    BY <1>0, <1>1, <1>7, <2>1, <2>2, <2>4, SeedFound
<1> QED
  BY <1>6, <1>7 DEF MainHunt

\* A finder enqueues what it has, if there is room; main counts what it did not.
LEMMA EnqueueKeeps ==
    ASSUME TrackerInv, NEW h \in Finders, EnqueueHunted(h)
    PROVE  TrackerInv'
<1>s. PICK s : s = hunting[h]
  OBVIOUS
<1>0. /\ s \in Seeds /\ hunting' = [hunting EXCEPT ![h] = NoSeed]
      /\ \/ HasRoom /\ Enqueue(s) /\ UNCHANGED batch
         \/ /\ ~HasRoom /\ UNCHANGED <<pending, depth, submitted, accepted, turnedAway>>
            /\ batch' = IF h = "main" /\ batch.at = "hunt" THEN [batch EXCEPT !.left = @ + 1] ELSE batch
      /\ UNCHANGED <<jsonl, ledger, persisted, mode, boots, queueFile, registry, unread, crew, flush>>
  <2>1. s \in Seeds /\ hunting' = [hunting EXCEPT ![h] = NoSeed]
    BY <1>s DEF EnqueueHunted, TrackerInv, TrackerTypes
  <2>2. \/ HasRoom /\ Enqueue(s) /\ UNCHANGED batch
        \/ /\ ~HasRoom /\ UNCHANGED <<pending, depth, submitted, accepted, turnedAway>>
           /\ batch' = IF h = "main" /\ batch.at = "hunt" THEN [batch EXCEPT !.left = @ + 1] ELSE batch
    BY <1>s DEF EnqueueHunted, queueCopies, promises
  <2>3. UNCHANGED <<jsonl, ledger, persisted, mode, boots, queueFile, registry, unread, crew, flush>>
    BY DEF EnqueueHunted, logVars, lifeVars
  <2> QED
    BY <2>1, <2>2, <2>3
<1>n. NoSeed \notin Seeds /\ hunting \in [Finders -> Seeds \union {NoSeed}]
  BY TrackerAssumption DEF TrackerInv, TrackerTypes
<1>m. mode \in {"up", "joining"} /\ unread = {}
  BY <1>0, <1>n, <1>s DEF TrackerInv, PhaseInv
<1>1. Hunted(s) /\ s \in registry /\ ~Waits(s) /\ ~Runs(s) /\ ~Found(s)
  <2>1. Hunted(s)
    BY <1>s DEF Hunted
  <2> QED
    BY <1>0, <2>1 DEF TrackerInv, JobInv
<1>2. /\ \A c \in Seeds : Hunted(c)' <=> Hunted(c) /\ c # s
      /\ hunting' \in [Finders -> Seeds \union {NoSeed}] /\ HuntsOnce'
      /\ hunting'[h] = NoSeed /\ \A g \in Finders : g # h => hunting'[g] = hunting[g]
  <2>1. HuntsOnce
    BY DEF TrackerInv, JobInv
  <2>2. hunting'[h] = NoSeed /\ \A g \in Finders : g # h => hunting'[g] = hunting[g]
    BY <1>0, <1>n
  <2>3. HuntsOnce'
    BY <1>n, <2>1, <2>2 DEF HuntsOnce
  <2>4. \A g \in Finders : g # h => hunting[g] # s
    BY <1>0, <1>s, <2>1 DEF HuntsOnce
  <2>5. \A c \in Seeds : Hunted(c)' <=> Hunted(c) /\ c # s
    BY <1>n, <1>s, <2>2, <2>4 DEF Hunted
  <2> QED
    BY <1>0, <1>n, <2>2, <2>3, <2>5
<1>3. /\ \A c \in Seeds : (Found(c)' <=> Found(c)) /\ (Runs(c)' <=> Runs(c)) /\ Busy(c)' = Busy(c)
      /\ Working' = Working /\ RunsOnce' = RunsOnce
  BY <1>0 DEF Found, Runs, Busy, Working, RunsOnce
<1>5. /\ pending' \in [Seeds -> Int] /\ submitted' \in [Seeds -> {0, 1}] /\ depth' \in Int
      /\ CountInv' /\ accepted' \subseteq Seeds /\ turnedAway' = turnedAway
      /\ \/ /\ accepted' = accepted \union {s} /\ batch' = batch
            /\ \A c \in Seeds : Waits(c)' <=> Waits(c) \/ c = s
         \/ /\ accepted' = accepted /\ \A c \in Seeds : Waits(c)' <=> Waits(c)
            /\ batch' = IF h = "main" /\ batch.at = "hunt" THEN [batch EXCEPT !.left = @ + 1] ELSE batch
  <2>1. CASE HasRoom
    <3>1. accepted \subseteq Seeds /\ Enqueue(s) /\ batch' = batch
      BY <1>0, <2>1 DEF TrackerInv, TrackerTypes
    <3> QED
      BY <1>0, <1>1, <1>3, <3>1, JobEnqueued DEF TrackerInv
  <2>2. CASE ~HasRoom
    <3>1. /\ UNCHANGED <<pending, depth, submitted, accepted, turnedAway>>
          /\ batch' = IF h = "main" /\ batch.at = "hunt" THEN [batch EXCEPT !.left = @ + 1] ELSE batch
      BY <1>0, <2>2
    <3>2. (\A c \in Seeds : Waits(c)' <=> Waits(c)) /\ Waiting' = Waiting
      BY <3>1 DEF Waits, Waiting
    <3>3. CountInv'
      BY <1>3, <3>1, <3>2 DEF TrackerInv, CountInv
    <3> QED
      BY <3>1, <3>2, <3>3 DEF TrackerInv, TrackerTypes
  <2> QED
    BY <2>1, <2>2
<1>b. PICK n : n = InBatch(batch, hunting["main"])
  OBVIOUS
<1>t. /\ batch \in [at : {"start", "warmup", "hunt"}, left : Nat] /\ n \in Nat
      /\ n <= 2 * Cpus /\ Cpus \in Nat /\ (batch.at = "start" => batch.left = 0 /\ hunting["main"] = NoSeed)
  BY <1>b, CrewCounted DEF TrackerInv, TrackerTypes, Batched, InBatch, Cpus
<1>c. /\ Batched(batch', hunting'["main"]) /\ InBatch(batch', hunting'["main"]) \in Nat
      /\ \/ InBatch(batch', hunting'["main"]) = n /\ ~(h = "main" /\ accepted' # accepted)
         \/ InBatch(batch', hunting'["main"]) + 1 = n /\ h = "main"
  <2>1. CASE h # "main"
    <3>1. hunting'["main"] = hunting["main"] /\ batch' = batch
      BY <1>2, <1>5, <2>1 DEF Finders
    <3> QED
      BY <1>b, <1>t, <2>1, <3>1 DEF TrackerInv, TrackerTypes
  <2>2. CASE h = "main"
    <3>1. /\ hunting["main"] # NoSeed /\ hunting'["main"] = NoSeed /\ n = batch.left + 1
          /\ batch.at # "start"
      BY <1>0, <1>n, <1>s, <1>2, <1>b, <1>t, <2>2 DEF InBatch
    <3>2. CASE batch' = batch
      <4>1. InBatch(batch', hunting'["main"]) = batch.left
        BY <1>t, <3>1, <3>2 DEF InBatch
      <4> QED
        BY <1>t, <2>2, <3>1, <3>2, <4>1 DEF Batched
    <3>3. CASE batch' = [batch EXCEPT !.left = @ + 1] /\ accepted' = accepted
      <4>1. /\ batch' \in [at : {"start", "warmup", "hunt"}, left : Nat]
            /\ batch'.left = batch.left + 1 /\ batch'.at # "start"
        BY <1>t, <3>1, <3>3
      <4>2. InBatch(batch', hunting'["main"]) = batch.left + 1
        BY <1>t, <3>1, <4>1 DEF InBatch
      <4> QED
        BY <1>t, <3>1, <3>3, <4>1, <4>2 DEF Batched
    <3> QED
      BY <1>5, <3>2, <3>3
  <2> QED
    BY <2>1, <2>2
<1>6. TrackerTypes' /\ LogInv'
  <2>1. TrackerTypes'
    BY <1>0, <1>2, <1>5, <1>c DEF TrackerInv, TrackerTypes
  <2>2. LogInv'
    BY <1>0 DEF TrackerInv, LogInv
  <2> QED
    BY <2>1, <2>2
<1>7. JobInv'
  BY <1>0, <1>1, <1>2, <1>3, <1>5 DEF TrackerInv, JobInv
<1>8. PhaseInv'
  BY <1>0, <1>m DEF TrackerInv, PhaseInv
<1>9. StopInv'
  BY <1>0, <1>m DEF TrackerInv, StopInv
<1>10. KeptInv'
  <2> SUFFICES ASSUME NEW c \in accepted'
               PROVE  c \in unread' \/ Found(c)' \/ Waits(c)' \/ Runs(c)'
    BY <1>0, <1>m DEF KeptInv
  <2>1. c \in Seeds /\ (c \in accepted \/ (c = s /\ Waits(s)'))
    BY <1>0, <1>5
  <2>2. c \in accepted => c \in unread \/ Found(c) \/ Waits(c) \/ Runs(c)
    BY <1>m DEF TrackerInv, KeptInv
  <2>3. Waits(c) => Waits(c)'
    BY <1>5, <2>1
  <2> QED
    BY <1>0, <1>3, <2>1, <2>2, <2>3
<1>11. RoomForRetries => RoomInv'
  <2> SUFFICES ASSUME RoomForRetries PROVE RoomInv'
    OBVIOUS
  <2>1. Fit(Unsettled, n)
    BY <1>b DEF TrackerInv, RoomInv
  <2>2. \A c \in Seeds : Scouted(c)' => Scouted(c)
    BY <1>0, <1>2, <1>n DEF Scouted, Finders
  <2>3. Unsettled' \subseteq Unsettled \union {s}
    BY <1>0, <1>3, <1>5, <2>2 DEF Unsettled
  <2>4. h \in Hunters => s \in Unsettled
    BY <1>0, <1>s DEF Unsettled, Scouted
  <2>5. accepted' = accepted \/ h \in Hunters => Unsettled' \subseteq Unsettled
    <3>1. CASE h \in Hunters
      BY <2>3, <2>4, <3>1
    <3>2. CASE \A c \in Seeds : Waits(c)' <=> Waits(c)
      BY <1>0, <1>3, <2>2, <3>2 DEF Unsettled
    <3>3. CASE accepted' = accepted \union {s} /\ h \notin Hunters
      <4>1. s \in accepted' /\ (s \in accepted => Waits(s))
        BY <1>0, <1>1, <1>m, <3>3 DEF TrackerInv, KeptInv
      <4> QED
        BY <1>1, <3>3, <4>1
    <3> QED
      BY <1>5, <3>1, <3>2, <3>3
  <2>6. Fit(Unsettled', InBatch(batch', hunting'["main"]))
    <3>1. PICK k \in Nat : k = InBatch(batch', hunting'["main"])
      BY <1>c
    <3>2. CASE k = n /\ ~(h = "main" /\ accepted' # accepted)
      BY <2>1, <2>5, <3>1, <3>2, FitsSmaller DEF Finders
    <3>3. CASE k + 1 = n
      BY <2>1, <2>3, <3>1, <3>3, FitMoves
    <3> QED
      BY <1>c, <3>1, <3>2, <3>3
  <2> QED
    BY <1>0, <1>5, <2>6 DEF TrackerInv, RoomInv, Fit
<1> QED
  BY <1>6, <1>7, <1>8, <1>9, <1>10, <1>11, <1>5 DEF TrackerInv

\* A worker takes a job of the pool's queue.
LEMMA TakeKeeps ==
    ASSUME TrackerInv, NEW w \in Crew, TakeJob(w)
    PROVE  TrackerInv'
<1>0. /\ mode # "draining"
      /\ UNCHANGED <<jsonl, ledger, persisted, mode, boots, queueFile, registry, pending, depth,
                     unread, hunting, batch, flush, accepted, turnedAway>>
  BY DEF TakeJob, logVars, lifeVars, promises
<1>1. PICK s \in Seeds : /\ submitted[s] > 0 /\ submitted' = [submitted EXCEPT ![s] = @ - 1]
                         /\ Proceed(w, {"idle"}, "run", s)
  BY DEF TakeJob
<1>2. /\ Waits(s) /\ ~Runs(s) /\ ~Found(s) /\ ~Hunted(s) /\ s \in registry /\ submitted[s] = 1
      /\ submitted \in [Seeds -> {0, 1}]
  BY <1>1 DEF TrackerInv, TrackerTypes, JobInv, Waits
<1>3. /\ submitted' \in [Seeds -> {0, 1}] /\ submitted'[s] = 0
      /\ \A c \in Seeds : c # s => submitted'[c] = submitted[c]
  BY <1>1, <1>2
<1>4. /\ \A c \in Seeds : /\ (Waits(c)' <=> Waits(c) /\ c # s) /\ (Found(c)' <=> Found(c))
                          /\ (Hunted(c)' <=> Hunted(c)) /\ (Scouted(c)' <=> Scouted(c))
      /\ Waiting' = Waiting \ {s} /\ s \in Waiting /\ HuntsOnce' = HuntsOnce
  <2>1. \A c \in Seeds : Waits(c)' <=> Waits(c) /\ c # s
    BY <1>3 DEF Waits
  <2>2. Waiting' = Waiting \ {s} /\ s \in Waiting
    BY <1>2, <1>3 DEF Waiting
  <2>3. (\A c \in Seeds : (Found(c)' <=> Found(c)) /\ (Hunted(c)' <=> Hunted(c)) /\ (Scouted(c)' <=> Scouted(c))) /\ HuntsOnce' = HuntsOnce
    BY <1>0 DEF Found, Hunted, Scouted, HuntsOnce
  <2> QED
    BY <2>1, <2>2, <2>3
<1>n. NoSeed \notin Seeds
  BY TrackerAssumption
<1>5. /\ crew' \in [Crew -> [at : {"idle", "run", "track", "recorded", "flushed"},
                             seed : Seeds \union {NoSeed}]]
      /\ \A v \in Crew : crew'[v].at = "idle" <=> crew'[v].seed = NoSeed
      /\ crew'[w].at = "run" /\ crew'[w].seed = s
      /\ \A v \in Crew : v # w => crew'[v] = crew[v]
      /\ crew[w].at = "idle" /\ crew[w].seed = NoSeed
  <2>1. crew[w].at = "idle" /\ crew' = [crew EXCEPT ![w] = [at |-> "run", seed |-> s]]
    BY <1>1 DEF Proceed
  <2>2. crew[w].seed = NoSeed
    BY <2>1 DEF TrackerInv, TrackerTypes
  <2> QED
    BY <1>n, <2>1, <2>2, CrewMoves DEF TrackerInv
<1>6. /\ \A c \in Seeds : Runs(c)' <=> Runs(c) \/ c = s
      /\ RunsOnce' /\ Working' = Working \union {w} /\ w \notin Working
      /\ Busy(s)' = Busy(s) \union {w} /\ w \notin Busy(s)
      /\ \A c \in Seeds : c # s => Busy(c)' = Busy(c)
  <2>1. \A c \in Seeds : Runs(c)' <=> Runs(c) \/ c = s
    BY <1>5 DEF Runs
  <2>2. RunsOnce'
    BY <1>2, <1>5 DEF TrackerInv, JobInv, RunsOnce, Runs
  <2>3. Working' = Working \union {w} /\ w \notin Working
    BY <1>n, <1>5 DEF Working
  <2>4. Busy(s)' = Busy(s) \union {w} /\ w \notin Busy(s)
    BY <1>n, <1>5 DEF Busy
  <2>5. \A c \in Seeds : c # s => Busy(c)' = Busy(c)
    BY <1>n, <1>5 DEF Busy
  <2> QED
    BY <2>1, <2>2, <2>3, <2>4, <2>5
<1>7. TrackerTypes'
  BY <1>0, <1>3, <1>5 DEF TrackerInv, TrackerTypes
<1>8. LogInv'
  BY <1>0 DEF TrackerInv, LogInv
<1>9. JobInv'
  BY <1>0, <1>2, <1>4, <1>6 DEF TrackerInv, JobInv
<1>10. CountInv'
  <2>1. /\ IsFiniteSet(Waiting) /\ IsFiniteSet(Waiting') /\ Cardinality(Waiting) \in Nat
        /\ Cardinality(Waiting') = Cardinality(Waiting) - 1
    BY <1>4, FS_RemoveElement, FS_CardinalityType DEF TrackerInv, CountInv
  <2>2. /\ Cardinality(Working) \in Nat /\ Cardinality(Working') = Cardinality(Working) + 1
        /\ Cardinality(Busy(s)) \in Nat /\ Cardinality(Busy(s)') = Cardinality(Busy(s)) + 1
    <3>1. /\ IsFiniteSet(Working) /\ Cardinality(Working) \in Nat
          /\ IsFiniteSet(Busy(s)) /\ Cardinality(Busy(s)) \in Nat
      BY CrewCounted
    <3>2. Cardinality(Working') = Cardinality(Working) + 1
      BY <1>6, <3>1, FS_AddElement
    <3>3. Cardinality(Busy(s)') = Cardinality(Busy(s)) + 1
      BY <1>6, <3>1, FS_AddElement
    <3> QED
      BY <3>1, <3>2, <3>3
  <2>3. depth' = Cardinality(Waiting') + Cardinality(Working')
    BY <1>0, <2>1, <2>2 DEF TrackerInv, CountInv
  <2>4. pending'[s] = submitted'[s] + Cardinality(Busy(s)')
    <3>1. pending[s] = 1 + Cardinality(Busy(s))
      BY <1>2 DEF TrackerInv, CountInv
    <3> QED
      BY <1>0, <1>3, <2>2, <3>1
  <2>5. \A c \in Seeds : c # s => pending'[c] = submitted'[c] + Cardinality(Busy(c)')
    BY <1>0, <1>3, <1>6 DEF TrackerInv, CountInv
  <2> QED
    BY <2>1, <2>3, <2>4, <2>5 DEF CountInv
<1>d. mode # "down"
  BY <1>1, <1>2 DEF TrackerInv, PhaseInv
<1>11. PhaseInv'
  <2>1. unread \subseteq Seeds
    BY DEF TrackerInv, TrackerTypes
  <2> QED
    BY <1>0, <1>d, <1>4, <2>1 DEF TrackerInv, PhaseInv
<1>12. StopInv'
  BY <1>0 DEF TrackerInv, StopInv
<1>13. KeptInv' /\ (RoomForRetries => RoomInv')
  <2>1. Unsettled' \subseteq Unsettled
    BY <1>0, <1>2, <1>4, <1>6 DEF Unsettled
  <2>2. RoomForRetries => Fit(Unsettled', InBatch(batch, hunting["main"]))
    BY <2>1, FitsSmaller DEF TrackerInv, RoomInv
  <2>3. RoomForRetries => RoomInv'
    BY <1>0, <2>2 DEF TrackerInv, RoomInv, Fit
  <2>4. KeptInv'
    BY <1>0, <1>d, <1>4, <1>6 DEF TrackerInv, KeptInv, TrackerTypes
  <2> QED
    BY <2>3, <2>4
<1> QED
  BY <1>7, <1>8, <1>9, <1>10, <1>11, <1>12, <1>13 DEF TrackerInv

\* A worker whose run is over, by a retry or by a record.
LEMMA RunEnds ==
    ASSUME TrackerTypes, RunsOnce, NEW w \in Crew, Proceed(w, {"run"}, "track", crew[w].seed)
    PROVE  /\ crew' \in [Crew -> [at : {"idle", "run", "track", "recorded", "flushed"},
                                  seed : Seeds \union {NoSeed}]]
           /\ \A v \in Crew : crew'[v].at = "idle" <=> crew'[v].seed = NoSeed
           /\ crew[w].seed \in Seeds /\ crew[w].at = "run"
           /\ \A c \in Seeds : Runs(c)' <=> Runs(c) /\ c # crew[w].seed
           /\ \A c \in Seeds : Busy(c)' = Busy(c)
           /\ RunsOnce' /\ Working' = Working
<1>n. NoSeed \notin Seeds
  BY TrackerAssumption
<1>1. /\ crew[w].at = "run" /\ crew[w].seed \in Seeds
      /\ crew' = [crew EXCEPT ![w] = [at |-> "track", seed |-> crew[w].seed]]
  BY DEF Proceed, TrackerTypes
<1>2. /\ crew' \in [Crew -> [at : {"idle", "run", "track", "recorded", "flushed"},
                             seed : Seeds \union {NoSeed}]]
      /\ \A v \in Crew : crew'[v].at = "idle" <=> crew'[v].seed = NoSeed
      /\ crew'[w].at = "track" /\ crew'[w].seed = crew[w].seed
      /\ \A v \in Crew : v # w => crew'[v] = crew[v]
  BY <1>n, <1>1, CrewMoves
<1>3. (\A c \in Seeds : Busy(c)' = Busy(c)) /\ Working' = Working
  BY <1>2, CrewStays
<1>4. \A v \in Crew : v # w /\ crew[v].at = "run" => crew[v].seed # crew[w].seed
  BY <1>1 DEF RunsOnce
<1>5. \A c \in Seeds : Runs(c)' <=> Runs(c) /\ c # crew[w].seed
  BY <1>1, <1>2, <1>4 DEF Runs
<1>6. RunsOnce'
  BY <1>2 DEF RunsOnce
<1> QED
  BY <1>1, <1>2, <1>3, <1>5, <1>6

\* A job that was not long enough is enqueued anew, by itself.
LEMMA RetryKeeps ==
    ASSUME TrackerInv, NEW w \in Crew, Retry(w)
    PROVE  TrackerInv'
<1>s. PICK s : s = crew[w].seed
  OBVIOUS
<1>0. /\ Proceed(w, {"run"}, "track", crew[w].seed) /\ Enqueue(s)
      /\ UNCHANGED <<jsonl, ledger, persisted, mode, boots, queueFile, registry, unread, hunting, batch, flush>>
  BY <1>s DEF Retry, logVars, lifeVars
<1>1. /\ crew' \in [Crew -> [at : {"idle", "run", "track", "recorded", "flushed"},
                             seed : Seeds \union {NoSeed}]]
      /\ \A v \in Crew : crew'[v].at = "idle" <=> crew'[v].seed = NoSeed
      /\ s \in Seeds /\ crew[w].at = "run"
      /\ \A c \in Seeds : Runs(c)' <=> Runs(c) /\ c # s
      /\ \A c \in Seeds : Busy(c)' = Busy(c)
      /\ RunsOnce' /\ Working' = Working
  BY <1>s, <1>0, RunEnds DEF TrackerInv, JobInv
<1>2. Runs(s) /\ ~Waits(s) /\ ~Found(s) /\ ~Hunted(s) /\ s \in registry
  <2>1. Runs(s)
    BY <1>s, <1>1 DEF Runs
  <2> QED
    BY <1>1, <2>1 DEF TrackerInv, JobInv
<1>3. /\ \A c \in Seeds : (Found(c)' <=> Found(c)) /\ (Hunted(c)' <=> Hunted(c)) /\ (Scouted(c)' <=> Scouted(c))
      /\ HuntsOnce' = HuntsOnce
  BY <1>0 DEF Found, Hunted, Scouted, HuntsOnce
<1>4. /\ pending' \in [Seeds -> Int] /\ submitted' \in [Seeds -> {0, 1}] /\ depth' \in Int
      /\ CountInv' /\ accepted' = accepted \union {s} /\ turnedAway' = turnedAway
      /\ \A c \in Seeds : Waits(c)' <=> Waits(c) \/ c = s
  BY <1>0, <1>1, <1>2, JobEnqueued DEF TrackerInv
<1>d. mode # "down"
  BY <1>1 DEF TrackerInv, PhaseInv
<1>5. TrackerTypes' /\ LogInv'
  <2>1. TrackerTypes'
    BY <1>0, <1>1, <1>4 DEF TrackerInv, TrackerTypes
  <2>2. LogInv'
    BY <1>0 DEF TrackerInv, LogInv
  <2> QED
    BY <2>1, <2>2
<1>6. JobInv'
  BY <1>0, <1>1, <1>2, <1>3, <1>4 DEF TrackerInv, JobInv
<1>7. PhaseInv'
  <2>1. unread \subseteq Seeds
    BY DEF TrackerInv, TrackerTypes
  <2> QED
    BY <1>0, <1>d, <1>3, <2>1 DEF TrackerInv, PhaseInv
<1>8. StopInv'
  BY <1>0, <1>1 DEF TrackerInv, StopInv
<1>9. KeptInv' /\ (RoomForRetries => RoomInv')
  <2>1. s \in Unsettled
    BY <1>s, <1>1 DEF Unsettled, Busy
  <2>2. Unsettled' \subseteq Unsettled
    BY <1>0, <1>1, <1>3, <1>4, <2>1 DEF Unsettled
  <2>3. RoomForRetries => Fit(Unsettled', InBatch(batch, hunting["main"]))
    BY <2>2, FitsSmaller DEF TrackerInv, RoomInv
  <2>4. RoomForRetries => RoomInv'
    BY <1>0, <1>4, <2>3 DEF TrackerInv, RoomInv, Fit
  <2>5. KeptInv'
    BY <1>0, <1>d, <1>1, <1>3, <1>4 DEF TrackerInv, KeptInv, TrackerTypes
  <2> QED
    BY <2>4, <2>5
<1> QED
  BY <1>4, <1>5, <1>6, <1>7, <1>8, <1>9 DEF TrackerInv

\* A job is recorded in the ledger of what was found.
LEMMA FoundKeeps ==
    ASSUME TrackerInv, NEW w \in Crew, RecordFound(w)
    PROVE  TrackerInv'
<1>s. PICK s : s = crew[w].seed
  OBVIOUS
<1>0. /\ Proceed(w, {"run"}, "track", crew[w].seed) /\ ledger' = Recorded("found", s)
      /\ UNCHANGED <<jsonl, persisted, mode, boots, queueFile, registry, pending, depth, submitted,
                     unread, hunting, batch, flush, accepted, turnedAway>>
  BY <1>s DEF RecordFound, lifeVars, queueCopies, promises
<1>1. /\ crew' \in [Crew -> [at : {"idle", "run", "track", "recorded", "flushed"},
                             seed : Seeds \union {NoSeed}]]
      /\ \A v \in Crew : crew'[v].at = "idle" <=> crew'[v].seed = NoSeed
      /\ s \in Seeds /\ crew[w].at = "run"
      /\ \A c \in Seeds : Runs(c)' <=> Runs(c) /\ c # s
      /\ \A c \in Seeds : Busy(c)' = Busy(c)
      /\ RunsOnce' /\ Working' = Working
  BY <1>s, <1>0, RunEnds DEF TrackerInv, JobInv
<1>2. Runs(s) /\ ~Waits(s) /\ ~Found(s) /\ ~Hunted(s) /\ s \in registry
  <2>1. Runs(s)
    BY <1>s, <1>1 DEF Runs
  <2> QED
    BY <1>1, <2>1 DEF TrackerInv, JobInv
<1>3. /\ \A c \in Seeds : (Waits(c)' <=> Waits(c)) /\ (Hunted(c)' <=> Hunted(c)) /\ (Scouted(c)' <=> Scouted(c))
      /\ HuntsOnce' = HuntsOnce /\ Waiting' = Waiting
  BY <1>0 DEF Waits, Hunted, Scouted, HuntsOnce, Waiting
<1>4. /\ ledger' \in [Ledgers -> Seq(Seeds)] /\ IsInjective(ledger'["found"])
      /\ \A c \in Seeds : Found(c)' <=> Found(c) \/ c = s
      /\ LogInv'
  <2>1. TrackerTypes /\ LogInv /\ "found" \in Ledgers /\ IsInjective(ledger["found"])
    BY DEF TrackerInv, LogInv, Ledgers
  <2>2. /\ ledger' \in [Ledgers -> Seq(Seeds)]
        /\ \A j \in Ledgers \ {"found"} : ledger'[j] = ledger[j]
        /\ Len(ledger'["found"]) = Len(ledger["found"]) + 1
        /\ \A p \in 0 .. Len(ledger["found"]) :
              SubSeq(ledger'["found"], 1, p) = SubSeq(ledger["found"], 1, p)
        /\ \A c \in Seeds : Found(c)' <=> Found(c) \/ c = s
        /\ IsInjective(ledger'["found"])
    BY <1>0, <1>1, <1>2, <2>1, LedgerGrows
  <2>3. LogInv'
    BY <1>0, <2>1, <2>2, LogAppended
  <2> QED
    BY <2>2, <2>3
<1>d. mode # "down"
  BY <1>1 DEF TrackerInv, PhaseInv
<1>5. TrackerTypes'
  BY <1>0, <1>1, <1>4 DEF TrackerInv, TrackerTypes
<1>6. JobInv'
  BY <1>0, <1>1, <1>2, <1>3, <1>4 DEF TrackerInv, JobInv
<1>7. CountInv'
  BY <1>0, <1>1, <1>3 DEF TrackerInv, CountInv
<1>8. PhaseInv'
  <2>1. unread \subseteq Seeds
    BY DEF TrackerInv, TrackerTypes
  <2> QED
    BY <1>0, <1>d, <1>4, <2>1 DEF TrackerInv, PhaseInv
<1>9. StopInv'
  BY <1>0, <1>1 DEF TrackerInv, StopInv
<1>10. KeptInv' /\ (RoomForRetries => RoomInv')
  <2>1. Unsettled' = Unsettled
    BY <1>0, <1>1, <1>3 DEF Unsettled
  <2>2. RoomForRetries => RoomInv'
    BY <1>0, <2>1 DEF TrackerInv, RoomInv, Fit
  <2>3. KeptInv'
    BY <1>0, <1>d, <1>1, <1>3, <1>4 DEF TrackerInv, KeptInv, TrackerTypes
  <2> QED
    BY <2>2, <2>3
<1> QED
  BY <1>4, <1>5, <1>6, <1>7, <1>8, <1>9, <1>10 DEF TrackerInv

\* A worker records how long the job took.
LEMMA TrackKeeps ==
    ASSUME TrackerInv, NEW w \in Crew, RecordTrack(w)
    PROVE  TrackerInv'
<1>s. PICK s : s = crew[w].seed
  OBVIOUS
<1>0. /\ Proceed(w, {"track"}, "recorded", crew[w].seed) /\ ledger' = Recorded("track", s)
      /\ UNCHANGED <<jsonl, persisted, mode, boots, queueFile, registry, pending, depth, submitted,
                     unread, hunting, batch, flush, accepted, turnedAway>>
  BY <1>s DEF RecordTrack, lifeVars, queueCopies, promises
<1>1. /\ crew' \in [Crew -> [at : {"idle", "run", "track", "recorded", "flushed"},
                             seed : Seeds \union {NoSeed}]]
      /\ \A v \in Crew : crew'[v].at = "idle" <=> crew'[v].seed = NoSeed
      /\ \A c \in Seeds : (Runs(c)' <=> Runs(c)) /\ Busy(c)' = Busy(c)
      /\ RunsOnce' /\ Working' = Working
      /\ crew[w].at # "idle" /\ s \in Seeds
  <2>1. Proceed(w, {"track", "recorded"}, "recorded", crew[w].seed)
    BY <1>0 DEF Proceed
  <2> QED
    BY <1>s, <2>1, StageEnds DEF TrackerInv, JobInv
<1>3. /\ \A c \in Seeds : (Waits(c)' <=> Waits(c)) /\ (Hunted(c)' <=> Hunted(c)) /\ (Scouted(c)' <=> Scouted(c))
      /\ HuntsOnce' = HuntsOnce /\ Waiting' = Waiting
  BY <1>0 DEF Waits, Hunted, Scouted, HuntsOnce, Waiting
<1>4. /\ ledger' \in [Ledgers -> Seq(Seeds)] /\ ledger'["found"] = ledger["found"]
      /\ \A c \in Seeds : Found(c)' <=> Found(c)
      /\ LogInv'
  <2>1. TrackerTypes /\ LogInv /\ "track" \in Ledgers /\ IsInjective(ledger["found"])
    BY DEF TrackerInv, LogInv, Ledgers
  <2>2. /\ ledger' \in [Ledgers -> Seq(Seeds)]
        /\ \A j \in Ledgers \ {"track"} : ledger'[j] = ledger[j]
        /\ Len(ledger'["track"]) = Len(ledger["track"]) + 1
        /\ \A p \in 0 .. Len(ledger["track"]) :
              SubSeq(ledger'["track"], 1, p) = SubSeq(ledger["track"], 1, p)
    BY <1>0, <1>1, <2>1, LedgerGrows
  <2>3. ledger'["found"] = ledger["found"]
    BY <2>2 DEF Ledgers
  <2>4. LogInv'
    BY <1>0, <2>1, <2>2, <2>3, LogAppended
  <2> QED
    BY <2>2, <2>3, <2>4 DEF Found
<1>d. mode # "down"
  BY <1>1 DEF TrackerInv, PhaseInv
<1>5. TrackerTypes'
  BY <1>0, <1>1, <1>4 DEF TrackerInv, TrackerTypes
<1>6. JobInv'
  BY <1>0, <1>1, <1>3, <1>4 DEF TrackerInv, JobInv
<1>7. CountInv'
  BY <1>0, <1>1, <1>3 DEF TrackerInv, CountInv
<1>8. PhaseInv'
  <2>1. unread \subseteq Seeds
    BY DEF TrackerInv, TrackerTypes
  <2> QED
    BY <1>0, <1>d, <1>4, <2>1 DEF TrackerInv, PhaseInv
<1>9. StopInv'
  BY <1>0, <1>1 DEF TrackerInv, StopInv
<1>10. KeptInv' /\ (RoomForRetries => RoomInv')
  <2>1. Unsettled' = Unsettled
    BY <1>0, <1>1, <1>3 DEF Unsettled
  <2>2. RoomForRetries => RoomInv'
    BY <1>0, <2>1 DEF TrackerInv, RoomInv, Fit
  <2>3. KeptInv'
    BY <1>0, <1>d, <1>1, <1>3, <1>4 DEF TrackerInv, KeptInv, TrackerTypes
  <2> QED
    BY <2>2, <2>3
<1> QED
  BY <1>4, <1>5, <1>6, <1>7, <1>8, <1>9, <1>10 DEF TrackerInv

\* A worker is done with its job, which is pending no longer; if it was
\* enqueued anew it is still pending for its second run.
LEMMA SettleKeeps ==
    ASSUME TrackerInv, NEW w \in Crew, Settle(w)
    PROVE  TrackerInv'
<1>s. PICK s : s = crew[w].seed
  OBVIOUS
<1>0. /\ crew[w].at \in {"recorded", "flushed"} /\ pending' = Remaining(s) /\ depth' = depth - 1
      /\ crew' = [crew EXCEPT ![w] = [at |-> "idle", seed |-> NoSeed]]
      /\ UNCHANGED <<jsonl, ledger, persisted, mode, boots, queueFile, registry, submitted, unread,
                     hunting, batch, flush, accepted, turnedAway>>
  BY <1>s DEF Settle, Proceed, logVars, lifeVars, promises
<1>n. NoSeed \notin Seeds
  BY TrackerAssumption
<1>1. /\ crew' \in [Crew -> [at : {"idle", "run", "track", "recorded", "flushed"},
                             seed : Seeds \union {NoSeed}]]
      /\ \A v \in Crew : crew'[v].at = "idle" <=> crew'[v].seed = NoSeed
      /\ crew'[w].at = "idle" /\ crew'[w].seed = NoSeed /\ s \in Seeds
      /\ \A v \in Crew : v # w => crew'[v] = crew[v]
  <2>1. s \in Seeds
    BY <1>s, <1>0 DEF TrackerInv, TrackerTypes
  <2> QED
    BY <1>n, <1>0, <2>1, CrewMoves DEF TrackerInv
<1>2. /\ \A c \in Seeds : Runs(c)' <=> Runs(c)
      /\ RunsOnce' /\ Working' = Working \ {w} /\ w \in Working
      /\ Busy(s)' = Busy(s) \ {w} /\ w \in Busy(s)
      /\ \A c \in Seeds : c # s => Busy(c)' = Busy(c)
  <2>1. \A c \in Seeds : Runs(c)' <=> Runs(c)
    BY <1>0, <1>1 DEF Runs
  <2>2. RunsOnce'
    BY <1>1 DEF TrackerInv, JobInv, RunsOnce
  <2>3. Working' = Working \ {w} /\ w \in Working
    BY <1>n, <1>s, <1>1 DEF Working
  <2>4. Busy(s)' = Busy(s) \ {w} /\ w \in Busy(s)
    BY <1>n, <1>s, <1>1 DEF Busy
  <2>5. \A c \in Seeds : c # s => Busy(c)' = Busy(c)
    BY <1>n, <1>s, <1>1 DEF Busy
  <2> QED
    BY <2>1, <2>2, <2>3, <2>4, <2>5
<1>3. /\ \A c \in Seeds : /\ (Waits(c)' <=> Waits(c)) /\ (Found(c)' <=> Found(c))
                          /\ (Hunted(c)' <=> Hunted(c)) /\ (Scouted(c)' <=> Scouted(c))
      /\ Waiting' = Waiting /\ HuntsOnce' = HuntsOnce
  BY <1>0 DEF Waits, Found, Hunted, Scouted, HuntsOnce, Waiting
<1>4. /\ pending' \in [Seeds -> Int] /\ pending'[s] = pending[s] - 1 /\ depth' \in Int
      /\ \A c \in Seeds : c # s => pending'[c] = pending[c]
  BY <1>0, <1>1 DEF TrackerInv, TrackerTypes, Remaining
<1>5. TrackerTypes' /\ LogInv'
  <2>1. TrackerTypes'
    BY <1>0, <1>1, <1>4 DEF TrackerInv, TrackerTypes
  <2>2. LogInv'
    BY <1>0 DEF TrackerInv, LogInv
  <2> QED
    BY <2>1, <2>2
<1>6. JobInv'
  BY <1>0, <1>2, <1>3 DEF TrackerInv, JobInv
<1>7. CountInv'
  <2>1. /\ IsFiniteSet(Working) /\ Cardinality(Working) \in Nat
        /\ IsFiniteSet(Busy(s)) /\ Cardinality(Busy(s)) \in Nat
    BY CrewCounted
  <2>2. Cardinality(Working') = Cardinality(Working) - 1
    BY <1>2, <2>1, FS_RemoveElement
  <2>3. Cardinality(Busy(s)') = Cardinality(Busy(s)) - 1
    BY <1>2, <2>1, FS_RemoveElement
  <2>4. IsFiniteSet(Waiting) /\ Cardinality(Waiting) \in Nat
    BY FS_CardinalityType DEF TrackerInv, CountInv
  <2>5. depth' = Cardinality(Waiting') + Cardinality(Working')
    BY <1>0, <1>3, <2>1, <2>2, <2>4 DEF TrackerInv, CountInv
  <2>6. pending'[s] = submitted'[s] + Cardinality(Busy(s)')
    <3>1. pending[s] = submitted[s] + Cardinality(Busy(s)) /\ submitted[s] \in {0, 1}
      BY <1>1 DEF TrackerInv, TrackerTypes, CountInv
    <3> QED
      BY <1>0, <1>4, <2>1, <2>3, <3>1
  <2>7. \A c \in Seeds : c # s => pending'[c] = submitted'[c] + Cardinality(Busy(c)')
    BY <1>0, <1>2, <1>4 DEF TrackerInv, CountInv
  <2> QED
    BY <1>3, <2>4, <2>5, <2>6, <2>7 DEF CountInv
<1>d. mode # "down"
  BY <1>0 DEF TrackerInv, PhaseInv
<1>8. PhaseInv'
  <2>1. unread \subseteq Seeds
    BY DEF TrackerInv, TrackerTypes
  <2> QED
    BY <1>0, <1>d, <1>3, <2>1 DEF TrackerInv, PhaseInv
<1>9. StopInv'
  <2>1. \A v \in Crew : crew[v].at = "idle" => crew'[v].at = "idle"
    BY <1>1
  <2> QED
    BY <1>0, <1>3, <2>1 DEF TrackerInv, StopInv
<1>10. KeptInv' /\ (RoomForRetries => RoomInv')
  <2>1. Unsettled' \subseteq Unsettled
    <3>1. \A c \in Seeds : Busy(c)' \subseteq Busy(c)
      BY <1>2
    <3> QED
      BY <1>0, <1>3, <3>1 DEF Unsettled
  <2>2. RoomForRetries => Fit(Unsettled', InBatch(batch, hunting["main"]))
    BY <2>1, FitsSmaller DEF TrackerInv, RoomInv
  <2>3. RoomForRetries => RoomInv'
    BY <1>0, <2>2 DEF TrackerInv, RoomInv, Fit
  <2>4. KeptInv'
    BY <1>0, <1>d, <1>2, <1>3 DEF TrackerInv, KeptInv, TrackerTypes
  <2> QED
    BY <2>3, <2>4
<1> QED
  BY <1>5, <1>6, <1>7, <1>8, <1>9, <1>10 DEF TrackerInv

LEMMA TrackerInvInit == TrackerInit => TrackerInv
<1> SUFFICES ASSUME TrackerInit PROVE TrackerInv
  OBVIOUS
<1>0. /\ jsonl = [k \in Ledgers |-> <<>>] /\ queueFile = {}
      /\ mode = "down" /\ registry = {} /\ unread = {}
      /\ ledger = [k \in Ledgers |-> <<>>] /\ persisted = NoneYet
      /\ pending = Nowhere /\ depth = 0 /\ submitted = Nowhere
      /\ hunting = [h \in Finders |-> NoSeed] /\ crew = [w \in Crew |-> AtRest]
      /\ flush = NoFlush /\ accepted = {} /\ batch = Starting /\ turnedAway = FALSE
  BY DEF TrackerInit
<1>n. NoSeed \notin Seeds
  BY TrackerAssumption
<1>1. /\ \A c \in Seeds : ~Found(c) /\ ~Waits(c) /\ ~Runs(c) /\ ~Hunted(c) /\ ~Scouted(c) /\ Busy(c) = {}
      /\ Waiting = {} /\ Working = {} /\ Unsettled = {} /\ RunsOnce /\ HuntsOnce
  <2>1. \A c \in Seeds : ~Found(c) /\ ~Waits(c)
    BY <1>0 DEF Found, Waits, Nowhere, Ledgers
  <2>2. \A c \in Seeds : ~Runs(c) /\ ~Hunted(c) /\ ~Scouted(c) /\ Busy(c) = {}
    BY <1>0, <1>n DEF Runs, Hunted, Scouted, Busy, Finders, AtRest
  <2>3. Waiting = {} /\ Working = {}
    BY <1>0 DEF Waiting, Working, AtRest, Nowhere
  <2>4. Unsettled = {}
    BY <1>0, <2>1, <2>2 DEF Unsettled
  <2>5. RunsOnce /\ HuntsOnce
    BY <1>0, <1>n DEF RunsOnce, HuntsOnce, AtRest
  <2> QED
    BY <2>1, <2>2, <2>3, <2>4, <2>5
<1>2. TrackerTypes
  <2>1. jsonl \in [Ledgers -> Seq(Seeds)] /\ ledger \in [Ledgers -> Seq(Seeds)]
        /\ persisted \in [Ledgers -> Nat]
    BY <1>0 DEF NoneYet
  <2>2. pending \in [Seeds -> Int] /\ submitted \in [Seeds -> {0, 1}] /\ depth \in Int
    BY <1>0 DEF Nowhere
  <2>3. /\ hunting \in [Finders -> Seeds \union {NoSeed}]
        /\ crew \in [Crew -> [at : {"idle", "run", "track", "recorded", "flushed"},
                              seed : Seeds \union {NoSeed}]]
        /\ \A w \in Crew : crew[w].at = "idle" <=> crew[w].seed = NoSeed
    BY <1>0 DEF AtRest
  <2>4. flush \in [by : Finders \union Crew \union {"stop"}, at : Moments, seeds : SUBSET Seeds]
    BY <1>0 DEF NoFlush, Moments
  <2>5. Batched(batch, hunting["main"])
    BY <1>0, StartsIdle DEF Finders
  <2> QED
    BY <1>0, <2>1, <2>2, <2>3, <2>4, <2>5 DEF TrackerTypes
<1>3. LogInv
  BY <1>0 DEF LogInv, IsInjective, Ledgers
<1>4. JobInv
  BY <1>1 DEF JobInv
<1>5. CountInv
  <2>1. IsFiniteSet({}) /\ Cardinality({}) = 0
    BY FS_EmptySet
  <2>2. \A s \in Seeds : pending[s] = 0 /\ submitted[s] = 0
    BY <1>0 DEF Nowhere
  <2>3. \A s \in Seeds : pending[s] = submitted[s] + Cardinality(Busy(s))
    BY <1>1, <2>1, <2>2
  <2> QED
    BY <1>0, <1>1, <2>1, <2>3 DEF CountInv
<1>6. PhaseInv
  BY <1>0, <1>1 DEF PhaseInv, Nowhere, AtRest, Starting
<1>7. StopInv
  BY <1>0 DEF StopInv, NoFlush
<1>8. RoomInv /\ KeptInv
  <2>1. InBatch(batch, hunting["main"]) = 0
    BY <1>0, StartsIdle DEF Finders
  <2> QED
    BY <1>0, <1>1, <2>1, FitsNone DEF RoomInv, KeptInv, NoFlush
<1> QED
  BY <1>2, <1>3, <1>4, <1>5, <1>6, <1>7, <1>8 DEF TrackerInv

LEMMA TrackerInvNext == TrackerInv /\ [TrackerNext]_trackerVars => TrackerInv'
<1> SUFFICES ASSUME TrackerInv, [TrackerNext]_trackerVars PROVE TrackerInv'
  OBVIOUS
<1>0. CASE UNCHANGED trackerVars
  <2>1. UNCHANGED <<jsonl, queueFile, mode, registry, ledger, persisted, pending, depth, submitted,
                    unread, hunting, crew, batch, flush, accepted, turnedAway>>
    BY <1>0 DEF trackerVars
  <2>2. Unsettled' = Unsettled /\ Waiting' = Waiting
    BY <2>1, SameWork
  <2>3. TrackerTypes' /\ LogInv'
    BY <2>1 DEF TrackerInv, TrackerTypes, LogInv
  <2>4. JobInv' /\ CountInv'
    BY <2>1, SameJobs
  <2>5. PhaseInv' /\ StopInv'
    <3>1. unread \subseteq Seeds
      BY DEF TrackerInv, TrackerTypes
    <3> QED
      BY <2>1, <2>2, <3>1, SameWork DEF TrackerInv, PhaseInv, StopInv
  <2>6. KeptInv' /\ (RoomForRetries => RoomInv')
    <3>1. RoomForRetries => RoomInv'
      BY <2>1, <2>2 DEF TrackerInv, RoomInv, Fit
    <3>2. KeptInv'
      BY <2>1, SameWork DEF TrackerInv, KeptInv, TrackerTypes, OnDisk
    <3> QED
      BY <3>1, <3>2
  <2> QED
    BY <2>3, <2>4, <2>5, <2>6 DEF TrackerInv
<1>1. CASE LoadingDone \/ StopSignal \/ ScoutsJoined
  BY <1>1, PhaseKeeps
<1>2. CASE FlushAtStop
  BY <1>2, FlushStarts DEF FlushAtStop
<1>3. ASSUME NEW h \in Finders, FlushByHunter(h) PROVE TrackerInv'
  BY <1>3, FlushStarts DEF FlushByHunter
<1>4. ASSUME NEW w \in Crew, FlushByWorker(w) PROVE TrackerInv'
  BY <1>4, FlushStarts DEF FlushByWorker
<1> QED
  BY <1>0, <1>1, <1>2, <1>3, <1>4, BootKeeps, LoadKeeps, PersistKeeps, SnapshotKeeps, OpenKeeps,
     CloseKeeps, KillKeeps, WarmUpKeeps, MainKeeps, HuntKeeps, EnqueueKeeps, TakeKeeps, RetryKeeps, FoundKeeps, TrackKeeps,
     SettleKeeps DEF TrackerNext

LEMMA TrackerKeeps == TrackerSpec => []TrackerInv
<1>1. TrackerInit => TrackerInv
  BY TrackerInvInit
<1>2. TrackerInv /\ [TrackerNext]_trackerVars => TrackerInv'
  BY TrackerInvNext
<1> QED
  BY <1>1, <1>2, PTL DEF TrackerSpec

\* A log is the first part of its ledger and no seed is found twice, whoever
\* wrote it and however often the process was killed (main.c:1133, 1230).
THEOREM LogsKept == TrackerSpec => []LogsInStep
<1>1. TrackerInv => LogsInStep
  BY DEF TrackerInv, LogInv, LogsInStep
<1> QED
  BY <1>1, TrackerKeeps, PTL

\* No seed that was enqueued or left on disk is forgotten but where a load finds
\* the queue full, and no load does if what scouts leave free of the queue has room
\* for what scouts and main may still enqueue and a retry of each worker
\* (main.c:1584, 1848, 1961, 1991).
THEOREM SeedsKept == TrackerSpec => []SeedKept
<1>1. TrackerInv => SeedKept
  <2> SUFFICES ASSUME TrackerInv PROVE SeedKept
    OBVIOUS
  <2>1. RoomForRetries => ~turnedAway
    BY DEF TrackerInv, RoomInv
  <2>2. CASE mode = "down"
    BY <2>1, <2>2 DEF TrackerInv, KeptInv, SeedKept
  <2>3. CASE mode # "down"
    <3> SUFFICES ASSUME NEW s \in accepted
                 PROVE  s \in Range(ledger["found"]) \/ s \in Pending \/ s \in unread
      BY <2>1, <2>3 DEF SeedKept
    <3>1. s \in Seeds /\ (s \in unread \/ Found(s) \/ Waits(s) \/ Runs(s))
      BY <2>3 DEF TrackerInv, TrackerTypes, KeptInv
    <3>2. Pending = {c \in Seeds : Waits(c) \/ Busy(c) # {}}
      BY PendingSeeds DEF TrackerInv
    <3>3. Runs(s) => Busy(s) # {}
      BY DEF Runs, Busy
    <3>4. Found(s) => s \in Range(ledger["found"])
      BY DEF Found, Range
    <3> QED
      BY <3>1, <3>2, <3>3, <3>4
  <2> QED
    BY <2>2, <2>3
<1> QED
  BY <1>1, TrackerKeeps, PTL
====
