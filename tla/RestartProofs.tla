--------------------------- MODULE RestartProofs -----------------------------
(***************************************************************************)
(* Proofs about the range scanner: what its files and its memory say of a   *)
(* block, over any number of kills, torn lines and restarts.                *)
(***************************************************************************)
EXTENDS Scanner, Integers, FiniteSetTheorems, WellFoundedInduction, SequenceTheorems, TLAPS

-----------------------------------------------------------------------------
(* Least and greatest elements.  The strict subsets of a finite set are well  *)
(* founded, and of the sets of elements below one the smallest is empty.      *)

LEMMA LeastOfFinite ==
    ASSUME NEW S, S \subseteq Int, IsFiniteSet(S), S # {}
    PROVE  Min(S) \in S /\ \A y \in S : Min(S) <= y
<1> DEFINE Below(x) == {y \in S : y < x}
           T == {Below(x) : x \in S}
           R == StrictSubsetOrdering(S)
<1>1. \E U \in T : \A V \in T : ~ (<<V, U>> \in R)
  <2>1. T # {}
    OBVIOUS
  <2>2. \A x \in S : Below(x) \in SUBSET S /\ IsFiniteSet(Below(x))
    BY FS_Subset
  <2>3. T \subseteq FiniteSubsetsOf(S)
    BY <2>2 DEF FiniteSubsetsOf
  <2>4. IsWellFoundedOn(R, FiniteSubsetsOf(S))
    BY FS_StrictSubsetOrderingWellFounded
  <2> HIDE DEF T, R
  <2> QED
    BY <2>1, <2>3, <2>4, WFMin
<1>2. PICK x \in S : \A y \in S : ~ (<<Below(y), Below(x)>> \in R)
  BY <1>1
<1>3. ASSUME NEW y \in S, y < x PROVE FALSE
  <2>1. \A z \in S : z < y => z < x
    BY <1>3
  <2>2. Below(y) \subseteq Below(x)
    BY <2>1
  <2>3. y \in Below(x) /\ y \notin Below(y)
    BY <1>3
  <2>4. <<Below(y), Below(x)>> \in (SUBSET S) \X (SUBSET S)
    OBVIOUS
  <2>5. <<Below(y), Below(x)>> \in R
    BY <2>2, <2>3, <2>4 DEF StrictSubsetOrdering
  <2> QED
    BY <2>5, <1>2
<1>4. \E z \in S : \A y \in S : z <= y
  BY <1>3
<1> QED
  BY <1>4 DEF Min

LEMMA GreatestOfFinite ==
    ASSUME NEW S, S \subseteq Int, IsFiniteSet(S), S # {}
    PROVE  Max(S) \in S /\ \A y \in S : Max(S) >= y
<1> DEFINE Above(x) == {y \in S : y > x}
           T == {Above(x) : x \in S}
           R == StrictSubsetOrdering(S)
<1>1. \E U \in T : \A V \in T : ~ (<<V, U>> \in R)
  <2>1. T # {}
    OBVIOUS
  <2>2. \A x \in S : Above(x) \in SUBSET S /\ IsFiniteSet(Above(x))
    BY FS_Subset
  <2>3. T \subseteq FiniteSubsetsOf(S)
    BY <2>2 DEF FiniteSubsetsOf
  <2>4. IsWellFoundedOn(R, FiniteSubsetsOf(S))
    BY FS_StrictSubsetOrderingWellFounded
  <2> HIDE DEF T, R
  <2> QED
    BY <2>1, <2>3, <2>4, WFMin
<1>2. PICK x \in S : \A y \in S : ~ (<<Above(y), Above(x)>> \in R)
  BY <1>1
<1>3. ASSUME NEW y \in S, y > x PROVE FALSE
  <2>1. \A z \in S : z > y => z > x
    BY <1>3
  <2>2. Above(y) \subseteq Above(x)
    BY <2>1
  <2>3. y \in Above(x) /\ y \notin Above(y)
    BY <1>3
  <2>4. <<Above(y), Above(x)>> \in (SUBSET S) \X (SUBSET S)
    OBVIOUS
  <2>5. <<Above(y), Above(x)>> \in R
    BY <2>2, <2>3, <2>4 DEF StrictSubsetOrdering
  <2> QED
    BY <2>5, <1>2
<1>4. \E z \in S : \A y \in S : z >= y
  BY <1>3
<1> QED
  BY <1>4 DEF Max

-----------------------------------------------------------------------------
(* The journal and the checkpoint. *)

Lines == [type : {"R", "D"}, block : Blocks]
HasLine(b) == \E i \in DOMAIN journal : journal[i].block = b

\* A start will know of the block.
Saved(b) == b < checkpoint.verified \/ HasLine(b)

LEMMA BlockNumbers ==
    /\ LastBlock \in Nat /\ NoBlock \in Nat /\ NoBlock \notin Blocks
    /\ Blocks \subseteq 0 .. NoBlock
    /\ \A b \in 0 .. NoBlock : b = NoBlock \/ b \in Blocks
    /\ \A b \in Blocks : b \in Nat /\ b < NoBlock /\ b + 1 \in 0 .. NoBlock
    /\ 0 \in 0 .. NoBlock
  BY ScannerAssumption DEF Blocks, NoBlock

\* advance_verified_frontier passes only blocks that are done.
LEMMA ContiguousPasses ==
    ASSUME NEW state \in [Blocks -> 0 .. 2], NEW b \in 0 .. NoBlock
    PROVE  /\ Contiguous(state, b) \in 0 .. NoBlock /\ b <= Contiguous(state, b)
           /\ \A k \in Blocks : b <= k /\ k < Contiguous(state, b) => state[k] = 2
<1> DEFINE S == {k \in b .. NoBlock : k = NoBlock \/ state[k] # 2}
<1>1. S \subseteq Int /\ S # {} /\ S \subseteq b .. NoBlock
  BY BlockNumbers
<1>2. IsFiniteSet(S)
  BY <1>1, BlockNumbers, FS_Interval, FS_Subset
<1>3. Min(S) \in S /\ \A y \in S : Min(S) <= y
  <2> HIDE DEF S
  <2> QED
    BY <1>1, <1>2, LeastOfFinite
<1>4. Contiguous(state, b) = Min(S)
  BY DEF Contiguous
<1>5. Min(S) \in b .. NoBlock
  BY <1>3
<1>6. ASSUME NEW k \in Blocks, b <= k, k < Min(S), state[k] # 2 PROVE FALSE
  <2>1. k \in S
    BY <1>6, BlockNumbers
  <2> QED
    BY <2>1, <1>3, <1>5, <1>6, BlockNumbers
<1> QED
  BY <1>4, <1>5, <1>6, BlockNumbers

LEMMA LargerOfTwo ==
    ASSUME NEW a \in Nat, NEW b \in Nat
    PROVE  /\ Max({a, b}) \in {a, b} /\ Max({a, b}) >= a /\ Max({a, b}) >= b
<1>1. \E x \in {a, b} : \A y \in {a, b} : x >= y
  OBVIOUS
<1> QED
  BY <1>1 DEF Max

LEMMA LargestOfThree ==
    ASSUME NEW a \in Nat, NEW b \in Nat, NEW c \in Nat
    PROVE  /\ Max({a, b, c}) \in {a, b, c}
           /\ Max({a, b, c}) >= a /\ Max({a, b, c}) >= b /\ Max({a, b, c}) >= c
<1>1. \E x \in {a, b, c} : \A y \in {a, b, c} : x >= y
  OBVIOUS
<1> QED
  BY <1>1 DEF Max

LEMMA LinesOnDisk ==
    ASSUME journal \in Seq(Lines)
    PROVE  /\ Len(journal) \in Nat /\ DOMAIN journal = 1 .. Len(journal)
           /\ \A i \in DOMAIN journal :
                 journal[i].type \in {"R", "D"} /\ journal[i].block \in Blocks
<1>1. \A i \in DOMAIN journal : journal[i] \in Lines
  OBVIOUS
<1> QED
  BY <1>1 DEF Lines

\* Recovery marks a block done only for a done line, and knows of each block
\* that has a line.
LEMMA RecoveryReads ==
    ASSUME journal \in Seq(Lines)
    PROVE  /\ Recovered \in [Blocks -> 0 .. 2]
           /\ \A b \in Blocks : Recovered[b] = 0 <=> ~HasLine(b)
           /\ \A b \in Blocks : Recovered[b] = 2 =>
                 \E i \in DOMAIN journal : journal[i].type = "D" /\ journal[i].block = b
<1> DEFINE lines(b) == {i \in DOMAIN journal : journal[i].block = b}
<1>1. ASSUME NEW b \in Blocks, lines(b) # {}
      PROVE  Max(lines(b)) \in lines(b)
  <2> DEFINE S == lines(b)
  <2>1. S \subseteq 1 .. Len(journal)
    OBVIOUS
  <2>2. S \subseteq Int /\ IsFiniteSet(S)
    BY <2>1, FS_Interval, FS_Subset
  <2>3. S # {}
    BY <1>1
  <2> HIDE DEF S
  <2>4. Max(S) \in S
    BY <2>2, <2>3, GreatestOfFinite
  <2> QED
    BY <2>4 DEF S
<1>2. \A b \in Blocks : Recovered[b] = IF lines(b) = {} THEN 0
                                       ELSE IF journal[Max(lines(b))].type = "R" THEN 1 ELSE 2
  BY DEF Recovered
<1>3. \A i \in DOMAIN journal : journal[i].type \in {"R", "D"}
  BY LinesOnDisk
<1>4. DOMAIN Recovered = Blocks /\ Recovered = [b \in Blocks |-> Recovered[b]]
  BY DEF Recovered
<1>5. \A b \in Blocks : lines(b) = {} <=> ~HasLine(b)
  BY DEF HasLine
<1>6. \A b \in Blocks : Recovered[b] = 2 =>
         \E i \in DOMAIN journal : journal[i].type = "D" /\ journal[i].block = b
  <2> SUFFICES ASSUME NEW b \in Blocks, Recovered[b] = 2
               PROVE  \E i \in DOMAIN journal : journal[i].type = "D" /\ journal[i].block = b
    OBVIOUS
  <2>1. lines(b) # {} /\ journal[Max(lines(b))].type # "R"
    BY <1>2
  <2>2. Max(lines(b)) \in lines(b)
    BY <1>1, <2>1
  <2> QED
    BY <1>3, <2>1, <2>2
<1> HIDE DEF lines
<1>7. \A b \in Blocks : Recovered[b] \in 0 .. 2 /\ (Recovered[b] = 0 <=> lines(b) = {})
  BY <1>2
<1> QED
  BY <1>4, <1>5, <1>6, <1>7

\* The dispatch goes on behind the last block that has a line.
LEMMA JournalEnds ==
    ASSUME journal \in Seq(Lines)
    PROVE  /\ JournalEnd \in 0 .. NoBlock
           /\ \A b \in Nat : b < JournalEnd => \E i \in DOMAIN journal : b <= journal[i].block
<1> DEFINE S == {0} \union {journal[i].block + 1 : i \in DOMAIN journal}
<1>1. \A i \in DOMAIN journal : journal[i].block \in Blocks
  BY LinesOnDisk
<1>2. S \subseteq 0 .. NoBlock /\ S # {}
  BY <1>1, BlockNumbers
<1>3. S \subseteq Int /\ IsFiniteSet(S)
  <2> HIDE DEF S
  <2>1. IsFiniteSet(0 .. NoBlock)
    BY BlockNumbers, FS_Interval
  <2>2. IsFiniteSet(S)
    BY <1>2, <2>1, FS_Subset
  <2>3. 0 .. NoBlock \subseteq Int
    BY BlockNumbers
  <2> QED
    BY <1>2, <2>2, <2>3
<1>4. Max(S) \in S
  <2> HIDE DEF S
  <2> QED
    BY <1>2, <1>3, GreatestOfFinite
<1>5. JournalEnd = Max(S)
  BY DEF JournalEnd
<1>6. JournalEnd = 0 \/ \E i \in DOMAIN journal : JournalEnd = journal[i].block + 1
  BY <1>4, <1>5
<1>7. ASSUME NEW b \in Nat, b < JournalEnd
      PROVE  \E i \in DOMAIN journal : b <= journal[i].block
  <2>1. PICK i \in DOMAIN journal : JournalEnd = journal[i].block + 1
    BY <1>6, <1>7
  <2>2. journal[i].block \in Nat
    BY <1>1, BlockNumbers
  <2> QED
    BY <2>1, <2>2, <1>7
<1>8. JournalEnd \in 0 .. NoBlock
  <2> HIDE DEF S
  <2> QED
    BY <1>2, <1>4, <1>5
<1> QED
  BY <1>7, <1>8

\* What a start takes from the files.
LEMMA StartReads ==
    ASSUME journal \in Seq(Lines), checkpoint \in [verified : 0 .. NoBlock, next : 0 .. NoBlock]
    PROVE  /\ RecoveredFrontier \in 0 .. NoBlock /\ RecoveredNext \in 0 .. NoBlock
           /\ checkpoint.verified <= RecoveredFrontier /\ RecoveredFrontier <= RecoveredNext
           /\ \A b \in Blocks : b < RecoveredFrontier => b < checkpoint.verified \/ Recovered[b] = 2
           /\ \A b \in Blocks : b < RecoveredNext =>
                 \/ b < RecoveredFrontier \/ b < checkpoint.next
                 \/ \E i \in DOMAIN journal : b <= journal[i].block
<1> DEFINE c == Contiguous(Recovered, 0)
           v == checkpoint.verified
           n == checkpoint.next
<1>1. /\ c \in 0 .. NoBlock
      /\ \A b \in Blocks : b < c => Recovered[b] = 2
  BY RecoveryReads, ContiguousPasses, BlockNumbers
<1>2. v \in 0 .. NoBlock /\ n \in 0 .. NoBlock
  OBVIOUS
<1>3. /\ RecoveredFrontier \in {v, c} /\ RecoveredFrontier >= v /\ RecoveredFrontier >= c
  <2> HIDE DEF c, v
  <2>1. Max({v, c}) \in {v, c} /\ Max({v, c}) >= v /\ Max({v, c}) >= c
    BY <1>1, <1>2, LargerOfTwo, BlockNumbers
  <2>2. RecoveredFrontier = Max({v, c})
    BY DEF RecoveredFrontier, c, v
  <2> QED
    BY <2>1, <2>2
<1>4. JournalEnd \in 0 .. NoBlock
  BY JournalEnds
<1>5. /\ RecoveredNext \in {n, JournalEnd, RecoveredFrontier}
      /\ RecoveredNext >= RecoveredFrontier
  <2> HIDE DEF c, v, n
  <2>1. Max({n, JournalEnd, RecoveredFrontier}) \in {n, JournalEnd, RecoveredFrontier}
        /\ Max({n, JournalEnd, RecoveredFrontier}) >= RecoveredFrontier
    BY <1>1, <1>2, <1>3, <1>4, LargestOfThree, BlockNumbers
  <2> QED
    BY <2>1 DEF RecoveredNext, n
<1> QED
  <2>1. \A b \in Blocks : b < JournalEnd => \E i \in DOMAIN journal : b <= journal[i].block
    BY JournalEnds, BlockNumbers
  <2> HIDE DEF c
  <2> QED
    BY <1>1, <1>2, <1>3, <1>4, <1>5, <2>1, BlockNumbers

-----------------------------------------------------------------------------
(* The invariant. *)

HasDone(b) == \E i \in DOMAIN journal : journal[i].type = "D" /\ journal[i].block = b
Queued(b) == \E i \in DOMAIN queued : queued[i] = b
Scanning(b) == \E w \in ScanWorkers : scan[w].block = b

ScannerTypes ==
    /\ journal \in Seq(Lines) /\ ragged \in BOOLEAN
    /\ checkpoint \in [verified : 0 .. NoBlock, next : 0 .. NoBlock]
    /\ phase \in {"down", "up", "stopping"}
    /\ blockState \in [Blocks -> 0 .. 2]
    /\ inflight \subseteq Blocks /\ requeue \subseteq Blocks
    /\ frontier \in 0 .. NoBlock /\ nextBlock \in 0 .. NoBlock
    /\ main \in [at : {"idle", "check", "reserve", "mark", "submit"}, block : 0 .. NoBlock]
    /\ main.at = "idle" <=> main.block = NoBlock
    /\ scan \in [ScanWorkers -> [at : {"idle", "scan", "done", "record"}, block : 0 .. NoBlock]]
    /\ \A w \in ScanWorkers : scan[w].at = "idle" <=> scan[w].block = NoBlock
    /\ queued \in Seq(Blocks)
    /\ scanned \subseteq Blocks /\ blurred \subseteq Blocks

\* A process that is not running has nothing in memory.
DownInv ==
    phase = "down" =>
        /\ blockState = [b \in Blocks |-> 0] /\ inflight = {} /\ requeue = {}
        /\ frontier = 0 /\ nextBlock = 0
        /\ main = Idling /\ scan = [w \in ScanWorkers |-> Idling] /\ queued = <<>>

\* Done means scanned, wherever it is noted.
SoundInv ==
    /\ \A b \in Blocks :
          \/ b < frontier \/ b < checkpoint.verified \/ blockState[b] = 2 \/ HasDone(b)
          => b \in scanned
    /\ \A w \in ScanWorkers : scan[w].at \in {"done", "record"} => scan[w].block \in scanned

\* A block that main has found to be nobody else's is in flight, and in one place.
OnceQueued == \A i, j \in DOMAIN queued : queued[i] = queued[j] => i = j
Chosen(b) == main.block = b /\ main.at # "check"
PlaceInv ==
    /\ \A b \in Blocks :
          /\ b \in requeue => blockState[b] # 2 /\ b \notin inflight /\ main.block # b
          /\ Chosen(b) => b \in inflight /\ blockState[b] # 2 /\ ~Queued(b) /\ ~Scanning(b)
          /\ Queued(b) => b \in inflight /\ blockState[b] # 2 /\ ~Scanning(b)
          /\ Scanning(b) => b \in inflight /\ blockState[b] # 2
          /\ phase = "up" /\ b \in inflight => Chosen(b) \/ Queued(b) \/ Scanning(b)
    /\ OnceQueued
    /\ \A v, w \in ScanWorkers : scan[v].block = scan[w].block /\ scan[v].block \in Blocks => v = w

\* What a start will know: all that is behind a line, the next block or the
\* checkpoint, and all that main has reserved.
Behind(c) == \A b \in Blocks \ blurred : b < c => Saved(b)
SavedInv ==
    /\ phase # "down" => checkpoint.verified <= frontier
    /\ \A b \in Blocks \ blurred :
          /\ b < checkpoint.next \/ b < frontier \/ blockState[b] = 2 => Saved(b)
          /\ \/ Queued(b) \/ Scanning(b)
             \/ main.block = b /\ main.at \in {"mark", "submit"}
             => Saved(b)
          /\ b < nextBlock => Saved(b) \/ main.block = b
          /\ b \in inflight => Saved(b) \/ (main.block = b /\ main.at = "reserve")
    /\ \A c \in Blocks :
          /\ HasLine(c) \/ main.block = c \/ Queued(c) \/ Scanning(c) => Behind(c)
          /\ c \in requeue => HasLine(c)

\* Nothing between the frontier and the next block is forgotten.
UpInv ==
    phase = "up" =>
        \A b \in Blocks \ blurred :
            frontier <= b /\ b < nextBlock =>
                blockState[b] = 2 \/ b \in requeue \/ main.block = b \/ Queued(b) \/ Scanning(b)

ScanInv == ScannerTypes /\ DownInv /\ SoundInv /\ PlaceInv /\ SavedInv /\ UpInv

-----------------------------------------------------------------------------
(* What the steps do to the journal, the queue and the workers. *)

\* A line is appended whole or torn; behind a torn line it is not legible.
LEMMA LineWritten ==
    ASSUME ScannerTypes, NEW type \in {"R", "D"}, NEW b \in Blocks,
           AppendLine(type, b) \/ TearLine(type, b)
    PROVE  /\ journal' \in Seq(Lines) /\ ragged' \in BOOLEAN
           /\ \A c \in Blocks :
                 /\ HasLine(c) => HasLine(c)'
                 /\ HasLine(c)' => HasLine(c) \/ c = b
                 /\ HasDone(c)' => HasDone(c) \/ (c = b /\ type = "D")
           /\ blurred \subseteq blurred' /\ blurred' \subseteq Blocks
           /\ AppendLine(type, b) /\ type = "R" /\ b \notin blurred' => HasLine(b)'
<1> DEFINE e == [type |-> type, block |-> b]
           j == Append(journal, e)
<1>1. e \in Lines /\ e.type = type /\ e.block = b
  BY DEF Lines
<1>2. journal \in Seq(Lines) /\ ragged \in BOOLEAN /\ blurred \subseteq Blocks
  BY DEF ScannerTypes
<1>3. /\ j \in Seq(Lines) /\ DOMAIN journal = 1 .. Len(journal) /\ Len(journal) \in Nat
      /\ DOMAIN j = 1 .. Len(journal) + 1
      /\ \A i \in 1 .. Len(journal) : j[i] = journal[i]
      /\ j[Len(journal) + 1] = e
  BY <1>1, <1>2
<1>4. journal' = journal \/ (~ragged /\ journal' = j)
  BY DEF AppendLine, TearLine, Legible
<1>5. AppendLine(type, b) => journal' = IF ragged THEN journal ELSE j
  BY DEF AppendLine, Legible
<1>6. /\ blurred' = IF ragged /\ type = "R" THEN blurred \union {(b)} ELSE blurred
      /\ ragged' \in BOOLEAN
  BY DEF AppendLine, TearLine
<1> HIDE DEF e, j
<1>7. CASE journal' = journal
  <2>1. \A c \in Blocks : (HasLine(c)' <=> HasLine(c)) /\ (HasDone(c)' <=> HasDone(c))
    BY <1>7 DEF HasLine, HasDone
  <2>2. AppendLine(type, b) /\ type = "R" /\ b \notin blurred' => HasLine(b)'
    <3> SUFFICES ASSUME AppendLine(type, b), type = "R", b \notin blurred'
                 PROVE  HasLine(b)'
      OBVIOUS
    <3>1. journal' = j
      BY <1>2, <1>5, <1>6
    <3> QED
      BY <3>1, <1>1, <1>3 DEF HasLine
  <2> QED
    BY <1>2, <1>6, <1>7, <2>1, <2>2
<1>8. CASE journal' = j
  <2>1. \A c \in Blocks : HasLine(c) => HasLine(c)'
    BY <1>3, <1>8 DEF HasLine
  <2>2. \A c \in Blocks : HasLine(c)' => HasLine(c) \/ c = b
    BY <1>1, <1>3, <1>8 DEF HasLine
  <2>3. \A c \in Blocks : HasDone(c)' => HasDone(c) \/ (c = b /\ type = "D")
    BY <1>1, <1>3, <1>8 DEF HasDone
  <2>4. HasLine(b)'
    BY <1>1, <1>3, <1>8 DEF HasLine
  <2> QED
    BY <1>2, <1>3, <1>6, <1>8, <2>1, <2>2, <2>3, <2>4
<1> QED
  BY <1>4, <1>7, <1>8

\* What is left of a sequence without one of its elements.
LEMMA OneRemoved ==
    ASSUME NEW S, NEW q \in Seq(S), NEW i \in 1 .. Len(q)
    PROVE  /\ RemoveAt(q, i) \in Seq(S) /\ Len(RemoveAt(q, i)) = Len(q) - 1
           /\ \A k \in 1 .. Len(q) - 1 :
                 RemoveAt(q, i)[k] = IF k < i THEN q[k] ELSE q[k + 1]
<1> DEFINE n == Len(q)
<1>1. n \in Nat /\ i \in Int
  OBVIOUS
<1>2. PICK s \in Seq(S) : /\ s = SubSeq(q, 1, i - 1) /\ Len(s) = i - 1
                          /\ \A k \in 1 .. i - 1 : s[k] = q[k]
  <2>1. i - 1 \in 0 .. n /\ 1 \in 1 .. n + 1
    BY <1>1
  <2>2. /\ SubSeq(q, 1, i - 1) \in Seq(S)
        /\ Len(SubSeq(q, 1, i - 1)) = IF 1 <= i - 1 THEN i - 1 - 1 + 1 ELSE 0
        /\ \A k \in 1 .. i - 1 - 1 + 1 : SubSeq(q, 1, i - 1)[k] = q[1 + k - 1]
    BY <2>1, SubSeqProperties
  <2>3. /\ (IF 1 <= i - 1 THEN i - 1 - 1 + 1 ELSE 0) = i - 1
        /\ i - 1 - 1 + 1 = i - 1 /\ \A k \in 1 .. i - 1 : 1 + k - 1 = k
    BY <2>1
  <2> DEFINE w == SubSeq(q, 1, i - 1)
  <2>4. w = SubSeq(q, 1, i - 1) /\ w \in Seq(S) /\ Len(w) = i - 1
    BY <2>2, <2>3
  <2>5. \A k \in 1 .. i - 1 : w[k] = q[k]
    BY <2>2, <2>3
  <2> HIDE DEF w
  <2> QED
    BY <2>4, <2>5
<1>3. PICK t \in Seq(S) : /\ t = SubSeq(q, i + 1, n) /\ Len(t) = n - i
                          /\ \A k \in 1 .. n - i : t[k] = q[i + k]
  <2>1. i + 1 \in 1 .. n + 1 /\ n \in (i + 1) - 1 .. n
    BY <1>1
  <2>2. /\ SubSeq(q, i + 1, n) \in Seq(S)
        /\ Len(SubSeq(q, i + 1, n)) = IF i + 1 <= n THEN n - (i + 1) + 1 ELSE 0
        /\ \A k \in 1 .. n - (i + 1) + 1 : SubSeq(q, i + 1, n)[k] = q[i + 1 + k - 1]
    BY <2>1, SubSeqProperties
  <2>3. /\ (IF i + 1 <= n THEN n - (i + 1) + 1 ELSE 0) = n - i
        /\ n - (i + 1) + 1 = n - i /\ \A k \in 1 .. n - i : i + 1 + k - 1 = i + k
    BY <1>1
  <2> DEFINE w == SubSeq(q, i + 1, n)
  <2>4. w = SubSeq(q, i + 1, n) /\ w \in Seq(S) /\ Len(w) = n - i
    BY <2>2, <2>3
  <2>5. \A k \in 1 .. n - i : w[k] = q[i + k]
    BY <2>2, <2>3
  <2> HIDE DEF w
  <2> QED
    BY <2>4, <2>5
<1>4. RemoveAt(q, i) = s \o t
  <2>1. s = SubSeq(q, 1, i - 1) /\ t = SubSeq(q, i + 1, n)
    BY <1>2, <1>3
  <2> QED
    BY <2>1, Zenon DEF RemoveAt
<1>5. s \o t \in Seq(S) /\ Len(s \o t) = Len(s) + Len(t)
  BY ConcatProperties
<1>6. Len(s) + Len(t) = n - 1
  <2>1. Len(s) = i - 1 /\ Len(t) = n - i
    BY <1>2, <1>3
  <2> QED
    BY <1>1, <2>1
<1>7. \A k \in 1 .. n - 1 : (s \o t)[k] = IF k <= i - 1 THEN s[k] ELSE t[k - (i - 1)]
  <2>1. \A k \in 1 .. Len(s) + Len(t) : (s \o t)[k] = IF k <= Len(s) THEN s[k] ELSE t[k - Len(s)]
    BY ConcatProperties
  <2> QED
    BY <1>2, <1>6, <2>1
<1>8. ASSUME NEW k \in 1 .. n - 1
      PROVE  (s \o t)[k] = IF k < i THEN q[k] ELSE q[k + 1]
  <2>1. CASE k < i
    <3>1. k <= i - 1 /\ k \in 1 .. i - 1
      BY <1>1, <2>1
    <3> QED
      BY <1>2, <1>7, <2>1, <3>1
  <2>2. CASE ~(k < i)
    <3>1. ~(k <= i - 1) /\ k - (i - 1) \in 1 .. n - i /\ i + (k - (i - 1)) = k + 1
      BY <1>1, <2>2
    <3> QED
      BY <1>3, <1>7, <2>2, <3>1
  <2> QED
    BY <2>1, <2>2
<1> QED
  BY <1>4, <1>5, <1>6, <1>8

\* A worker takes one task out of the queue.
LEMMA TaskFetched ==
    ASSUME queued \in Seq(Blocks), OnceQueued, NEW i \in DOMAIN queued,
           queued' = RemoveAt(queued, i)
    PROVE  /\ queued' \in Seq(Blocks) /\ OnceQueued' /\ queued[i] \in Blocks
           /\ \A c \in Blocks : Queued(c)' <=> Queued(c) /\ c # queued[i]
<1> DEFINE n == Len(queued)
<1>1. n \in Nat /\ DOMAIN queued = 1 .. n /\ i \in 1 .. n
  OBVIOUS
<1>5. /\ queued' \in Seq(Blocks) /\ Len(queued') = n - 1
      /\ \A k \in 1 .. n - 1 : queued'[k] = IF k < i THEN queued[k] ELSE queued[k + 1]
  BY <1>1, OneRemoved
<1>6. DOMAIN queued' = 1 .. n - 1
  BY <1>5
<1>7. OnceQueued'
  <2> SUFFICES ASSUME NEW k \in 1 .. n - 1, NEW l \in 1 .. n - 1, queued'[k] = queued'[l]
               PROVE  k = l
    BY <1>6 DEF OnceQueued
  <2>1. \A x, y \in 1 .. n : queued[x] = queued[y] => x = y
    BY <1>1 DEF OnceQueued
  <2>2. /\ queued'[k] = IF k < i THEN queued[k] ELSE queued[k + 1]
        /\ queued'[l] = IF l < i THEN queued[l] ELSE queued[l + 1]
    BY <1>5
  <2>3. k \in 1 .. n /\ k + 1 \in 1 .. n /\ l \in 1 .. n /\ l + 1 \in 1 .. n
    BY <1>1
  <2>4. PICK x \in 1 .. n : x = IF k < i THEN k ELSE k + 1
    BY <2>3
  <2>5. PICK y \in 1 .. n : y = IF l < i THEN l ELSE l + 1
    BY <2>3
  <2>6. queued[x] = queued[y]
    BY <2>2, <2>4, <2>5
  <2>7. x = y
    BY <2>1, <2>6
  <2> QED
    BY <1>1, <2>4, <2>5, <2>7
<1>8. ASSUME NEW c \in Blocks PROVE Queued(c)' <=> Queued(c) /\ c # queued[i]
  <2>1. ASSUME Queued(c)' PROVE Queued(c) /\ c # queued[i]
    <3>1. PICK k \in 1 .. n - 1 : queued'[k] = c
      BY <1>6, <2>1 DEF Queued
    <3>2. PICK l \in 1 .. n : l = IF k < i THEN k ELSE k + 1
      BY <1>1
    <3>3. queued[l] = c /\ l # i
      BY <1>1, <1>5, <3>1, <3>2
    <3>4. \A x, y \in 1 .. n : queued[x] = queued[y] => x = y
      BY <1>1 DEF OnceQueued
    <3>5. queued[l] # queued[i]
      BY <1>1, <3>3, <3>4
    <3> QED
      BY <1>1, <3>3, <3>5 DEF Queued
  <2>2. ASSUME Queued(c), c # queued[i] PROVE Queued(c)'
    <3>1. PICK k \in 1 .. n : queued[k] = c
      BY <1>1, <2>2 DEF Queued
    <3>2. CASE k < i
      BY <1>1, <1>5, <1>6, <3>1, <3>2 DEF Queued
    <3>3. CASE k > i
      <4>1. k - 1 \in 1 .. n - 1 /\ queued'[k - 1] = c
        BY <1>1, <1>5, <3>1, <3>3
      <4> QED
        BY <1>6, <4>1 DEF Queued
    <3> QED
      BY <1>1, <2>2, <3>1, <3>2, <3>3
  <2> QED
    BY <2>1, <2>2
<1>9. queued[i] \in Blocks
  OBVIOUS
<1> QED
  BY <1>5, <1>7, <1>8, <1>9

LEMMA TaskSubmitted ==
    ASSUME queued \in Seq(Blocks), OnceQueued, NEW b \in Blocks, ~Queued(b),
           queued' = Append(queued, b)
    PROVE  /\ queued' \in Seq(Blocks) /\ OnceQueued'
           /\ \A c \in Blocks : Queued(c)' <=> Queued(c) \/ c = b
<1>1. /\ queued' \in Seq(Blocks) /\ Len(queued) \in Nat
      /\ DOMAIN queued = 1 .. Len(queued) /\ DOMAIN queued' = 1 .. Len(queued) + 1
      /\ \A k \in 1 .. Len(queued) : queued'[k] = queued[k]
      /\ queued'[Len(queued) + 1] = b
  OBVIOUS
<1>2. OnceQueued'
  BY <1>1 DEF OnceQueued, Queued
<1>3. \A c \in Blocks : Queued(c)' <=> Queued(c) \/ c = b
  BY <1>1 DEF Queued
<1> QED
  BY <1>1, <1>2, <1>3

\* A worker moves on.
LEMMA WorkerMoves ==
    ASSUME ScannerTypes, NEW w \in ScanWorkers, NEW at \in {"idle", "scan", "done", "record"},
           NEW b \in 0 .. NoBlock, at = "idle" <=> b = NoBlock,
           scan' = [scan EXCEPT ![w] = [at |-> at, block |-> b]]
    PROVE  /\ scan' \in [ScanWorkers ->
                 [at : {"idle", "scan", "done", "record"}, block : 0 .. NoBlock]]
           /\ \A v \in ScanWorkers : scan'[v].at = "idle" <=> scan'[v].block = NoBlock
           /\ scan'[w].at = at /\ scan'[w].block = b
           /\ \A v \in ScanWorkers : v # w => scan'[v] = scan[v]
  BY DEF ScannerTypes

\* A process that has ended is nowhere.
LEMMA NothingLeft ==
    ASSUME Forgotten
    PROVE  /\ phase' = "down" /\ DownInv' /\ PlaceInv' /\ UpInv'
           /\ blockState' \in [Blocks -> 0 .. 2]
           /\ inflight' = {} /\ requeue' = {} /\ frontier' = 0 /\ nextBlock' = 0
           /\ main' \in [at : {"idle", "check", "reserve", "mark", "submit"}, block : 0 .. NoBlock]
           /\ main'.at = "idle" /\ main'.block = NoBlock
           /\ scan' \in [ScanWorkers ->
                 [at : {"idle", "scan", "done", "record"}, block : 0 .. NoBlock]]
           /\ \A w \in ScanWorkers : scan'[w].at = "idle" /\ scan'[w].block = NoBlock
           /\ queued' \in Seq(Blocks)
           /\ \A b \in Blocks : blockState'[b] = 0 /\ ~Queued(b)' /\ ~Scanning(b)' /\ ~Chosen(b)'
<1>1. /\ phase' = "down" /\ blockState' = [b \in Blocks |-> 0] /\ inflight' = {}
      /\ requeue' = {} /\ frontier' = 0 /\ nextBlock' = 0
      /\ main' = [at |-> "idle", block |-> NoBlock]
      /\ scan' = [w \in ScanWorkers |-> [at |-> "idle", block |-> NoBlock]]
      /\ queued' = <<>>
  BY DEF Forgotten, Idling
<1>2. DownInv'
  BY <1>1 DEF DownInv, Idling
<1>3. \A b \in Blocks : blockState'[b] = 0 /\ ~Queued(b)' /\ ~Scanning(b)' /\ ~Chosen(b)'
  BY <1>1, BlockNumbers DEF Queued, Scanning, Chosen
<1>4. PlaceInv'
  BY <1>1, <1>3, BlockNumbers DEF PlaceInv, OnceQueued
<1>5. UpInv'
  BY <1>1 DEF UpInv
<1>6. /\ main' \in [at : {"idle", "check", "reserve", "mark", "submit"}, block : 0 .. NoBlock]
      /\ main'.at = "idle" /\ main'.block = NoBlock
  BY <1>1, BlockNumbers
<1>7. /\ scan' \in [ScanWorkers -> [at : {"idle", "scan", "done", "record"}, block : 0 .. NoBlock]]
      /\ \A w \in ScanWorkers : scan'[w].at = "idle" /\ scan'[w].block = NoBlock
  BY <1>1, BlockNumbers
<1> QED
  BY <1>1, <1>2, <1>3, <1>4, <1>5, <1>6, <1>7
LEMMA PickRequeuedKeeps ==
    ASSUME ScanInv, PickRequeued
    PROVE  ScanInv'
<1>i. ScannerTypes /\ DownInv /\ SoundInv /\ PlaceInv /\ SavedInv /\ UpInv
  BY DEF ScanInv
<1>0. PICK r \in requeue :
        /\ phase = "up" /\ main.at = "idle"
        /\ main' = [at |-> "check", block |-> r] /\ requeue' = requeue \ {(r)}
        /\ UNCHANGED <<journal, ragged, checkpoint, phase, blockState, inflight, frontier,
                       nextBlock, scan, queued, scanned, blurred>>
  BY DEF PickRequeued, MainGoes, diskVars
<1>r. r \in Blocks /\ main.block = NoBlock
  BY <1>i, <1>0 DEF ScannerTypes
<1>c. \A c \in Blocks : (Chosen(c)' <=> Chosen(c)) /\ ~Chosen(c)
  BY <1>0, <1>r, BlockNumbers DEF Chosen
<1>l. \A c \in Blocks : /\ (HasLine(c)' <=> HasLine(c)) /\ (HasDone(c)' <=> HasDone(c))
                        /\ (Saved(c)' <=> Saved(c)) /\ (Behind(c) => Behind(c)')
  BY <1>0 DEF HasLine, HasDone, Saved, Behind
<1>q. \A c \in Blocks : Queued(c)' <=> Queued(c)
  BY <1>0 DEF Queued
<1>s. \A c \in Blocks : Scanning(c)' <=> Scanning(c)
  BY <1>0 DEF Scanning
<1>1. ScannerTypes'
  BY <1>i, <1>0, <1>r, BlockNumbers DEF ScannerTypes
<1>2. DownInv'
  BY <1>0 DEF DownInv
<1>3. SoundInv'
  BY <1>i, <1>0, <1>l DEF SoundInv
<1>4. PlaceInv'
  BY <1>i, <1>0, <1>r, <1>c, <1>q, <1>s DEF PlaceInv, OnceQueued
<1>5. SavedInv'
  BY <1>i, <1>0, <1>r, <1>l, <1>q, <1>s, BlockNumbers DEF SavedInv
<1>6. UpInv'
  BY <1>i, <1>0, <1>r, <1>q, <1>s, BlockNumbers DEF UpInv
<1> QED
  BY <1>1, <1>2, <1>3, <1>4, <1>5, <1>6 DEF ScanInv

LEMMA PickNextKeeps ==
    ASSUME ScanInv, PickNext
    PROVE  ScanInv'
<1>i. ScannerTypes /\ DownInv /\ SoundInv /\ PlaceInv /\ SavedInv /\ UpInv
  BY DEF ScanInv
<1>0. /\ phase = "up" /\ requeue = {} /\ main.at = "idle" /\ main.block = NoBlock
      /\ nextBlock \in Blocks /\ nextBlock' = nextBlock + 1
      /\ main' = IF nextBlock < frontier \/ blockState[nextBlock] = 2
                 THEN main ELSE [at |-> "check", block |-> nextBlock]
      /\ UNCHANGED <<journal, ragged, checkpoint, phase, blockState, inflight, requeue, frontier,
                     scan, queued, scanned, blurred>>
  BY <1>i DEF PickNext, ScannerTypes, diskVars
<1>c. \A c \in Blocks : ~Chosen(c)' /\ ~Chosen(c)
  BY <1>0, BlockNumbers DEF Chosen
<1>m. \/ /\ nextBlock < frontier \/ blockState[nextBlock] = 2
         /\ main'.block = NoBlock /\ main'.at = "idle"
      \/ main'.block = nextBlock /\ main'.at = "check"
  BY <1>0
<1>l. \A c \in Blocks : /\ (HasLine(c)' <=> HasLine(c)) /\ (HasDone(c)' <=> HasDone(c))
                        /\ (Saved(c)' <=> Saved(c)) /\ (Behind(c) => Behind(c)')
  BY <1>0 DEF HasLine, HasDone, Saved, Behind
<1>q. \A c \in Blocks : Queued(c)' <=> Queued(c)
  BY <1>0 DEF Queued
<1>s. \A c \in Blocks : Scanning(c)' <=> Scanning(c)
  BY <1>0 DEF Scanning
<1>1. ScannerTypes'
  BY <1>i, <1>0, BlockNumbers DEF ScannerTypes
<1>2. DownInv'
  BY <1>0 DEF DownInv
<1>3. SoundInv'
  BY <1>i, <1>0, <1>l DEF SoundInv
<1>4. PlaceInv'
  BY <1>i, <1>0, <1>c, <1>q, <1>s DEF PlaceInv, OnceQueued
<1>5. SavedInv'
  <2>1. \A b \in Blocks : b < nextBlock' => b < nextBlock \/ b = nextBlock
    BY <1>0, BlockNumbers
  <2>2. Behind(nextBlock)
    BY <1>i, <1>0, BlockNumbers DEF SavedInv, Behind
  <2>3. \A b \in Blocks \ blurred : b < nextBlock' => Saved(b) \/ main'.block = b
    BY <1>i, <1>0, <1>m, <2>1, BlockNumbers DEF SavedInv
  <2> QED
    BY <1>i, <1>0, <1>m, <1>l, <1>q, <1>s, <2>2, <2>3, BlockNumbers DEF SavedInv
<1>6. UpInv'
  <2>1. \A b \in Blocks : b < nextBlock' => b < nextBlock \/ b = nextBlock
    BY <1>0, BlockNumbers
  <2> QED
    BY <1>i, <1>0, <1>m, <1>q, <1>s, <2>1, BlockNumbers DEF UpInv, ScannerTypes
<1> QED
  BY <1>1, <1>2, <1>3, <1>4, <1>5, <1>6 DEF ScanInv

LEMMA CheckKeeps ==
    ASSUME ScanInv, Check
    PROVE  ScanInv'
<1>i. ScannerTypes /\ DownInv /\ SoundInv /\ PlaceInv /\ SavedInv /\ UpInv
  BY DEF ScanInv
<1> DEFINE dup == blockState[main.block] = 2 \/ main.block \in inflight
<1>0. /\ main.at = "check"
      /\ main' = [at |-> IF dup THEN "idle" ELSE "reserve",
                  block |-> IF dup THEN NoBlock ELSE main.block]
      /\ inflight' = IF dup THEN inflight ELSE inflight \union {(main.block)}
      /\ UNCHANGED <<journal, ragged, checkpoint, phase, blockState, requeue, frontier, nextBlock,
                     scan, queued, scanned, blurred>>
  BY DEF Check, MainGoes, diskVars, progressVars
<1>d. \/ /\ dup /\ main'.at = "idle" /\ main'.block = NoBlock
         /\ main' = [at |-> "idle", block |-> NoBlock] /\ inflight' = inflight
      \/ /\ ~dup /\ main'.at = "reserve" /\ main'.block = main.block
         /\ main' = [at |-> "reserve", block |-> main.block]
         /\ inflight' = inflight \union {(main.block)}
  BY <1>0
<1>b. main.block \in Blocks /\ main.block # NoBlock /\ phase # "down"
  BY <1>i, <1>0, BlockNumbers DEF ScannerTypes, DownInv, Idling
<1>c. \A c \in Blocks : ~Chosen(c) /\ (Chosen(c)' <=> ~dup /\ c = main.block)
  BY <1>0, <1>b, BlockNumbers DEF Chosen
<1>l. \A c \in Blocks : /\ (HasLine(c)' <=> HasLine(c)) /\ (HasDone(c)' <=> HasDone(c))
                        /\ (Saved(c)' <=> Saved(c)) /\ (Behind(c) => Behind(c)')
  BY <1>0 DEF HasLine, HasDone, Saved, Behind
<1>q. \A c \in Blocks : Queued(c)' <=> Queued(c)
  BY <1>0 DEF Queued
<1>s. \A c \in Blocks : Scanning(c)' <=> Scanning(c)
  BY <1>0 DEF Scanning
<1>1. ScannerTypes'
  <2>1. CASE dup
    <3>1. main' \in [at : {"idle", "check", "reserve", "mark", "submit"}, block : 0 .. NoBlock]
      BY <1>d, <2>1, BlockNumbers
    <3> QED
      BY <1>i, <1>0, <1>d, <2>1, <3>1 DEF ScannerTypes
  <2>2. CASE ~dup
    <3>1. main' \in [at : {"idle", "check", "reserve", "mark", "submit"}, block : 0 .. NoBlock]
      BY <1>b, <1>d, <2>2, BlockNumbers
    <3> QED
      BY <1>i, <1>0, <1>b, <1>d, <2>2, <3>1 DEF ScannerTypes
  <2> QED
    BY <2>1, <2>2
<1>2. DownInv'
  BY <1>0, <1>b DEF DownInv
<1>3. SoundInv'
  BY <1>i, <1>0, <1>l DEF SoundInv
<1>4. PlaceInv'
  <2>1. CASE dup
    BY <1>i, <1>0, <1>b, <1>c, <1>q, <1>s, <2>1, BlockNumbers DEF PlaceInv, OnceQueued
  <2>2. CASE ~dup
    BY <1>i, <1>0, <1>b, <1>c, <1>q, <1>s, <2>2, BlockNumbers DEF PlaceInv, OnceQueued
  <2> QED
    BY <2>1, <2>2
<1>5. SavedInv'
  <2>1. CASE dup
    <3>1. ASSUME NEW b \in Blocks \ blurred, b = main.block PROVE Saved(b)
      BY <1>i, <1>0, <1>b, <1>d, <2>1, <3>1 DEF SavedInv
    <3> QED
      BY <1>i, <1>0, <1>b, <1>d, <1>l, <1>q, <1>s, <2>1, <3>1, BlockNumbers DEF SavedInv
  <2>2. CASE ~dup
    BY <1>i, <1>0, <1>b, <1>d, <1>l, <1>q, <1>s, <2>2, BlockNumbers DEF SavedInv
  <2> QED
    BY <2>1, <2>2
<1>6. UpInv'
  BY <1>i, <1>0, <1>b, <1>c, <1>q, <1>s, BlockNumbers DEF UpInv, PlaceInv
<1> QED
  BY <1>1, <1>2, <1>3, <1>4, <1>5, <1>6 DEF ScanInv

LEMMA ReserveKeeps ==
    ASSUME ScanInv, Reserve
    PROVE  ScanInv'
<1>i. ScannerTypes /\ DownInv /\ SoundInv /\ PlaceInv /\ SavedInv /\ UpInv
  BY DEF ScanInv
<1>0. /\ main.at = "reserve" /\ main' = [at |-> "mark", block |-> main.block]
      /\ AppendLine("R", main.block)
      /\ UNCHANGED <<checkpoint, phase, blockState, inflight, requeue, frontier, nextBlock,
                     scan, queued, scanned>>
  BY DEF Reserve, MainGoes, progressVars
<1>b. main.block \in Blocks /\ main.block # NoBlock /\ phase # "down"
  BY <1>i, <1>0, BlockNumbers DEF ScannerTypes, DownInv, Idling
<1>c. \A c \in Blocks : Chosen(c)' <=> Chosen(c)
  BY <1>0 DEF Chosen
<1>w. /\ journal' \in Seq(Lines) /\ ragged' \in BOOLEAN
      /\ \A c \in Blocks : /\ HasLine(c) => HasLine(c)'
                           /\ HasLine(c)' => HasLine(c) \/ c = main.block
                           /\ HasDone(c)' => HasDone(c)
      /\ blurred \subseteq blurred' /\ blurred' \subseteq Blocks
      /\ main.block \notin blurred' => HasLine(main.block)'
  BY <1>i, <1>0, <1>b, LineWritten
<1>v. \A c \in Blocks : (Saved(c) => Saved(c)') /\ (Behind(c) => Behind(c)')
  BY <1>0, <1>w DEF Saved, Behind
<1>q. \A c \in Blocks : Queued(c)' <=> Queued(c)
  BY <1>0 DEF Queued
<1>s. \A c \in Blocks : Scanning(c)' <=> Scanning(c)
  BY <1>0 DEF Scanning
<1>1. ScannerTypes'
  BY <1>i, <1>0, <1>b, <1>w DEF ScannerTypes
<1>2. DownInv'
  BY <1>0, <1>b DEF DownInv
<1>3. SoundInv'
  BY <1>i, <1>0, <1>w DEF SoundInv
<1>4. PlaceInv'
  BY <1>i, <1>0, <1>b, <1>c, <1>q, <1>s DEF PlaceInv, OnceQueued
<1>5. SavedInv'
  <2>1. main.block \notin blurred' => Saved(main.block)'
    BY <1>w DEF Saved
  <2> QED
    BY <1>i, <1>0, <1>b, <1>w, <1>v, <1>q, <1>s, <2>1 DEF SavedInv
<1>6. UpInv'
  BY <1>i, <1>0, <1>b, <1>w, <1>q, <1>s DEF UpInv
<1> QED
  BY <1>1, <1>2, <1>3, <1>4, <1>5, <1>6 DEF ScanInv

LEMMA MarkReservedKeeps ==
    ASSUME ScanInv, MarkReserved
    PROVE  ScanInv'
<1>i. ScannerTypes /\ DownInv /\ SoundInv /\ PlaceInv /\ SavedInv /\ UpInv
  BY DEF ScanInv
<1>0. /\ main.at = "mark" /\ main' = [at |-> "submit", block |-> main.block]
      /\ blockState' = [blockState EXCEPT ![main.block] =
                           IF blockState[main.block] = 0 THEN 1 ELSE blockState[main.block]]
      /\ UNCHANGED <<journal, ragged, checkpoint, phase, inflight, requeue, frontier, nextBlock,
                     scan, queued, scanned, blurred>>
  BY DEF MarkReserved, MainGoes, diskVars, progressVars
<1>b. main.block \in Blocks /\ main.block # NoBlock /\ phase # "down"
  BY <1>i, <1>0, BlockNumbers DEF ScannerTypes, DownInv, Idling
<1>c. \A c \in Blocks : Chosen(c)' <=> Chosen(c)
  BY <1>0 DEF Chosen
<1>d. /\ blockState' \in [Blocks -> 0 .. 2]
      /\ \A c \in Blocks : blockState'[c] = 2 <=> blockState[c] = 2
  BY <1>i, <1>0, <1>b DEF ScannerTypes
<1>l. \A c \in Blocks : /\ (HasLine(c)' <=> HasLine(c)) /\ (HasDone(c)' <=> HasDone(c))
                        /\ (Saved(c)' <=> Saved(c)) /\ (Behind(c) => Behind(c)')
  BY <1>0 DEF HasLine, HasDone, Saved, Behind
<1>q. \A c \in Blocks : Queued(c)' <=> Queued(c)
  BY <1>0 DEF Queued
<1>s. \A c \in Blocks : Scanning(c)' <=> Scanning(c)
  BY <1>0 DEF Scanning
<1>1. ScannerTypes'
  BY <1>i, <1>0, <1>b, <1>d DEF ScannerTypes
<1>2. DownInv'
  BY <1>0, <1>b DEF DownInv
<1>3. SoundInv'
  BY <1>i, <1>0, <1>d, <1>l DEF SoundInv
<1>4. PlaceInv'
  BY <1>i, <1>0, <1>b, <1>c, <1>d, <1>q, <1>s DEF PlaceInv, OnceQueued
<1>5. SavedInv'
  BY <1>i, <1>0, <1>b, <1>d, <1>l, <1>q, <1>s DEF SavedInv
<1>6. UpInv'
  BY <1>i, <1>0, <1>b, <1>d, <1>q, <1>s DEF UpInv
<1> QED
  BY <1>1, <1>2, <1>3, <1>4, <1>5, <1>6 DEF ScanInv

LEMMA SubmitKeeps ==
    ASSUME ScanInv, Submit
    PROVE  ScanInv'
<1>i. ScannerTypes /\ DownInv /\ SoundInv /\ PlaceInv /\ SavedInv /\ UpInv
  BY DEF ScanInv
<1>0. /\ main.at = "submit" /\ main' = [at |-> "idle", block |-> NoBlock]
      /\ queued' = Append(queued, main.block)
      /\ UNCHANGED <<journal, ragged, checkpoint, phase, blockState, inflight, requeue, frontier,
                     nextBlock, scan, scanned, blurred>>
  BY DEF Submit, MainGoes, diskVars, progressVars
<1>b. main.block \in Blocks /\ main.block # NoBlock /\ phase # "down"
  BY <1>i, <1>0, BlockNumbers DEF ScannerTypes, DownInv, Idling
<1>c. \A c \in Blocks : (Chosen(c) <=> c = main.block) /\ ~Chosen(c)'
  BY <1>0, <1>b, BlockNumbers DEF Chosen
<1>t. ~Queued(main.block) /\ OnceQueued /\ queued \in Seq(Blocks)
  BY <1>i, <1>b, <1>c DEF PlaceInv, ScannerTypes
<1>q. /\ queued' \in Seq(Blocks) /\ OnceQueued'
      /\ \A c \in Blocks : Queued(c)' <=> Queued(c) \/ c = main.block
  BY <1>0, <1>b, <1>t, TaskSubmitted
<1>l. \A c \in Blocks : /\ (HasLine(c)' <=> HasLine(c)) /\ (HasDone(c)' <=> HasDone(c))
                        /\ (Saved(c)' <=> Saved(c)) /\ (Behind(c) => Behind(c)')
  BY <1>0 DEF HasLine, HasDone, Saved, Behind
<1>s. \A c \in Blocks : Scanning(c)' <=> Scanning(c)
  BY <1>0 DEF Scanning
<1>1. ScannerTypes'
  BY <1>i, <1>0, <1>q, BlockNumbers DEF ScannerTypes
<1>2. DownInv'
  BY <1>0, <1>b DEF DownInv
<1>3. SoundInv'
  BY <1>i, <1>0, <1>l DEF SoundInv
<1>4. PlaceInv'
  BY <1>i, <1>0, <1>b, <1>c, <1>q, <1>s, BlockNumbers DEF PlaceInv
<1>5. SavedInv'
  BY <1>i, <1>0, <1>b, <1>l, <1>q, <1>s, BlockNumbers DEF SavedInv
<1>6. UpInv'
  BY <1>i, <1>0, <1>b, <1>q, <1>s, BlockNumbers DEF UpInv
<1> QED
  BY <1>1, <1>2, <1>3, <1>4, <1>5, <1>6 DEF ScanInv

LEMMA PollKeeps ==
    ASSUME ScanInv, Poll
    PROVE  ScanInv'
<1>i. ScannerTypes /\ DownInv /\ SoundInv /\ PlaceInv /\ SavedInv /\ UpInv
  BY DEF ScanInv
<1> DEFINE f == Contiguous(blockState, frontier)
<1>0. /\ phase # "down" /\ main.at = "idle" /\ frontier' = f
      /\ checkpoint' \in {checkpoint, [verified |-> f, next |-> Max({f, nextBlock})]}
      /\ UNCHANGED <<journal, ragged, phase, blockState, inflight, requeue, nextBlock, main, scan,
                     queued, scanned, blurred>>
  BY DEF Poll, SaveCheckpoint
<1>f. /\ f \in 0 .. NoBlock /\ frontier <= f
      /\ \A k \in Blocks : frontier <= k /\ k < f => blockState[k] = 2
  BY <1>i, ContiguousPasses DEF ScannerTypes
<1> HIDE DEF f
<1>n. /\ Max({f, nextBlock}) \in {f, nextBlock}
  BY <1>i, <1>f, LargerOfTwo, BlockNumbers DEF ScannerTypes
<1>k. /\ checkpoint' \in [verified : 0 .. NoBlock, next : 0 .. NoBlock]
      /\ checkpoint'.verified \in {checkpoint.verified, f}
      /\ checkpoint'.next \in {checkpoint.next, f, nextBlock}
      /\ checkpoint.verified <= checkpoint'.verified /\ checkpoint'.verified <= f
  BY <1>i, <1>0, <1>f, <1>n, BlockNumbers DEF ScannerTypes, SavedInv
<1>l. \A c \in Blocks : /\ (HasLine(c)' <=> HasLine(c)) /\ (HasDone(c)' <=> HasDone(c))
                        /\ (Saved(c) => Saved(c)')
  <2>1. \A c \in Blocks : (HasLine(c)' <=> HasLine(c)) /\ (HasDone(c)' <=> HasDone(c))
    BY <1>0 DEF HasLine, HasDone
  <2>2. checkpoint.verified \in Nat /\ checkpoint'.verified \in Nat
    BY <1>i, <1>k, BlockNumbers DEF ScannerTypes
  <2>3. \A c \in Blocks : c < checkpoint.verified => c < checkpoint'.verified
    BY <1>k, <2>2, BlockNumbers
  <2> QED
    BY <2>1, <2>3 DEF Saved
<1>v. \A c \in Blocks : Behind(c) => Behind(c)'
  BY <1>0, <1>l DEF Behind
<1>m. main.block = NoBlock
  BY <1>i, <1>0 DEF ScannerTypes
<1>g. \A b \in Blocks : b < f => b < frontier \/ blockState[b] = 2
  BY <1>i, <1>f, BlockNumbers DEF ScannerTypes
<1>q. \A c \in Blocks : Queued(c)' <=> Queued(c)
  BY <1>0 DEF Queued
<1>s. \A c \in Blocks : Scanning(c)' <=> Scanning(c)
  BY <1>0 DEF Scanning
<1>1. ScannerTypes'
  BY <1>i, <1>0, <1>f, <1>k DEF ScannerTypes
<1>2. DownInv'
  BY <1>0 DEF DownInv
<1>3. SoundInv'
  BY <1>i, <1>0, <1>g, <1>k, <1>l, BlockNumbers DEF SoundInv
<1>4. PlaceInv'
  BY <1>i, <1>0, <1>q, <1>s DEF PlaceInv, OnceQueued, Chosen
<1>5. SavedInv'
  BY <1>i, <1>0, <1>g, <1>k, <1>l, <1>v, <1>m, <1>q, <1>s, BlockNumbers DEF SavedInv
<1>6. UpInv'
  BY <1>i, <1>0, <1>f, <1>q, <1>s, BlockNumbers DEF UpInv, ScannerTypes
<1> QED
  BY <1>1, <1>2, <1>3, <1>4, <1>5, <1>6 DEF ScanInv

LEMMA SignalKeeps ==
    ASSUME ScanInv, Signal
    PROVE  ScanInv'
<1>i. ScannerTypes /\ DownInv /\ SoundInv /\ PlaceInv /\ SavedInv /\ UpInv
  BY DEF ScanInv
<1>0. /\ phase = "up" /\ phase' = "stopping"
      /\ UNCHANGED <<journal, ragged, checkpoint, blockState, inflight, requeue, frontier,
                     nextBlock,
                     main, scan, queued, scanned, blurred>>
  BY DEF Signal, diskVars, progressVars
<1>l. \A c \in Blocks : /\ (HasLine(c)' <=> HasLine(c)) /\ (HasDone(c)' <=> HasDone(c))
                        /\ (Saved(c)' <=> Saved(c)) /\ (Behind(c) => Behind(c)')
  BY <1>0 DEF HasLine, HasDone, Saved, Behind
<1>q. \A c \in Blocks : Queued(c)' <=> Queued(c)
  BY <1>0 DEF Queued
<1>s. \A c \in Blocks : Scanning(c)' <=> Scanning(c)
  BY <1>0 DEF Scanning
<1>1. ScannerTypes'
  BY <1>i, <1>0 DEF ScannerTypes
<1>2. DownInv'
  BY <1>0 DEF DownInv
<1>3. SoundInv'
  BY <1>i, <1>0, <1>l DEF SoundInv
<1>4. PlaceInv'
  BY <1>i, <1>0, <1>q, <1>s DEF PlaceInv, OnceQueued, Chosen
<1>5. SavedInv'
  BY <1>i, <1>0, <1>l, <1>q, <1>s DEF SavedInv
<1>6. UpInv'
  BY <1>0 DEF UpInv
<1> QED
  BY <1>1, <1>2, <1>3, <1>4, <1>5, <1>6 DEF ScanInv

LEMMA FetchKeeps ==
    ASSUME ScanInv, NEW w \in ScanWorkers, Fetch(w)
    PROVE  ScanInv'
<1>i. ScannerTypes /\ DownInv /\ SoundInv /\ PlaceInv /\ SavedInv /\ UpInv
  BY DEF ScanInv
<1>a. PICK k \in DOMAIN queued :
        /\ scan[w].at = "idle" /\ scan' = [scan EXCEPT ![w] = [at |-> "scan", block |-> queued[k]]]
        /\ queued' = RemoveAt(queued, k)
        /\ UNCHANGED <<journal, ragged, checkpoint, phase, blockState, inflight, requeue, frontier,
                       nextBlock, main, scanned, blurred>>
  BY DEF Fetch, WorkerGoes, diskVars, progressVars
<1>t. queued \in Seq(Blocks) /\ OnceQueued
  BY <1>i DEF ScannerTypes, PlaceInv
<1>q. /\ queued' \in Seq(Blocks) /\ OnceQueued' /\ queued[k] \in Blocks
      /\ \A c \in Blocks : Queued(c)' <=> Queued(c) /\ c # queued[k]
  BY <1>a, <1>t, TaskFetched
<1>b. PICK b \in Blocks : b = queued[k]
  BY <1>q
<1>0. /\ scan[w].at = "idle" /\ scan' = [scan EXCEPT ![w] = [at |-> "scan", block |-> b]]
      /\ UNCHANGED <<journal, ragged, checkpoint, phase, blockState, inflight, requeue, frontier,
                     nextBlock, main, scanned, blurred>>
  BY <1>a, <1>b
<1>p. Queued(b) /\ scan[w].block = NoBlock /\ phase # "down"
  BY <1>i, <1>a, <1>b, <1>0 DEF Queued, ScannerTypes, DownInv
<1>m. /\ scan' \in [ScanWorkers ->
            [at : {"idle", "scan", "done", "record"}, block : 0 .. NoBlock]]
      /\ \A v \in ScanWorkers : scan'[v].at = "idle" <=> scan'[v].block = NoBlock
      /\ scan'[w].at = "scan" /\ scan'[w].block = b
      /\ \A v \in ScanWorkers : v # w => scan'[v] = scan[v]
  BY <1>i, <1>0, BlockNumbers, WorkerMoves
<1>s. \A c \in Blocks : Scanning(c)' <=> Scanning(c) \/ c = b
  BY <1>m, <1>p, BlockNumbers DEF Scanning
<1>l. \A c \in Blocks : /\ (HasLine(c)' <=> HasLine(c)) /\ (HasDone(c)' <=> HasDone(c))
                        /\ (Saved(c)' <=> Saved(c)) /\ (Behind(c) => Behind(c)')
  BY <1>0 DEF HasLine, HasDone, Saved, Behind
<1>c. \A c \in Blocks : Chosen(c)' <=> Chosen(c)
  BY <1>0 DEF Chosen
<1>1. ScannerTypes'
  BY <1>i, <1>0, <1>q, <1>m DEF ScannerTypes
<1>2. DownInv'
  BY <1>0, <1>p DEF DownInv
<1>3. SoundInv'
  BY <1>i, <1>0, <1>l, <1>m DEF SoundInv
<1>4. PlaceInv'
  <2>1. \A v \in ScanWorkers : v # w => scan[v].block # b
    BY <1>i, <1>p DEF PlaceInv, Scanning
  <2>2. \A u, v \in ScanWorkers :
           scan'[u].block = scan'[v].block /\ scan'[u].block \in Blocks => u = v
    BY <1>i, <1>m, <2>1 DEF PlaceInv
  <2> QED
    BY <1>i, <1>0, <1>b, <1>p, <1>c, <1>q, <1>s, <2>2 DEF PlaceInv
<1>5. SavedInv'
  BY <1>i, <1>0, <1>b, <1>p, <1>l, <1>q, <1>s DEF SavedInv
<1>6. UpInv'
  BY <1>i, <1>0, <1>b, <1>q, <1>s DEF UpInv
<1> QED
  BY <1>1, <1>2, <1>3, <1>4, <1>5, <1>6 DEF ScanInv

LEMMA ScanKeeps ==
    ASSUME ScanInv, NEW w \in ScanWorkers, Scan(w)
    PROVE  ScanInv'
<1>i. ScannerTypes /\ DownInv /\ SoundInv /\ PlaceInv /\ SavedInv /\ UpInv
  BY DEF ScanInv
<1>a. /\ scan[w].at = "scan"
      /\ scan' = [scan EXCEPT ![w] = [at |-> IF phase = "up" THEN "done" ELSE "idle",
                                      block |-> IF phase = "up" THEN scan[w].block ELSE NoBlock]]
      /\ scanned' = IF phase = "up" THEN scanned \union {(scan[w].block)} ELSE scanned
      /\ UNCHANGED <<journal, ragged, checkpoint, phase, blockState, inflight, requeue, frontier,
                     nextBlock, main, queued, blurred>>
  BY DEF Scan, WorkerGoes, Completed, diskVars, progressVars
<1>b. PICK b \in Blocks : b = scan[w].block
  BY <1>i, <1>a, BlockNumbers DEF ScannerTypes
<1>p. Scanning(b) /\ phase # "down"
  BY <1>i, <1>a, <1>b, BlockNumbers DEF Scanning, DownInv, Idling
<1>e. PICK at \in {"done", "idle"}, n \in 0 .. NoBlock :
        /\ at = IF phase = "up" THEN "done" ELSE "idle"
        /\ n = IF phase = "up" THEN b ELSE NoBlock
  BY BlockNumbers
<1>0. /\ scan' = [scan EXCEPT ![w] = [at |-> at, block |-> n]]
      /\ scanned' = IF phase = "up" THEN scanned \union {(b)} ELSE scanned
      /\ UNCHANGED <<journal, ragged, checkpoint, phase, blockState, inflight, requeue, frontier,
                     nextBlock, main, queued, blurred>>
  BY <1>a, <1>b, <1>e
<1>f. at = "idle" <=> n = NoBlock
  BY <1>e, BlockNumbers
<1>m. /\ scan' \in [ScanWorkers ->
            [at : {"idle", "scan", "done", "record"}, block : 0 .. NoBlock]]
      /\ \A v \in ScanWorkers : scan'[v].at = "idle" <=> scan'[v].block = NoBlock
      /\ scan'[w].at = at /\ scan'[w].block = n
      /\ \A v \in ScanWorkers : v # w => scan'[v] = scan[v]
  BY <1>i, <1>0, <1>f, BlockNumbers, WorkerMoves
<1>s. \A c \in Blocks : Scanning(c)' => Scanning(c)
  BY <1>m, <1>b, <1>e, BlockNumbers DEF Scanning
<1>u. phase = "up" => \A c \in Blocks : Scanning(c) => Scanning(c)'
  BY <1>m, <1>b, <1>e DEF Scanning
<1>l. \A c \in Blocks : /\ (HasLine(c)' <=> HasLine(c)) /\ (HasDone(c)' <=> HasDone(c))
                        /\ (Saved(c)' <=> Saved(c)) /\ (Behind(c) => Behind(c)')
  BY <1>0 DEF HasLine, HasDone, Saved, Behind
<1>q. \A c \in Blocks : Queued(c)' <=> Queued(c)
  BY <1>0 DEF Queued
<1>c. \A c \in Blocks : Chosen(c)' <=> Chosen(c)
  BY <1>0 DEF Chosen
<1>1. ScannerTypes'
  BY <1>i, <1>0, <1>m DEF ScannerTypes
<1>2. DownInv'
  BY <1>0, <1>p DEF DownInv
<1>3. SoundInv'
  BY <1>i, <1>0, <1>e, <1>l, <1>m DEF SoundInv
<1>4. PlaceInv'
  <2>1. \A u, v \in ScanWorkers :
           scan'[u].block = scan'[v].block /\ scan'[u].block \in Blocks => u = v
    BY <1>i, <1>b, <1>e, <1>m, BlockNumbers DEF PlaceInv
  <2> QED
    BY <1>i, <1>0, <1>c, <1>q, <1>s, <1>u, <2>1 DEF PlaceInv, OnceQueued
<1>5. SavedInv'
  BY <1>i, <1>0, <1>l, <1>q, <1>s DEF SavedInv
<1>6. UpInv'
  BY <1>i, <1>0, <1>q, <1>u DEF UpInv
<1> QED
  BY <1>1, <1>2, <1>3, <1>4, <1>5, <1>6 DEF ScanInv

LEMMA RecordDoneKeeps ==
    ASSUME ScanInv, NEW w \in ScanWorkers, RecordDone(w)
    PROVE  ScanInv'
<1>i. ScannerTypes /\ DownInv /\ SoundInv /\ PlaceInv /\ SavedInv /\ UpInv
  BY DEF ScanInv
<1>a. scan[w].at = "done"
  BY DEF RecordDone, WorkerGoes
<1>b. PICK b \in Blocks : b = scan[w].block
  BY <1>i, <1>a, BlockNumbers DEF ScannerTypes
<1>p. Scanning(b) /\ phase # "down"
  BY <1>i, <1>a, <1>b, BlockNumbers DEF Scanning, DownInv, Idling
<1>0. /\ scan' = [scan EXCEPT ![w] = [at |-> "record", block |-> b]]
      /\ AppendLine("D", b)
      /\ UNCHANGED <<checkpoint, phase, blockState, inflight, requeue, frontier, nextBlock,
                     main, queued, scanned>>
  BY <1>b DEF RecordDone, WorkerGoes, progressVars
<1>m. /\ scan' \in [ScanWorkers ->
            [at : {"idle", "scan", "done", "record"}, block : 0 .. NoBlock]]
      /\ \A v \in ScanWorkers : scan'[v].at = "idle" <=> scan'[v].block = NoBlock
      /\ scan'[w].at = "record" /\ scan'[w].block = b
      /\ \A v \in ScanWorkers : v # w => scan'[v] = scan[v]
  BY <1>i, <1>0, BlockNumbers, WorkerMoves
<1>s. \A c \in Blocks : Scanning(c)' <=> Scanning(c)
  BY <1>m, <1>b DEF Scanning
<1>w. /\ journal' \in Seq(Lines) /\ ragged' \in BOOLEAN
      /\ \A c \in Blocks : /\ HasLine(c) => HasLine(c)'
                           /\ HasLine(c)' => HasLine(c) \/ c = b
                           /\ HasDone(c)' => HasDone(c) \/ c = b
      /\ blurred \subseteq blurred' /\ blurred' \subseteq Blocks
  BY <1>i, <1>0, LineWritten
<1>v. \A c \in Blocks : (Saved(c) => Saved(c)') /\ (Behind(c) => Behind(c)')
  BY <1>0, <1>w DEF Saved, Behind
<1>q. \A c \in Blocks : Queued(c)' <=> Queued(c)
  BY <1>0 DEF Queued
<1>c. \A c \in Blocks : Chosen(c)' <=> Chosen(c)
  BY <1>0 DEF Chosen
<1>1. ScannerTypes'
  BY <1>i, <1>0, <1>m, <1>w DEF ScannerTypes
<1>2. DownInv'
  BY <1>0, <1>p DEF DownInv
<1>3. SoundInv'
  BY <1>i, <1>0, <1>a, <1>b, <1>m, <1>w DEF SoundInv
<1>4. PlaceInv'
  <2>1. \A u, v \in ScanWorkers :
           scan'[u].block = scan'[v].block /\ scan'[u].block \in Blocks => u = v
    BY <1>i, <1>b, <1>m DEF PlaceInv
  <2> QED
    BY <1>i, <1>0, <1>c, <1>q, <1>s, <2>1 DEF PlaceInv, OnceQueued
<1>5. SavedInv'
  BY <1>i, <1>0, <1>p, <1>w, <1>v, <1>q, <1>s DEF SavedInv
<1>6. UpInv'
  BY <1>i, <1>0, <1>w, <1>q, <1>s DEF UpInv
<1> QED
  BY <1>1, <1>2, <1>3, <1>4, <1>5, <1>6 DEF ScanInv

LEMMA MarkDoneKeeps ==
    ASSUME ScanInv, NEW w \in ScanWorkers, MarkDone(w)
    PROVE  ScanInv'
<1>i. ScannerTypes /\ DownInv /\ SoundInv /\ PlaceInv /\ SavedInv /\ UpInv
  BY DEF ScanInv
<1>a. scan[w].at = "record"
  BY DEF MarkDone, WorkerGoes
<1>b. PICK b \in Blocks : b = scan[w].block
  BY <1>i, <1>a, BlockNumbers DEF ScannerTypes
<1>p. Scanning(b) /\ phase # "down"
  BY <1>i, <1>a, <1>b, BlockNumbers DEF Scanning, DownInv, Idling
<1>0. /\ scan' = [scan EXCEPT ![w] = [at |-> "idle", block |-> NoBlock]]
      /\ blockState' = [blockState EXCEPT ![b] = 2] /\ inflight' = inflight \ {(b)}
      /\ UNCHANGED <<journal, ragged, checkpoint, phase, requeue, frontier, nextBlock,
                     main, queued, scanned, blurred>>
  BY <1>b DEF MarkDone, WorkerGoes, diskVars, progressVars
<1>n. NoBlock \in 0 .. NoBlock /\ ("idle" = "idle" <=> NoBlock = NoBlock)
  BY BlockNumbers
<1>m. /\ scan' \in [ScanWorkers ->
            [at : {"idle", "scan", "done", "record"}, block : 0 .. NoBlock]]
      /\ \A v \in ScanWorkers : scan'[v].at = "idle" <=> scan'[v].block = NoBlock
      /\ scan'[w].at = "idle" /\ scan'[w].block = NoBlock
      /\ \A v \in ScanWorkers : v # w => scan'[v] = scan[v]
  BY <1>i, <1>0, <1>n, WorkerMoves
<1>o. \A v \in ScanWorkers : scan[v].block = b => v = w
  BY <1>i, <1>b DEF PlaceInv
<1>s. \A c \in Blocks : Scanning(c)' <=> Scanning(c) /\ c # b
  BY <1>m, <1>b, <1>o, BlockNumbers DEF Scanning
<1>d. /\ blockState' \in [Blocks -> 0 .. 2] /\ blockState'[b] = 2
      /\ \A c \in Blocks : c # b => blockState'[c] = blockState[c]
  BY <1>i, <1>0 DEF ScannerTypes
<1>x. ~Queued(b) /\ ~Chosen(b) /\ b \in inflight /\ b \notin requeue
  BY <1>i, <1>p DEF PlaceInv
<1>l. \A c \in Blocks : /\ (HasLine(c)' <=> HasLine(c)) /\ (HasDone(c)' <=> HasDone(c))
                        /\ (Saved(c)' <=> Saved(c)) /\ (Behind(c) => Behind(c)')
  BY <1>0 DEF HasLine, HasDone, Saved, Behind
<1>q. \A c \in Blocks : Queued(c)' <=> Queued(c)
  BY <1>0 DEF Queued
<1>c. \A c \in Blocks : Chosen(c)' <=> Chosen(c)
  BY <1>0 DEF Chosen
<1>1. ScannerTypes'
  BY <1>i, <1>0, <1>m, <1>d DEF ScannerTypes
<1>2. DownInv'
  BY <1>0, <1>p DEF DownInv
<1>3. SoundInv'
  BY <1>i, <1>0, <1>a, <1>b, <1>d, <1>l, <1>m DEF SoundInv
<1>4. PlaceInv'
  <2>1. \A u, v \in ScanWorkers :
           scan'[u].block = scan'[v].block /\ scan'[u].block \in Blocks => u = v
    BY <1>i, <1>m, BlockNumbers DEF PlaceInv
  <2> QED
    BY <1>i, <1>0, <1>c, <1>d, <1>x, <1>q, <1>s, <2>1 DEF PlaceInv, OnceQueued
<1>5. SavedInv'
  BY <1>i, <1>0, <1>p, <1>d, <1>l, <1>q, <1>s DEF SavedInv
<1>6. UpInv'
  BY <1>i, <1>0, <1>d, <1>q, <1>s DEF UpInv
<1> QED
  BY <1>1, <1>2, <1>3, <1>4, <1>5, <1>6 DEF ScanInv

\* A step that ends the process keeps the invariant if what is on disk keeps
\* its part of it.
LEMMA EndKeeps ==
    ASSUME ScanInv, Forgotten,
           journal' \in Seq(Lines), ragged' \in BOOLEAN,
           checkpoint' \in [verified : 0 .. NoBlock, next : 0 .. NoBlock],
           scanned' = scanned, blurred \subseteq blurred', blurred' \subseteq Blocks,
           \A b \in Blocks :
               /\ b < checkpoint'.verified \/ HasDone(b)' => b \in scanned
               /\ Saved(b) => Saved(b)'
               /\ b \notin blurred' /\ b < checkpoint'.next => Saved(b)'
               /\ HasLine(b)' => Behind(b)
    PROVE  ScanInv'
<1>i. ScannerTypes /\ DownInv /\ SoundInv /\ PlaceInv /\ SavedInv /\ UpInv
  BY DEF ScanInv
<1>0. Forgotten
  OBVIOUS
<1>e. /\ DownInv' /\ PlaceInv' /\ UpInv'
      /\ phase' = "down" /\ blockState' \in [Blocks -> 0 .. 2]
      /\ inflight' = {} /\ requeue' = {} /\ frontier' = 0 /\ nextBlock' = 0
      /\ main' \in [at : {"idle", "check", "reserve", "mark", "submit"}, block : 0 .. NoBlock]
      /\ main'.at = "idle" /\ main'.block = NoBlock
      /\ scan' \in [ScanWorkers ->
            [at : {"idle", "scan", "done", "record"}, block : 0 .. NoBlock]]
      /\ \A w \in ScanWorkers : scan'[w].at = "idle" /\ scan'[w].block = NoBlock
      /\ queued' \in Seq(Blocks)
      /\ \A b \in Blocks : blockState'[b] = 0 /\ ~Queued(b)' /\ ~Scanning(b)' /\ ~Chosen(b)'
  BY <1>0, NothingLeft
<1>v. \A c \in Blocks : Behind(c) => Behind(c)'
  BY DEF Behind
<1>1. ScannerTypes'
  BY <1>i, <1>e DEF ScannerTypes
<1>2. SoundInv'
  BY <1>e, BlockNumbers DEF SoundInv
<1>3. SavedInv'
  BY <1>e, <1>v, BlockNumbers DEF SavedInv
<1> QED
  BY <1>e, <1>1, <1>2, <1>3 DEF ScanInv

LEMMA CrashKeeps ==
    ASSUME ScanInv, Crash
    PROVE  ScanInv'
<1>i. ScannerTypes /\ DownInv /\ SoundInv /\ PlaceInv /\ SavedInv /\ UpInv
  BY DEF ScanInv
<1>0. Forgotten /\ UNCHANGED <<journal, ragged, checkpoint, scanned, blurred>>
  BY DEF Crash, diskVars
<1>l. \A c \in Blocks : /\ (HasLine(c)' <=> HasLine(c)) /\ (HasDone(c)' <=> HasDone(c))
                        /\ (Saved(c)' <=> Saved(c)) /\ (Behind(c) => Behind(c)')
  BY <1>0 DEF HasLine, HasDone, Saved, Behind
<1>1. checkpoint'.verified = checkpoint.verified /\ checkpoint'.next = checkpoint.next
  BY <1>0
<1> QED
  BY <1>i, <1>0, <1>1, <1>l, EndKeeps DEF ScannerTypes, SoundInv, SavedInv

LEMMA TornKeeps ==
    ASSUME ScanInv, NEW type \in {"R", "D"}, NEW b \in Blocks, TearLine(type, b),
           type = "R" => main.block = b,
           type = "D" => b \in scanned /\ Scanning(b)
    PROVE  ScanInv'
<1>i. ScannerTypes /\ DownInv /\ SoundInv /\ PlaceInv /\ SavedInv /\ UpInv
  BY DEF ScanInv
<1>0. Forgotten /\ UNCHANGED <<checkpoint, scanned>>
  BY DEF TearLine
<1>w. /\ journal' \in Seq(Lines) /\ ragged' \in BOOLEAN
      /\ \A c \in Blocks : /\ HasLine(c) => HasLine(c)'
                           /\ HasLine(c)' => HasLine(c) \/ c = b
                           /\ HasDone(c)' => HasDone(c) \/ (c = b /\ type = "D")
      /\ blurred \subseteq blurred' /\ blurred' \subseteq Blocks
  BY <1>i, LineWritten
<1>v. \A c \in Blocks : Saved(c) => Saved(c)'
  BY <1>0, <1>w DEF Saved
<1>1. checkpoint'.verified = checkpoint.verified /\ checkpoint'.next = checkpoint.next
  BY <1>0
<1>2. Behind(b)
  BY <1>i DEF SavedInv
<1>3. \A c \in Blocks : HasDone(c)' => c \in scanned
  BY <1>i, <1>w DEF SoundInv
<1>4. \A c \in Blocks : HasLine(c)' => Behind(c)
  BY <1>i, <1>w, <1>2 DEF SavedInv
<1> QED
  BY <1>i, <1>0, <1>w, <1>v, <1>1, <1>3, <1>4, EndKeeps DEF ScannerTypes, SoundInv, SavedInv

LEMMA RetirementKeeps ==
    ASSUME ScanInv, Retirement
    PROVE  ScanInv'
<1>i. ScannerTypes /\ DownInv /\ SoundInv /\ PlaceInv /\ SavedInv /\ UpInv
  BY DEF ScanInv
<1> DEFINE f == Contiguous(blockState, frontier)
<1>0. /\ phase = "stopping" /\ main.at = "idle" /\ Forgotten
      /\ checkpoint' \in {checkpoint, [verified |-> f, next |-> Max({f, nextBlock})]}
      /\ UNCHANGED <<journal, ragged, scanned, blurred>>
  BY DEF Retirement, SaveCheckpoint
<1>f. /\ f \in 0 .. NoBlock /\ frontier <= f
      /\ \A k \in Blocks : frontier <= k /\ k < f => blockState[k] = 2
  BY <1>i, ContiguousPasses DEF ScannerTypes
<1> HIDE DEF f
<1>n. /\ Max({f, nextBlock}) \in {f, nextBlock}
  BY <1>i, <1>f, LargerOfTwo, BlockNumbers DEF ScannerTypes
<1>k. /\ checkpoint' \in [verified : 0 .. NoBlock, next : 0 .. NoBlock]
      /\ checkpoint'.verified \in {checkpoint.verified, f}
      /\ checkpoint'.next \in {checkpoint.next, f, nextBlock}
      /\ checkpoint.verified <= checkpoint'.verified /\ checkpoint'.verified <= f
  BY <1>i, <1>0, <1>f, <1>n, BlockNumbers DEF ScannerTypes, SavedInv
<1>l. \A c \in Blocks : /\ (HasLine(c)' <=> HasLine(c)) /\ (HasDone(c)' <=> HasDone(c))
                        /\ (Saved(c) => Saved(c)')
  <2>1. \A c \in Blocks : (HasLine(c)' <=> HasLine(c)) /\ (HasDone(c)' <=> HasDone(c))
    BY <1>0 DEF HasLine, HasDone
  <2>2. checkpoint.verified \in Nat /\ checkpoint'.verified \in Nat
    BY <1>i, <1>k, BlockNumbers DEF ScannerTypes
  <2>3. \A c \in Blocks : c < checkpoint.verified => c < checkpoint'.verified
    BY <1>k, <2>2, BlockNumbers
  <2> QED
    BY <2>1, <2>3 DEF Saved
<1>m. main.block = NoBlock
  BY <1>i, <1>0 DEF ScannerTypes
<1>g. \A b \in Blocks : b < f => b < frontier \/ blockState[b] = 2
  BY <1>i, <1>f, BlockNumbers DEF ScannerTypes
<1>1. \A b \in Blocks : b < checkpoint'.verified \/ HasDone(b)' => b \in scanned
  BY <1>i, <1>g, <1>k, <1>l, BlockNumbers DEF SoundInv
<1>2. \A b \in Blocks : b \notin blurred /\ b < checkpoint'.next => Saved(b)
  BY <1>i, <1>g, <1>k, <1>m, BlockNumbers DEF SavedInv
<1>3. \A b \in Blocks : HasLine(b)' => Behind(b)
  BY <1>i, <1>l DEF SavedInv
<1> QED
  BY <1>i, <1>0, <1>k, <1>l, <1>1, <1>2, <1>3, EndKeeps DEF ScannerTypes

LEMMA StartKeeps ==
    ASSUME ScanInv, NEW allow \in BOOLEAN, NEW forced \in 0 .. NoBlock, Start(allow, forced)
    PROVE  ScanInv'
<1>i. ScannerTypes /\ DownInv /\ SoundInv /\ PlaceInv /\ SavedInv /\ UpInv
  BY DEF ScanInv
<1> DEFINE v == RecoveredFrontier
           n == RecoveredNext
<1>j. /\ journal \in Seq(Lines) /\ ragged \in BOOLEAN /\ scanned \subseteq Blocks
      /\ checkpoint \in [verified : 0 .. NoBlock, next : 0 .. NoBlock]
      /\ blurred \subseteq Blocks
  BY <1>i DEF ScannerTypes
<1>r. /\ v \in 0 .. NoBlock /\ n \in 0 .. NoBlock /\ checkpoint.verified <= v /\ v <= n
      /\ \A b \in Blocks : b < v => b < checkpoint.verified \/ Recovered[b] = 2
      /\ \A b \in Blocks : b < n => \/ b < v \/ b < checkpoint.next
                                    \/ \E i \in DOMAIN journal : b <= journal[i].block
  BY <1>j, StartReads
<1>d. /\ Recovered \in [Blocks -> 0 .. 2]
      /\ \A b \in Blocks : Recovered[b] = 0 <=> ~HasLine(b)
      /\ \A b \in Blocks : Recovered[b] = 2 => HasDone(b)
  BY <1>j, RecoveryReads DEF HasDone
<1>0. /\ phase = "down" /\ forced <= n
      /\ checkpoint' \in {checkpoint, [verified |-> v, next |-> Max({v, n})]}
      /\ \/ Forgotten
         \/ /\ phase' = "up" /\ blockState' = Recovered /\ inflight' = {}
            /\ requeue' = {b \in Blocks : Recovered[b] = 1}
            /\ frontier' = v /\ nextBlock' = Max({forced, v})
            /\ UNCHANGED <<main, scan, queued>>
      /\ UNCHANGED <<journal, ragged, scanned, blurred>>
  BY DEF Start, SaveCheckpoint, Requeued
<1> HIDE DEF v, n
<1>n. Max({v, n}) \in {v, n} /\ Max({forced, v}) \in {forced, v} /\ Max({forced, v}) >= v
  BY <1>r, LargerOfTwo, BlockNumbers
<1>k. /\ checkpoint' \in [verified : 0 .. NoBlock, next : 0 .. NoBlock]
      /\ checkpoint'.verified \in {checkpoint.verified, v}
      /\ checkpoint'.next \in {checkpoint.next, v, n}
      /\ checkpoint.verified <= checkpoint'.verified /\ checkpoint'.verified <= v
  BY <1>j, <1>0, <1>n, <1>r, BlockNumbers
<1>l. \A c \in Blocks : /\ (HasLine(c)' <=> HasLine(c)) /\ (HasDone(c)' <=> HasDone(c))
                        /\ (Saved(c) => Saved(c)') /\ (Behind(c) => Behind(c)')
  <2>1. \A c \in Blocks : (HasLine(c)' <=> HasLine(c)) /\ (HasDone(c)' <=> HasDone(c))
    BY <1>0 DEF HasLine, HasDone
  <2>2. checkpoint.verified \in Nat /\ checkpoint'.verified \in Nat
    BY <1>j, <1>k, BlockNumbers
  <2>3. \A c \in Blocks : c < checkpoint.verified => c < checkpoint'.verified
    BY <1>k, <2>2, BlockNumbers
  <2>4. \A c \in Blocks : Saved(c) => Saved(c)'
    BY <2>1, <2>3 DEF Saved
  <2> QED
    BY <1>0, <2>1, <2>4 DEF Behind
<1>x. \A b \in Blocks : b < v => b \in scanned /\ Saved(b)
  BY <1>i, <1>d, <1>r DEF SoundInv, Saved
<1>y. \A b \in Blocks \ blurred : b < n => Saved(b)
  <2> SUFFICES ASSUME NEW b \in Blocks \ blurred, b < n PROVE Saved(b)
    OBVIOUS
  <2>1. CASE b < v \/ b < checkpoint.next
    BY <1>i, <1>x, <2>1 DEF SavedInv
  <2>2. ASSUME NEW i \in DOMAIN journal, b <= journal[i].block PROVE Saved(b)
    <3>1. PICK c \in Blocks : c = journal[i].block
      BY <1>j, LinesOnDisk
    <3>2. HasLine(c) /\ (b = c \/ b < c)
      BY <2>2, <3>1, BlockNumbers DEF HasLine
    <3>3. Behind(c)
      BY <1>i, <3>2 DEF SavedInv
    <3> QED
      BY <3>2, <3>3 DEF Behind, Saved
  <2> QED
    BY <1>r, <2>1, <2>2
<1>1. CASE Forgotten
  <2>1. \A b \in Blocks : b < checkpoint'.verified \/ HasDone(b)' => b \in scanned
    BY <1>i, <1>x, <1>k, <1>l DEF SoundInv
  <2>2. \A b \in Blocks : b \notin blurred /\ b < checkpoint'.next => Saved(b)
    BY <1>i, <1>x, <1>y, <1>k DEF SavedInv
  <2>3. \A b \in Blocks : HasLine(b)' => Behind(b)
    BY <1>i, <1>l DEF SavedInv
  <2> QED
    BY <1>j, <1>0, <1>1, <1>k, <1>l, <2>1, <2>2, <2>3, EndKeeps
<1>2. CASE /\ phase' = "up" /\ blockState' = Recovered /\ inflight' = {}
           /\ requeue' = {b \in Blocks : Recovered[b] = 1}
           /\ frontier' = v /\ nextBlock' = Max({forced, v})
           /\ UNCHANGED <<main, scan, queued>>
  <2>e. /\ main = [at |-> "idle", block |-> NoBlock] /\ queued = <<>>
        /\ scan = [w \in ScanWorkers |-> [at |-> "idle", block |-> NoBlock]]
    BY <1>i, <1>0 DEF DownInv, Idling
  <2>f. \A b \in Blocks : /\ ~Queued(b)' /\ ~Scanning(b)' /\ ~Chosen(b)' /\ main'.block # b
                          /\ b \in requeue' => HasLine(b) /\ blockState'[b] # 2
    <3>1. \A b \in Blocks : b # NoBlock
      BY BlockNumbers
    <3>2. main' = main /\ scan' = scan /\ queued' = queued
      BY <1>2
    <3>3. \A b \in Blocks : ~Queued(b)' /\ ~Scanning(b)'
      BY <2>e, <3>1, <3>2 DEF Queued, Scanning
    <3>4. \A b \in Blocks : ~Chosen(b)' /\ main'.block # b
      BY <2>e, <3>1, <3>2 DEF Chosen
    <3>5. ASSUME NEW b \in Blocks, b \in requeue' PROVE HasLine(b) /\ blockState'[b] # 2
      <4>1. Recovered[b] = 1
        BY <1>2, <3>5
      <4> QED
        BY <1>2, <1>d, <4>1
    <3> QED
      BY <3>3, <3>4, <3>5
  <2>g. nextBlock' \in 0 .. NoBlock /\ nextBlock' \in {forced, v}
    BY <1>2, <1>n, <1>r
  <2>1. ScannerTypes'
    BY <1>i, <1>0, <1>2, <1>d, <1>k, <1>r, <2>g DEF ScannerTypes
  <2>2. DownInv'
    BY <1>2 DEF DownInv
  <2>3. SoundInv'
    BY <1>i, <1>0, <1>2, <1>d, <1>k, <1>l, <1>x, <2>e DEF SoundInv
  <2>4. PlaceInv'
    BY <1>2, <2>e, <2>f, BlockNumbers DEF PlaceInv, OnceQueued
  <2>5. SavedInv'
    <3>1. \A b \in Blocks \ blurred : b < nextBlock' => Saved(b)
      BY <1>0, <1>r, <1>x, <1>y, <2>g, BlockNumbers
    <3>2. \A b \in Blocks \ blurred :
             b < checkpoint'.next \/ b < frontier' \/ blockState'[b] = 2 => Saved(b)
      <4> SUFFICES ASSUME NEW b \in Blocks \ blurred,
                          b < checkpoint'.next \/ b < frontier' \/ blockState'[b] = 2
                   PROVE  Saved(b)
        OBVIOUS
      <4>1. CASE b < checkpoint'.next
        <5>1. b < checkpoint.next => Saved(b)
          BY <1>i DEF SavedInv
        <5> QED
          BY <1>k, <1>x, <1>y, <4>1, <5>1
      <4>2. CASE b < frontier'
        BY <1>2, <1>x, <4>2
      <4>3. CASE blockState'[b] = 2
        <5>1. Recovered[b] # 0
          BY <1>2, <4>3
        <5> QED
          BY <1>d, <5>1 DEF Saved
      <4> QED
        BY <4>1, <4>2, <4>3
    <3> QED
      BY <1>i, <1>0, <1>2, <1>k, <1>l, <2>f, <3>1, <3>2, BlockNumbers DEF SavedInv
  <2>6. UpInv'
    <3> SUFFICES ASSUME NEW b \in Blocks \ blurred, v <= b, b < nextBlock'
                 PROVE  blockState'[b] = 2 \/ b \in requeue'
      BY <1>0, <1>2 DEF UpInv
    <3>1. b < n
      BY <1>0, <1>r, <2>g, BlockNumbers
    <3>2. ~(b < checkpoint.verified)
      BY <1>j, <1>r, BlockNumbers
    <3>3. HasLine(b)
      BY <1>y, <3>1, <3>2 DEF Saved
    <3> QED
      BY <1>2, <1>d, <3>3
  <2> QED
    BY <2>1, <2>2, <2>3, <2>4, <2>5, <2>6 DEF ScanInv
<1> QED
  BY <1>0, <1>1, <1>2

-----------------------------------------------------------------------------
(* The scanner keeps the invariant. *)

LEMMA ScanInvInit ==
    ASSUME ScannerInit
    PROVE  ScanInv
<1>0. /\ journal = <<>> /\ ragged = FALSE /\ checkpoint = [verified |-> 0, next |-> 0]
      /\ phase = "down" /\ blockState = [b \in Blocks |-> 0] /\ inflight = {} /\ requeue = {}
      /\ frontier = 0 /\ nextBlock = 0
      /\ main = [at |-> "idle", block |-> NoBlock]
      /\ scan = [w \in ScanWorkers |-> [at |-> "idle", block |-> NoBlock]]
      /\ queued = <<>> /\ scanned = {} /\ blurred = {}
  BY DEF ScannerInit, Idling
<1>1. \A b \in Blocks : /\ ~HasLine(b) /\ ~HasDone(b) /\ ~Queued(b)
                        /\ main.block # b /\ ~Scanning(b) /\ ~(b < 0)
  BY <1>0, BlockNumbers DEF HasLine, HasDone, Queued, Scanning
<1>2. NoBlock \in 0 .. NoBlock /\ NoBlock \notin Blocks /\ 0 \in 0 .. NoBlock
  BY BlockNumbers
<1>3. ScannerTypes
  <2>1. journal \in Seq(Lines) /\ queued \in Seq(Blocks)
    BY <1>0
  <2>2. blockState \in [Blocks -> 0 .. 2] /\ frontier \in 0 .. NoBlock /\ nextBlock \in 0 .. NoBlock
    BY <1>0, <1>2
  <2>3. checkpoint \in [verified : 0 .. NoBlock, next : 0 .. NoBlock]
    BY <1>0, <1>2
  <2>4. /\ main \in [at : {"idle", "check", "reserve", "mark", "submit"}, block : 0 .. NoBlock]
        /\ main.at = "idle" <=> main.block = NoBlock
    BY <1>0, <1>2
  <2>5. /\ scan \in [ScanWorkers ->
              [at : {"idle", "scan", "done", "record"}, block : 0 .. NoBlock]]
        /\ \A w \in ScanWorkers : scan[w].at = "idle" <=> scan[w].block = NoBlock
    BY <1>0, <1>2
  <2> QED
    BY <1>0, <2>1, <2>2, <2>3, <2>4, <2>5 DEF ScannerTypes
<1>4. DownInv
  BY <1>0 DEF DownInv, Idling
<1>5. SoundInv
  BY <1>0, <1>1 DEF SoundInv
<1>6. PlaceInv
  BY <1>0, <1>1, <1>2 DEF PlaceInv, OnceQueued, Chosen
<1>7. SavedInv
  BY <1>0, <1>1 DEF SavedInv
<1>8. UpInv
  BY <1>0 DEF UpInv
<1> QED
  BY <1>3, <1>4, <1>5, <1>6, <1>7, <1>8 DEF ScanInv

LEMMA ScanInvNext ==
    ASSUME ScanInv, [ScannerNext]_scannerVars
    PROVE  ScanInv'
<1>1. CASE \E allow \in BOOLEAN, forced \in 0 .. NoBlock : Start(allow, forced)
  BY <1>1, StartKeeps
<1>2. CASE PickRequeued \/ PickNext \/ Check \/ Reserve \/ MarkReserved \/ Submit
  BY <1>2, PickRequeuedKeeps, PickNextKeeps, CheckKeeps, ReserveKeeps, MarkReservedKeeps,
     SubmitKeeps
<1>3. CASE Poll \/ Signal \/ Retirement \/ Crash
  BY <1>3, PollKeeps, SignalKeeps, RetirementKeeps, CrashKeeps
<1>4. CASE Torn
  <2>1. CASE main.at = "reserve" /\ TearLine("R", main.block)
    <3>1. main.block \in Blocks
      BY <2>1, BlockNumbers DEF ScanInv, ScannerTypes
    <3> QED
      BY <2>1, <3>1, TornKeeps
  <2>2. ASSUME NEW w \in ScanWorkers, scan[w].at = "done", TearLine("D", scan[w].block)
        PROVE  ScanInv'
    <3>1. scan[w].block \in Blocks
      BY <2>2, BlockNumbers DEF ScanInv, ScannerTypes
    <3>2. scan[w].block \in scanned /\ Scanning(scan[w].block)
      BY <2>2 DEF ScanInv, SoundInv, Scanning
    <3> QED
      BY <2>2, <3>1, <3>2, TornKeeps
  <2> QED
    BY <1>4, <2>1, <2>2 DEF Torn
<1>5. CASE \E w \in ScanWorkers : Fetch(w) \/ Scan(w) \/ RecordDone(w) \/ MarkDone(w)
  BY <1>5, FetchKeeps, ScanKeeps, RecordDoneKeeps, MarkDoneKeeps
<1>6. CASE UNCHANGED scannerVars
  BY <1>6 DEF scannerVars, ScanInv, ScannerTypes, DownInv, SoundInv, PlaceInv, SavedInv, UpInv,
     HasLine, HasDone, Saved, Behind, Queued, Scanning, Chosen, OnceQueued
<1> QED
  BY <1>1, <1>2, <1>3, <1>4, <1>5, <1>6 DEF ScannerNext

\* Every state the scanner reaches, over any number of kills and restarts.
LEMMA ScannerKeeps == ScannerSpec => []ScanInv
<1>1. ScannerInit => ScanInv
  BY ScanInvInit
<1>2. ScanInv /\ [ScannerNext]_scannerVars => ScanInv'
  BY ScanInvNext
<1> QED
  BY <1>1, <1>2, PTL DEF ScannerSpec

\* Whatever the frontier, the checkpoint, g_block_state or a done line counts
\* as verified was scanned to its end (main.c:1355, 1510, 722).
THEOREM FrontierScanned == ScannerSpec => []FrontierSound
<1>1. ScanInv => FrontierSound
  <2> SUFFICES ASSUME ScanInv, NEW b \in Blocks,
                      \/ b < frontier \/ b < checkpoint.verified \/ blockState[b] = 2
                      \/ \E i \in DOMAIN journal : journal[i] = [type |-> "D", block |-> b]
               PROVE  b \in scanned
    BY DEF FrontierSound
  <2>1. (\E i \in DOMAIN journal : journal[i] = [type |-> "D", block |-> b]) => HasDone(b)
    BY DEF HasDone
  <2> QED
    BY <2>1 DEF ScanInv, SoundInv
<1> QED
  BY <1>1, ScannerKeeps, PTL

\* How often a block is in the queue, and how many workers hold it.
LEMMA PlacesCount ==
    ASSUME ScanInv, NEW b \in Blocks
    PROVE  /\ Cardinality({i \in DOMAIN queued : queued[i] = b}) = IF Queued(b) THEN 1 ELSE 0
           /\ Cardinality({w \in ScanWorkers : scan[w].block = b}) = IF Scanning(b) THEN 1 ELSE 0
<1>1. OnceQueued
  BY DEF ScanInv, PlaceInv
<1>2. \A v, w \in ScanWorkers : scan[v].block = b /\ scan[w].block = b => v = w
  BY DEF ScanInv, PlaceInv
<1>3. Cardinality({i \in DOMAIN queued : queued[i] = b}) = IF Queued(b) THEN 1 ELSE 0
  <2>1. CASE ~Queued(b)
    <3>1. {i \in DOMAIN queued : queued[i] = b} = {}
      BY <2>1 DEF Queued
    <3> QED
      BY <2>1, <3>1, FS_EmptySet
  <2>2. ASSUME NEW i \in DOMAIN queued, queued[i] = b
        PROVE  Cardinality({k \in DOMAIN queued : queued[k] = b}) = IF Queued(b) THEN 1 ELSE 0
    <3>1. {k \in DOMAIN queued : queued[k] = b} = {i}
      BY <1>1, <2>2 DEF OnceQueued
    <3>2. Queued(b)
      BY <2>2 DEF Queued
    <3> QED
      BY <3>1, <3>2, FS_Singleton
  <2> QED
    BY <2>1, <2>2 DEF Queued
<1>4. Cardinality({w \in ScanWorkers : scan[w].block = b}) = IF Scanning(b) THEN 1 ELSE 0
  <2>1. CASE ~Scanning(b)
    <3>1. {w \in ScanWorkers : scan[w].block = b} = {}
      BY <2>1 DEF Scanning
    <3> QED
      BY <2>1, <3>1, FS_EmptySet
  <2>2. ASSUME NEW w \in ScanWorkers, scan[w].block = b
        PROVE  Cardinality({v \in ScanWorkers : scan[v].block = b}) = IF Scanning(b) THEN 1 ELSE 0
    <3>1. {v \in ScanWorkers : scan[v].block = b} = {w}
      BY <1>2, <2>2
    <3>2. Scanning(b)
      BY <2>2 DEF Scanning
    <3> QED
      BY <3>1, <3>2, FS_Singleton
  <2> QED
    BY <2>1, <2>2 DEF Scanning
<1> QED
  BY <1>3, <1>4

\* Strict resume and duplicate-free dispatch (main.c:3): a block is in one
\* place, a block behind the next one is in some place, and the files know of
\* each that the checkpoint lies behind; but for those whose reservation went
\* onto a torn line.
THEOREM BlocksKept == ScannerSpec => []BlockInOnePlace
<1>1. ScanInv => BlockInOnePlace
  <2> SUFFICES ASSUME ScanInv, NEW b \in Blocks \ blurred
               PROVE  /\ BlockPlaces(b) <= 1
                      /\ phase = "up" /\ frontier <= b /\ b < nextBlock =>
                             BlockPlaces(b) = 1 \/ main.block = b
                      /\ b < checkpoint.next =>
                             \/ b < checkpoint.verified
                             \/ \E i \in DOMAIN journal : journal[i].block = b
    BY DEF BlockInOnePlace
  <2> DEFINE done == IF blockState[b] = 2 THEN 1 ELSE 0
             again == IF b \in requeue THEN 1 ELSE 0
             chosen == IF Chosen(b) THEN 1 ELSE 0
             waits == IF Queued(b) THEN 1 ELSE 0
             scans == IF Scanning(b) THEN 1 ELSE 0
  <2>1. BlockPlaces(b) = done + again + chosen + waits + scans
    BY PlacesCount DEF BlockPlaces, Chosen
  <2>2. /\ b \in requeue => blockState[b] # 2 /\ ~Chosen(b) /\ ~Queued(b) /\ ~Scanning(b)
        /\ Chosen(b) => blockState[b] # 2 /\ ~Queued(b) /\ ~Scanning(b)
        /\ Queued(b) => blockState[b] # 2 /\ ~Scanning(b)
        /\ Scanning(b) => blockState[b] # 2
    BY DEF ScanInv, PlaceInv
  <2>3. phase = "up" /\ frontier <= b /\ b < nextBlock =>
            blockState[b] = 2 \/ b \in requeue \/ main.block = b \/ Queued(b) \/ Scanning(b)
    BY DEF ScanInv, UpInv
  <2>4. b < checkpoint.next => Saved(b)
    BY DEF ScanInv, SavedInv
  <2>5. BlockPlaces(b) <= 1
    BY <2>1, <2>2
  <2>6. blockState[b] = 2 \/ b \in requeue \/ Queued(b) \/ Scanning(b) => BlockPlaces(b) = 1
    BY <2>1, <2>2
  <2> QED
    BY <2>3, <2>4, <2>5, <2>6 DEF Saved, HasLine
<1> QED
  BY <1>1, ScannerKeeps, PTL
=============================================================================
