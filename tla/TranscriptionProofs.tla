------------------------- MODULE TranscriptionProofs -------------------------
(***************************************************************************)
(* The safety properties of two components of the transcription service.   *)
(* First the diarization jobs (DiarizeJobs), for any jobs, diarizations    *)
(* and answers of storage. Then the engines (EngineHost), for any models,  *)
(* times and number of audios: what a batch returns and what is loaded,    *)
(* whoever loads and removes models meanwhile.                             *)
(***************************************************************************)
EXTENDS DiarizeJobs, EngineHost, FiniteSetTheorems, SequenceTheorems,
        WellFoundedInduction, TLAPS

-----------------------------------------------------------------------------
(* Induction on numbers, for the folds.                                    *)

\* A set of numbers has a least one.
LEMMA Least ==
  ASSUME NEW T \in SUBSET Nat, T # {}
  PROVE \E x1 \in T : \A y \in T : x1 <= y
<1> DEFINE Less == OpToRel(<, Nat)
<1>1. IsWellFoundedOn(Less, Nat)
  BY NatLessThanWellFounded, Zenon
<1>2. PICK x \in T : \A y \in T : ~(<<y, x>> \in Less)
  <2> HIDE DEF Less
  <2> QED BY <1>1, WFMin, Zenon
<1>3. \A y \in Nat : y < x =>  <<y, x>> \in Less
  <2>1. ASSUME NEW y \in Nat, y < x PROVE <<y, x>> \in {p \in Nat \X Nat : p[1] < p[2]}
    BY <2>1
  <2>2. Less = {p \in Nat \X Nat : p[1] < p[2]}
    BY Zenon DEF OpToRel
  <2> QED BY <2>1, <2>2, Zenon
<1>4. \A y \in T : ~ (y < x)
  <2> HIDE DEF Less
  <2> QED BY <1>2, <1>3, Zenon
<1> HIDE DEF Less
<1> QED BY <1>4

\* Induction, as a fact about a set that 0 belongs to and that each number
\* leads on from.
LEMMA Induction ==
  ASSUME NEW S, 0 \in S, \A n \in Nat : n \in S => n+1 \in S
  PROVE Nat \subseteq S
<1>1. SUFFICES ASSUME Nat \ S # {} PROVE FALSE
  OBVIOUS
<1>2. PICK x \in Nat \ S : \A y \in Nat \ S : x <= y
  BY <1>1, Least
<1>3. x # 0 /\ x - 1 \in Nat /\ x - 1 \in S
  BY <1>2
<1> QED BY <1>2, <1>3

-----------------------------------------------------------------------------
(* assign_speakers: the fold over the turns finds the one that overlaps    *)
(* most.                                                                   *)

NobodyYet == [label |-> NoLabel, overlap |-> 0]
Found == [label : Labels \cup {NoLabel}, overlap : Nat]

IsFold(s, turns, k, g) ==
  g = [S \in SUBSET (1..k) |->
         IF S = {} THEN NobodyYet ELSE Better(s, g[S \ {Max(S)}], turns[Max(S)])]
Fold(s, turns) == CHOOSE g : IsFold(s, turns, Len(turns), g)

\* assign_speakers computes the recursive function of the library's FoldLeft.
LEMMA FoldIs ==
  ASSUME NEW turns \in Seq(Turn)
  PROVE  AssignSpeakers(turns) = [s \in Segments |-> Fold(s, turns)[1..Len(turns)].label]
<1>1. DOMAIN turns = 1..Len(turns)
  OBVIOUS
<1>2. \A s \in Segments : AssignSpeakers(turns)[s] = 
         (CHOOSE g : g = [S \in SUBSET (DOMAIN turns) |->
         IF S = {} THEN NobodyYet ELSE Better(s, g[S \ {Max(S)}], turns[Max(S)])])[DOMAIN turns].label
  BY Zenon DEF AssignSpeakers, FoldLeft, MapThenFoldSet, NobodyYet
<1>3. \A s \in Segments : AssignSpeakers(turns)[s] = Fold(s, turns)[1..Len(turns)].label
  BY <1>1, <1>2, Zenon DEF Fold, IsFold
<1> QED
  BY <1>3, Zenon DEF AssignSpeakers

\* The fold takes the last turn off first.
LEMMA MaxIs ==
  ASSUME NEW k \in Nat, NEW S \in SUBSET (1..(k + 1)), k + 1 \in S
  PROVE  Max(S) = k + 1
<1>1. \A y \in S : k + 1 >= y
  OBVIOUS
<1>2. Max(S) \in S /\ \A y \in S : Max(S) >= y
  BY <1>1, Zenon DEF Max
<1>3. Max(S) \in 1..(k + 1)
  BY <1>2, Zenon
<1>4. Max(S) >= k + 1
  BY <1>2, Zenon
<1> QED
  BY <1>3, <1>4

\* The equation that defines the fold has a solution, so CHOOSE yields one.
LEMMA FoldExists ==
  ASSUME NEW s, NEW turns, NEW k \in Nat
  PROVE  \E g : IsFold(s, turns, k, g)
<1> DEFINE P == {n \in Nat : \E g : IsFold(s, turns, n, g)}
<1>1. 0 \in P
  <2> DEFINE g == [S \in SUBSET (1..0) |-> NobodyYet]
  <2>1. \A S \in SUBSET (1..0) : S = {}
    OBVIOUS
  <2>2. IsFold(s, turns, 0, g)
    BY <2>1, Zenon DEF IsFold
  <2> QED BY <2>2
<1>2. ASSUME NEW n \in Nat, n \in P
      PROVE  n + 1 \in P
  <2>1. PICK g : IsFold(s, turns, n, g)
    BY <1>2
  <2> DEFINE h == [S \in SUBSET (1..(n + 1)) |->
                     IF n + 1 \in S THEN Better(s, g[S \ {n + 1}], turns[n + 1]) ELSE g[S]]
  <2> DEFINE step(S) == IF S = {} THEN NobodyYet
                        ELSE Better(s, h[S \ {Max(S)}], turns[Max(S)])
  <2>2. ASSUME NEW S \in SUBSET (1..(n + 1)), n + 1 \in S
        PROVE  h[S] = step(S)
    <3>1. Max(S) = n + 1 /\ S # {}
      BY <2>2, MaxIs
    <3>2. S \ {n + 1} \in SUBSET (1..(n + 1)) /\ n + 1 \notin S \ {n + 1}
      OBVIOUS
    <3> QED BY <2>2, <3>1, <3>2, Zenon
  <2>3. ASSUME NEW S \in SUBSET (1..(n + 1)), n + 1 \notin S
        PROVE  h[S] = step(S)
    <3>1. S \in SUBSET (1..n)
      BY <2>3
    <3>2. g[S] = IF S = {} THEN NobodyYet
                 ELSE Better(s, g[S \ {Max(S)}], turns[Max(S)])
      BY <2>1, <3>1, Zenon DEF IsFold
    <3>3. h[S] = g[S]
      BY <2>3, Zenon
    <3>4. h[S \ {Max(S)}] = g[S \ {Max(S)}]
      <4>1. S \ {Max(S)} \in SUBSET (1..(n + 1)) /\ n + 1 \notin S \ {Max(S)}
        BY <2>3, Zenon
      <4> QED BY <4>1, Zenon
    <3> HIDE DEF h
    <3> QED BY <3>2, <3>3, <3>4, Zenon
  <2>4. IsFold(s, turns, n + 1, h)
    <3>1. h = [S \in SUBSET (1..(n + 1)) |-> step(S)]
      <4>1. \A S \in SUBSET (1..(n + 1)) : h[S] = step(S)
        BY <2>2, <2>3, Zenon
      <4> QED BY <4>1, Zenon
    <3> HIDE DEF h
    <3> QED BY <3>1, Zenon DEF IsFold
  <2> QED BY <2>4
<1> HIDE DEF P
<1>3. k \in P
  BY <1>1, <1>2, Induction
<1> QED BY <1>3 DEF P

\* Among the turns 1..k, b is what the loop of merge.py has found.
BestOf(s, turns, k, b) ==
  /\ b \in Found
  /\ \A i \in 1..k : Overlap(s, turns[i]) <= b.overlap
  /\ IF b.overlap = 0 THEN b.label = NoLabel
     ELSE \E i \in 1..k : /\ Overlap(s, turns[i]) = b.overlap
                         /\ turns[i].label = b.label
                         /\ \A l \in 1..k : l < i => Overlap(s, turns[l]) < b.overlap

LEMMA OverlapType ==
  ASSUME NEW s \in Span, NEW t \in Turn
  PROVE  Overlap(s, t) \in Nat
BY DEF Span, Turn, Overlap, Earlier, Later

\* One more turn keeps the best so far the best.
LEMMA OneRound ==
  ASSUME NEW s \in Span, NEW turns \in Seq(Turn), NEW k \in Nat, k < Len(turns),
         NEW b, BestOf(s, turns, k, b)
  PROVE  BestOf(s, turns, k + 1, Better(s, b, turns[k + 1]))
<1> DEFINE o(i) == Overlap(s, turns[i])
           next == Better(s, b, turns[k + 1])
<1>1. \A i \in 1..(k + 1) : turns[i] \in Turn /\ o(i) \in Nat
  BY OverlapType
<1>2. turns[k + 1].label \in Labels
  BY <1>1 DEF Turn
<1>3. b.overlap \in Nat /\ b \in Found
  BY DEF BestOf, Found
<1>4. next = IF o(k + 1) > b.overlap
             THEN [label |-> turns[k + 1].label, overlap |-> o(k + 1)] ELSE b
  BY DEF Better
<1>5. /\ \A i \in 1..k : o(i) <= b.overlap
      /\ IF b.overlap = 0 THEN b.label = NoLabel
         ELSE \E i \in 1..k : /\ o(i) = b.overlap /\ turns[i].label = b.label
                             /\ \A l \in 1..k : l < i => o(l) < b.overlap
  BY DEF BestOf
<1> SUFFICES /\ next \in Found
             /\ \A i \in 1..(k + 1) : o(i) <= next.overlap
             /\ IF next.overlap = 0 THEN next.label = NoLabel
                ELSE \E i \in 1..(k + 1) :
                       /\ o(i) = next.overlap /\ turns[i].label = next.label
                       /\ \A l \in 1..(k + 1) : l < i => o(l) < next.overlap
  BY DEF BestOf
<1> HIDE DEF o, next
<1>6. CASE o(k + 1) > b.overlap
  <2>1. next.overlap = o(k + 1) /\ next.label = turns[k + 1].label
    BY <1>4, <1>6
  <2>2. next \in Found
    BY <1>1, <1>2, <1>4, <1>6 DEF Found
  <2>3. \A i \in 1..k : o(i) < next.overlap
    BY <1>1, <1>3, <1>5, <1>6, <2>1
  <2> QED BY <1>1, <1>3, <1>6, <2>1, <2>2, <2>3
<1>7. CASE ~(o(k + 1) > b.overlap)
  <2>1. next = b
    BY <1>4, <1>7
  <2>2. \A i \in 1..(k + 1) : o(i) <= b.overlap
    BY <1>1, <1>3, <1>5, <1>7
  <2>3. ASSUME b.overlap # 0
        PROVE  \E i \in 1..(k + 1) :
                 /\ o(i) = b.overlap /\ turns[i].label = b.label
                 /\ \A l \in 1..(k + 1) : l < i => o(l) < b.overlap
    BY <1>5, <2>3
  <2> QED BY <1>3, <1>5, <2>1, <2>2, <2>3
<1> QED BY <1>6, <1>7

\* What the fold ends with is the best of all turns.
LEMMA FoldIsBest ==
  ASSUME NEW s \in Span, NEW turns \in Seq(Turn)
  PROVE  BestOf(s, turns, Len(turns), Fold(s, turns)[1..Len(turns)])
<1> DEFINE n == Len(turns)
           g == Fold(s, turns)
           P == {k \in Nat : k <= n => BestOf(s, turns, k, g[1..k])}
<1>0. n \in Nat
  OBVIOUS
<1>1. IsFold(s, turns, n, g)
  BY <1>0, FoldExists, Zenon DEF Fold
<1>2. \A S \in SUBSET (1..n) :
        g[S] = IF S = {} THEN NobodyYet
               ELSE Better(s, g[S \ {Max(S)}], turns[Max(S)])
  BY <1>1, Zenon DEF IsFold
<1> HIDE DEF n, g
<1>3. 0 \in P
  <2>1. 1..0 = {} /\ 1..0 \in SUBSET (1..n)
    OBVIOUS
  <2>2. g[1..0] = NobodyYet
    BY <1>2, <2>1, Zenon
  <2> QED BY <2>2 DEF BestOf, NobodyYet, Found
<1>4. ASSUME NEW k \in Nat, k \in P
      PROVE  k + 1 \in P
  <2> SUFFICES ASSUME k + 1 <= n PROVE BestOf(s, turns, k + 1, g[1..(k + 1)])
    OBVIOUS
  <2>1. 1..(k + 1) \in SUBSET (1..n) /\ 1..(k + 1) # {} /\ k + 1 \in 1..(k + 1)
    <3>1. \A i \in 1..(k + 1) : i \in 1..n
      BY <1>0
    <3>2. k + 1 \in 1..(k + 1)
      OBVIOUS
    <3> QED BY <3>1, <3>2, Zenon
  <2>2. Max(1..(k + 1)) = k + 1
    BY <2>1, MaxIs
  <2>3. (1..(k + 1)) \ {k + 1} = 1..k
    OBVIOUS
  <2>4. g[1..(k + 1)] = Better(s, g[1..k], turns[k + 1])
    BY <1>2, <2>1, <2>2, <2>3, Zenon
  <2>5. BestOf(s, turns, k, g[1..k]) /\ k < Len(turns)
    BY <1>0, <1>4 DEF n
  <2> QED BY <2>4, <2>5, OneRound, Zenon
<1> HIDE DEF P
<1>5. n \in P
  BY <1>0, <1>3, <1>4, Induction
<1> QED BY <1>0, <1>5 DEF P, n, g

\* assign_speakers gives every segment the label of the turn that overlaps it most.
LEMMA SpeakersAssigned ==
  ASSUME NEW turns \in Seq(Turn), NEW s \in Segments
  PROVE  LET best == BestTurn(s, turns) IN
         IF best = {} THEN AssignSpeakers(turns)[s] = NoLabel
         ELSE \A i \in best : AssignSpeakers(turns)[s] = turns[i].label
<1> DEFINE b == Fold(s, turns)[1..Len(turns)]
           o(i) == Overlap(s, turns[i])
<1>1. s \in Span
  BY DiarizeAssumption
<1>2. BestOf(s, turns, Len(turns), b)
  BY <1>1, FoldIsBest
<1>3. AssignSpeakers(turns)[s] = b.label
  BY FoldIs, Zenon
<1>4. \A i \in DOMAIN turns : o(i) \in Nat
  BY <1>1, OverlapType
<1>5. BestTurn(s, turns) =
        {i \in DOMAIN turns :
           /\ o(i) > 0
           /\ \A k \in DOMAIN turns : o(k) <= o(i) /\ (k < i => o(k) < o(i))}
  BY DEF BestTurn
<1>6. DOMAIN turns = 1..Len(turns)
  OBVIOUS
<1>7. b.overlap \in Nat
  BY <1>2 DEF BestOf, Found
<1> HIDE DEF b, o
<1>8. CASE b.overlap = 0
  <2>1. b.label = NoLabel /\ \A i \in DOMAIN turns : o(i) <= 0
    BY <1>2, <1>6, <1>8 DEF BestOf, o
  <2>2. BestTurn(s, turns) = {}
    BY <1>4, <1>5, <2>1
  <2> QED BY <1>3, <2>1, <2>2
<1>9. CASE b.overlap # 0
  <2>1. PICK i \in DOMAIN turns : /\ o(i) = b.overlap /\ turns[i].label = b.label
                                 /\ \A l \in DOMAIN turns : l < i => o(l) < b.overlap
    BY <1>2, <1>6, <1>9 DEF BestOf, o
  <2>2. \A k \in DOMAIN turns : o(k) <= o(i)
    BY <1>2, <1>6, <2>1 DEF BestOf, o
  <2>3. i \in BestTurn(s, turns)
    BY <1>4, <1>5, <1>7, <1>9, <2>1, <2>2
  <2>4. \A k \in BestTurn(s, turns) : k = i
    <3> SUFFICES ASSUME NEW k \in BestTurn(s, turns), k # i PROVE FALSE
      OBVIOUS
    <3>1. k \in DOMAIN turns /\ o(i) <= o(k) /\ (i < k => o(i) < o(k))
      BY <1>5, <2>1
    <3> QED BY <1>4, <1>6, <2>1, <2>2, <3>1
  <2> QED BY <1>3, <2>1, <2>3, <2>4
<1> QED BY <1>8, <1>9

\* match_bulk matches a label only when the reply names every label once.
LEMMA Matched ==
  ASSUME NEW asked \in SUBSET Labels,
         NEW r \in Replies \cup {Missing}, NEW l \in asked,
         MatchBulk(asked, r)[l] # NoProfile
  PROVE  /\ Len(r) = Cardinality(asked)
         /\ \E i \in DOMAIN r : r[i] = [key |-> l, profile |-> MatchBulk(asked, r)[l]]
<1> DEFINE accepted == r # Missing /\ KeysValid(asked, r) /\ NamesAll(asked, r)
           Hits == IF accepted
                   THEN {r[i].profile : i \in {k \in DOMAIN r : r[k].key = l}} ELSE {}
<1>1. MatchBulk(asked, r)[l] = IF Hits = {} THEN NoProfile ELSE CHOOSE h \in Hits : TRUE
  BY Zenon DEF MatchBulk
<1>2. Hits # {} /\ accepted
  BY <1>1
<1>3. MatchBulk(asked, r)[l] \in Hits
  <2> HIDE DEF Hits
  <2> QED BY <1>1, <1>2, Zenon
<1>4. PICK i \in DOMAIN r : r[i].key = l /\ r[i].profile = MatchBulk(asked, r)[l]
  <2> HIDE DEF accepted
  <2>1. MatchBulk(asked, r)[l] \in {r[i].profile : i \in {k \in DOMAIN r : r[k].key = l}}
    BY <1>2, <1>3, Zenon
  <2> QED BY <2>1, Zenon
<1>5. r \in Seq(Entry)
  BY <1>2, DiarizeAssumption
<1>6. r[i] = [key |-> l, profile |-> MatchBulk(asked, r)[l]]
  <2>1. r[i] \in Entry
    BY <1>5
  <2> QED BY <1>4, <2>1 DEF Entry
<1>7. Len(r) = Cardinality(asked)
  <2> DEFINE n == Len(r)
             f == [k \in 1..n |-> r[k].key]
  <2>1. n \in Nat /\ DOMAIN r = 1..n
    BY <1>5
  <2>2. \A k \in 1..n : f[k] \in asked
    BY <1>2, <2>1 DEF KeysValid
  <2>3. \A k, m \in 1..n : k < m => f[k] # f[m]
    BY <1>2, <2>1 DEF KeysValid
  <2>4. \A k, m \in 1..n : f[k] = f[m] => k = m
    <3> HIDE DEF f
    <3> QED BY <2>1, <2>3
  <2>5. {r[k].key : k \in 1..n} = asked
    BY <1>2, <2>1, Zenon DEF NamesAll
  <2>6. \A x \in asked : \E k \in 1..n : f[k] = x
    BY <2>5
  <2>7. f \in [1..n -> asked]
    <3> HIDE DEF n
    <3> QED BY <2>2, Zenon
  <2>8. f \in Bijection(1..n, asked)
    <3> HIDE DEF f, n
    <3> QED BY <2>4, <2>6, <2>7, Zenon DEF Bijection, Injection, Surjection, IsInjective
  <2> HIDE DEF n
  <2>9. ExistsBijection(1..n, asked)
    BY <2>8, Zenon DEF ExistsBijection
  <2>10. Cardinality(asked) = n
    BY <2>1, <2>9, FS_CountingElements, Zenon
  <2> QED BY <2>10, Zenon DEF n
<1> QED BY <1>6, <1>7

-----------------------------------------------------------------------------
(* The inductive invariant of the jobs.                                    *)

\* Each entry of the pool is a job of its own that waits for the engine.
PoolFits ==
  /\ \A i \in DOMAIN pool : task[pool[i]] = "submitted"
  /\ \A i, k \in DOMAIN pool : pool[i] = pool[k] => i = k

\* A job is in the store until it has ended, and is terminal only then.
RunningIsStored ==
  \A j \in Jobs :
    /\ task[j] \in {"created", "submitted", "matching"} => j \in stored
    /\ Terminal(status[j]) => task[j] = "ended"
    /\ task[j] = "none" => j \notin stored

\* What a job knows at each stage; an outcome comes from what the engine found
\* and what storage answered.
OutcomeFits ==
  \A j \in Jobs :
    /\ task[j] \in {"none", "created", "submitted"} => found[j] = Missing
    /\ task[j] = "matching" => found[j] # Missing
    /\ task[j] # "ended" => result[j] = Missing /\ reply[j] = Missing
    /\ task[j] = "ended" /\ found[j] # Missing =>
         status[j] = "COMPLETED" /\ result[j] # Missing
    /\ result[j] # Missing =>
         found[j] # Missing /\ result[j] = Outcome(found[j], reply[j])

JobInv == JobsTypeOK /\ PoolFits /\ RunningIsStored /\ OutcomeFits

LEMMA JobInit ==
  ASSUME JobsInit
  PROVE  JobInv
<1>1. JobsTypeOK
  BY DiarizeAssumption DEF JobsInit, JobsTypeOK
<1>2. PoolFits
  BY DEF JobsInit, PoolFits
<1>3. RunningIsStored
  BY DEF JobsInit, RunningIsStored, Terminal
<1>4. OutcomeFits
  BY DEF JobsInit, OutcomeFits
<1> QED BY <1>1, <1>2, <1>3, <1>4 DEF JobInv

LEMMA JobStart ==
  ASSUME JobInv, NEW j \in Jobs, StartDiarize(j)
  PROVE  JobInv'
<1> USE DEF JobInv, JobsTypeOK, StartDiarize
<1>1. JobsTypeOK'
  OBVIOUS
<1>2. PoolFits'
  BY DEF PoolFits
<1>3. RunningIsStored'
  BY DEF RunningIsStored, Terminal
<1>4. OutcomeFits'
  BY DEF OutcomeFits
<1> QED BY <1>1, <1>2, <1>3, <1>4

LEMMA JobSubmits ==
  ASSUME JobInv, NEW j \in Jobs, RunSubmits(j)
  PROVE  JobInv'
<1> USE DEF JobInv, JobsTypeOK, RunSubmits
<1>1. JobsTypeOK'
  OBVIOUS
<1>2. PoolFits'
  <2>1. \A i \in DOMAIN pool : pool[i] # j /\ pool'[i] = pool[i]
    BY DEF PoolFits
  <2>2. DOMAIN pool' = DOMAIN pool \cup {Len(pool) + 1} /\ pool'[Len(pool) + 1] = j
    OBVIOUS
  <2>3. \A i \in DOMAIN pool' : task'[pool'[i]] = "submitted"
    BY <2>1, <2>2 DEF PoolFits
  <2>4. \A i, k \in DOMAIN pool' : pool'[i] = pool'[k] => i = k
    BY <2>1, <2>2 DEF PoolFits
  <2> QED BY <2>3, <2>4 DEF PoolFits
<1>3. RunningIsStored'
  BY DEF RunningIsStored, Terminal
<1>4. OutcomeFits'
  BY DEF OutcomeFits
<1> QED BY <1>1, <1>2, <1>3, <1>4

\* The first entry of the pool leaves it; its job is no longer in it.
LEMMA PoolMoves ==
  ASSUME JobInv, pool # <<>>, pool' = Tail(pool),
         \A j \in Jobs : j # Head(pool) => task'[j] = task[j]
  PROVE  /\ Head(pool) \in Jobs /\ task[Head(pool)] = "submitted"
         /\ pool' \in Seq(Jobs) /\ PoolFits'
<1> USE DEF JobInv, JobsTypeOK
<1>1. Len(pool) \in Nat /\ Len(pool) > 0 /\ DOMAIN pool = 1..Len(pool) /\ Head(pool) = pool[1]
  OBVIOUS
<1>2. /\ Len(pool') = Len(pool) - 1 /\ pool' \in Seq(Jobs) /\ DOMAIN pool' = 1..(Len(pool) - 1)
      /\ \A i \in DOMAIN pool' : pool'[i] = pool[i + 1]
  <2>1. pool \in Seq(Jobs)
    OBVIOUS
  <2>2. /\ pool' \in Seq(Jobs) /\ Len(pool') = Len(pool) - 1
        /\ \A i \in 1..Len(pool') : pool'[i] = pool[i + 1]
    BY <2>1, HeadTailProperties, Zenon
  <2>3. DOMAIN pool' = 1..Len(pool')
    BY <2>2, LenProperties, Zenon
  <2> QED BY <2>2, <2>3
<1>3. \A i \in DOMAIN pool' : i + 1 \in DOMAIN pool /\ pool[i + 1] # Head(pool)
  <2> SUFFICES ASSUME NEW i \in DOMAIN pool'
               PROVE  i + 1 \in DOMAIN pool /\ pool[i + 1] # Head(pool)
    OBVIOUS
  <2>1. i \in 1..(Len(pool) - 1)
    BY <1>2
  <2>2. i + 1 \in DOMAIN pool /\ 1 \in DOMAIN pool /\ i + 1 # 1
    BY <1>1, <2>1
  <2> QED BY <1>1, <2>2, Zenon DEF PoolFits
<1>4. Head(pool) \in Jobs /\ task[Head(pool)] = "submitted"
  BY <1>1 DEF PoolFits
<1>5. \A i \in DOMAIN pool' : task'[pool'[i]] = "submitted"
  BY <1>1, <1>2, <1>3 DEF PoolFits
<1>6. \A i, k \in DOMAIN pool' : pool'[i] = pool'[k] => i = k
  BY <1>1, <1>2, <1>3 DEF PoolFits
<1> QED BY <1>2, <1>4, <1>5, <1>6 DEF PoolFits

LEMMA IsOutcome ==
  ASSUME NEW d \in Diarizations, NEW r \in Replies \cup {Missing}
  PROVE  Outcome(d, r) \in Outcomes /\ Outcome(d, r) # Missing
<1>1. Outcome(d, r) \in Outcomes
  <2>1. \E e \in Diarizations, q \in Replies \cup {Missing} : Outcome(d, r) = Outcome(e, q)
    OBVIOUS
  <2> QED BY <2>1 DEF Outcomes
<1> QED BY <1>1, OutcomeAssumption

LEMMA JobEngineReturns ==
  ASSUME JobInv, NEW j \in Jobs, EngineReturns(j)
  PROVE  JobInv'
<1> USE DEF JobInv, JobsTypeOK
<1>1. PICK d \in Diarizations :
        /\ found' = [found EXCEPT ![j] = d]
        /\ IF d.speakers = {}
           THEN /\ status' = [status EXCEPT ![j] = "COMPLETED"]
                /\ result' = [result EXCEPT ![j] = Outcome(d, Missing)]
                /\ task' = [task EXCEPT ![j] = "ended"]
           ELSE /\ task' = [task EXCEPT ![j] = "matching"]
                /\ UNCHANGED <<status, result>>
  BY DEF EngineReturns
<1>2. j = Head(pool) /\ pool # <<>> /\ pool' = Tail(pool) /\ UNCHANGED <<stored, age, reply>>
  BY DEF EngineReturns
<1>3. \A i \in Jobs : i # Head(pool) => task'[i] = task[i]
  BY <1>1, <1>2
<1>4. task[j] = "submitted" /\ pool' \in Seq(Jobs) /\ PoolFits'
  BY <1>2, <1>3, PoolMoves
<1>5. d # Missing /\ reply[j] = Missing
      /\ Outcome(d, Missing) \in Outcomes /\ Outcome(d, Missing) # Missing
  BY <1>4, IsOutcome, DiarizeAssumption DEF OutcomeFits
<1>6. JobsTypeOK'
  <2>1. task' \in [Jobs -> {"none", "created", "submitted", "matching", "ended"}]
    BY <1>1
  <2>2. status' \in [Jobs -> {"PENDING", "RUNNING", "COMPLETED", "FAILED"}]
    BY <1>1
  <2>3. result' \in [Jobs -> Outcomes \cup {Missing}]
    BY <1>1, <1>5
  <2>4. found' \in [Jobs -> Diarizations \cup {Missing}]
    BY <1>1
  <2> QED BY <1>2, <1>4, <2>1, <2>2, <2>3, <2>4
<1>7. RunningIsStored'
  BY <1>1, <1>2, <1>4 DEF RunningIsStored, Terminal
<1>8. OutcomeFits'
  BY <1>1, <1>2, <1>4, <1>5 DEF OutcomeFits
<1> QED BY <1>4, <1>6, <1>7, <1>8

LEMMA JobEngineRaises ==
  ASSUME JobInv, NEW j \in Jobs, EngineRaises(j)
  PROVE  JobInv'
<1> USE DEF JobInv, JobsTypeOK, EngineRaises, Failed
<1>1. \A i \in Jobs : i # Head(pool) => task'[i] = task[i]
  OBVIOUS
<1>2. task[j] = "submitted" /\ pool' \in Seq(Jobs) /\ PoolFits'
  BY <1>1, PoolMoves
<1>3. JobsTypeOK'
  BY <1>2
<1>4. RunningIsStored'
  BY <1>2 DEF RunningIsStored, Terminal
<1>5. OutcomeFits'
  BY <1>2 DEF OutcomeFits
<1> QED BY <1>2, <1>3, <1>4, <1>5

LEMMA JobMatchEnds ==
  ASSUME JobInv, NEW j \in Jobs, MatchEnds(j)
  PROVE  JobInv'
<1> USE DEF JobInv, JobsTypeOK
<1>1. PICK r \in Replies \cup {Missing} :
        /\ reply' = [reply EXCEPT ![j] = r]
        /\ result' = [result EXCEPT ![j] = Outcome(found[j], r)]
  BY DEF MatchEnds
<1>2. /\ task[j] = "matching"
      /\ status' = [status EXCEPT ![j] = "COMPLETED"]
      /\ task' = [task EXCEPT ![j] = "ended"]
      /\ UNCHANGED <<pool, stored, age, found>>
  BY DEF MatchEnds
<1>3. /\ found[j] \in Diarizations
      /\ Outcome(found[j], r) \in Outcomes /\ Outcome(found[j], r) # Missing
  BY <1>2, IsOutcome DEF OutcomeFits
<1>4. JobsTypeOK'
  BY <1>1, <1>2, <1>3
<1>5. PoolFits'
  BY <1>2 DEF PoolFits
<1>6. RunningIsStored'
  BY <1>2 DEF RunningIsStored, Terminal
<1>7. OutcomeFits'
  BY <1>1, <1>2, <1>3 DEF OutcomeFits
<1> QED BY <1>4, <1>5, <1>6, <1>7

\* Forgetting jobs keeps the invariant, whatever else it leaves alone.
LEMMA JobForgets ==
  ASSUME JobInv, NEW S \in SUBSET stored, Forget(S),
         UNCHANGED status, age' \in [Jobs -> 0..(TTL + 1)],
         \/ /\ UNCHANGED <<task, pool>>
            /\ \A j \in S : task[j] = "ended"
         \/ /\ pool' = <<>> /\ S = stored
            /\ task' = [j \in Jobs |-> IF task[j] = "none" THEN "none" ELSE "ended"]
  PROVE  JobInv'
<1> USE DEF JobInv, JobsTypeOK
<1> DEFINE gone == {j \in S : task'[j] = "ended"}
           Without(f) == [j \in Jobs |-> IF j \in gone THEN Missing ELSE f[j]]
<1>1. stored' = stored \ S /\ result' = Without(result) /\ found' = Without(found)
      /\ reply' = Without(reply)
  BY DEF Forget
<1>2. \A j \in S : task'[j] = "ended"
  BY DEF RunningIsStored
<1>3. \A j \in Jobs :
        IF j \in S THEN result'[j] = Missing /\ found'[j] = Missing /\ reply'[j] = Missing
        ELSE result'[j] = result[j] /\ found'[j] = found[j] /\ reply'[j] = reply[j]
  BY <1>1, <1>2
<1>4. result' \in [Jobs -> Outcomes \cup {Missing}]
  BY <1>1
<1>5. found' \in [Jobs -> Diarizations \cup {Missing}] /\ reply' \in [Jobs -> Replies \cup {Missing}]
  BY <1>1
<1> HIDE DEF gone, Without
<1>6. JobsTypeOK'
  <2>1. task' \in [Jobs -> {"none", "created", "submitted", "matching", "ended"}]
    OBVIOUS
  <2>2. pool' \in Seq(Jobs)
    <3>1. <<>> \in Seq(Jobs)
      OBVIOUS
    <3>2. pool \in Seq(Jobs)
      OBVIOUS
    <3> QED BY <3>1, <3>2, Zenon
  <2> QED BY <1>1, <1>4, <1>5, <2>1, <2>2
<1>7. PoolFits'
  BY DEF PoolFits
<1>8. RunningIsStored'
  BY <1>1, <1>2 DEF RunningIsStored, Terminal
<1>9. ASSUME NEW j \in Jobs
      PROVE  task'[j] = task[j] \/ (task[j] # "none" /\ task'[j] = "ended" /\ S = stored)
  OBVIOUS
<1>10. OutcomeFits'
  <2>1. \A j \in Jobs : j \notin S /\ task'[j] # task[j] => FALSE
    BY <1>9 DEF RunningIsStored
  <2> QED BY <1>2, <1>3, <2>1 DEF OutcomeFits
<1> QED BY <1>6, <1>7, <1>8, <1>10

LEMMA JobRead ==
  ASSUME JobInv, NEW j \in Jobs, GetDiarizeJob(j)
  PROVE  JobInv'
<1> DEFINE S == IF Terminal(status[j]) THEN {j} ELSE {}
<1>1. S \in SUBSET stored /\ Forget(S) /\ UNCHANGED <<task, pool, status>>
  BY DEF GetDiarizeJob
<1>2. \A i \in S : task[i] = "ended"
  BY DEF JobInv, RunningIsStored
<1>3. age' \in [Jobs -> 0..(TTL + 1)]
  BY DiarizeAssumption DEF JobInv, JobsTypeOK, GetDiarizeJob
<1> HIDE DEF S
<1> QED BY <1>1, <1>2, <1>3, JobForgets

LEMMA JobSwept ==
  ASSUME JobInv, Sweep
  PROVE  JobInv'
<1> DEFINE S == {j \in stored : Expired(j)}
<1>1. S \in SUBSET stored /\ Forget(S) /\ UNCHANGED <<task, pool, status, age>>
  BY DEF Sweep
<1>2. \A i \in S : task[i] = "ended"
  BY DEF JobInv, JobsTypeOK, RunningIsStored, Expired
<1>3. age' \in [Jobs -> 0..(TTL + 1)]
  BY <1>1 DEF JobInv, JobsTypeOK
<1> HIDE DEF S
<1> QED BY <1>1, <1>2, <1>3, JobForgets

LEMMA JobTick ==
  ASSUME JobInv, Tick
  PROVE  JobInv'
<1>1. \A j \in Jobs : age[j] \in 0..(TTL + 1) /\ TTL \in Nat
  BY DiarizeAssumption DEF JobInv, JobsTypeOK
<1>2. \A n \in 0..(TTL + 1) : Earlier(n + 1, TTL + 1) \in 0..(TTL + 1)
  BY DiarizeAssumption DEF Earlier
<1>3. age' = [j \in Jobs |->
                IF j \in stored THEN Earlier(age[j] + 1, TTL + 1) ELSE age[j]]
      /\ UNCHANGED <<task, pool, stored, status, result, found, reply>>
  BY DEF Tick
<1>4. age' \in [Jobs -> 0..(TTL + 1)]
  BY <1>1, <1>2, <1>3
<1>5. JobsTypeOK'
  BY <1>3, <1>4 DEF JobInv, JobsTypeOK
<1> QED BY <1>3, <1>5 DEF JobInv, PoolFits, RunningIsStored, OutcomeFits, Terminal

LEMMA JobRestart ==
  ASSUME JobInv, Restart
  PROVE  JobInv'
<1>1. age' \in [Jobs -> 0..(TTL + 1)]
  BY DEF JobInv, JobsTypeOK, Restart
<1> QED BY <1>1, JobForgets DEF Restart

LEMMA JobStep ==
  ASSUME JobInv, [JobsNext]_jobVars
  PROVE  JobInv'
<1>1. ASSUME NEW j \in Jobs, RunStep(j) PROVE JobInv'
  BY <1>1, JobSubmits, JobEngineReturns, JobEngineRaises, JobMatchEnds DEF RunStep
<1>2. CASE UNCHANGED jobVars
  BY <1>2 DEF jobVars, storeVars, JobInv, JobsTypeOK, PoolFits, RunningIsStored, OutcomeFits, Terminal
<1> QED
  BY <1>1, <1>2, JobStart, JobRead, JobSwept, JobTick, JobRestart DEF JobsNext

\* The invariant holds of every behaviour.
LEMMA JobInvariant ==
  JobsSpec => []JobInv
<1>1. JobsInit => JobInv
  BY JobInit
<1>2. JobInv /\ [JobsNext]_jobVars => JobInv'
  BY JobStep
<1> QED BY <1>1, <1>2, PTL DEF JobsSpec

\* Every variable of the jobs and of the diarize pool keeps its type.
THEOREM JobTypeCorrect ==
  JobsSpec => []JobsTypeOK
<1>1. JobInv => JobsTypeOK
  BY DEF JobInv
<1> QED BY <1>1, JobInvariant, PTL

\* Whatever the turns, each segment of a result carries the label of the turn
\* that overlaps it most, the earlier of two equals, and none if no turn
\* touches it.  (assign_speakers in merge.py.)
THEOREM SegmentsCorrect ==
  JobsSpec => []SegmentsGetTheirSpeaker
<1>1. JobInv => SegmentsGetTheirSpeaker
  <2> SUFFICES ASSUME JobInv, NEW j \in Jobs, result[j] # Missing, NEW s \in Segments
               PROVE  LET best == BestTurn(s, found[j].turns) IN
                      IF best = {} THEN result[j].segments[s] = NoLabel
                      ELSE \A i \in best : result[j].segments[s] = found[j].turns[i].label
    BY DEF SegmentsGetTheirSpeaker
  <2>1. found[j] \in Diarizations /\ result[j] = Outcome(found[j], reply[j])
    BY DEF JobInv, OutcomeFits, JobsTypeOK
  <2>2. found[j].turns \in Seq(Turn)
    BY <2>1, DiarizeAssumption DEF Diarization
  <2>3. result[j].segments = AssignSpeakers(found[j].turns)
    BY <2>1 DEF Outcome
  <2> QED BY <2>2, <2>3, SpeakersAssigned
<1> QED BY <1>1, JobInvariant, PTL

\* Whatever storage answers, or if it does not, a job whose diarization
\* succeeded completes, and a speaker is matched only by an answer that names
\* every speaker of the job once.  (_run_diarize_job, match_bulk.)
THEOREM StorageOnlyNamesCorrect ==
  JobsSpec => []StorageOnlyNames
<1>1. JobInv => StorageOnlyNames
  <2> SUFFICES ASSUME JobInv, NEW j \in Jobs
               PROVE  /\ task[j] = "ended" /\ found[j] # Missing /\ j \in stored =>
                           status[j] = "COMPLETED" /\ result[j] # Missing
                      /\ result[j] # Missing => \A l \in found[j].speakers :
                           result[j].speakers[l] # NoProfile =>
                             /\ Len(reply[j]) = Cardinality(found[j].speakers)
                             /\ \E i \in DOMAIN reply[j] :
                                  reply[j][i] = [key |-> l, profile |-> result[j].speakers[l]]
    BY Zenon DEF StorageOnlyNames
  <2>1. task[j] = "ended" /\ found[j] # Missing => status[j] = "COMPLETED" /\ result[j] # Missing
    BY DEF JobInv, OutcomeFits
  <2>2. ASSUME result[j] # Missing, NEW l \in found[j].speakers, result[j].speakers[l] # NoProfile
        PROVE  /\ Len(reply[j]) = Cardinality(found[j].speakers)
               /\ \E i \in DOMAIN reply[j] :
                    reply[j][i] = [key |-> l, profile |-> result[j].speakers[l]]
    <3>1. /\ found[j] \in Diarizations /\ reply[j] \in Replies \cup {Missing}
          /\ result[j] = Outcome(found[j], reply[j])
      BY <2>2 DEF JobInv, OutcomeFits, JobsTypeOK
    <3>2. found[j].speakers \in SUBSET Labels
      BY <3>1, DiarizeAssumption DEF Diarization
    <3>3. result[j].speakers = MatchBulk(found[j].speakers, reply[j])
      BY <3>1 DEF Outcome
    <3>4. MatchBulk(found[j].speakers, reply[j])[l] # NoProfile
      BY <2>2, <3>3
    <3>5. l \in found[j].speakers
      OBVIOUS
    <3> DEFINE asked == found[j].speakers
               r == reply[j]
    <3>6. /\ Len(r) = Cardinality(asked)
          /\ \E i \in DOMAIN r : r[i] = [key |-> l, profile |-> MatchBulk(asked, r)[l]]
      <4> HIDE DEF asked, r
      <4>1. r \in Replies \cup {Missing} /\ asked \in SUBSET Labels /\ l \in asked
            /\ MatchBulk(asked, r)[l] # NoProfile
        BY <3>1, <3>2, <3>4, <3>5 DEF asked, r
      <4> QED BY <4>1, Matched
    <3> QED BY <3>3, <3>6
  <2> QED BY <2>1, <2>2
<1> QED BY <1>1, JobInvariant, PTL

\* No job leaves the store before it has ended, except with the process.
\* (get_diarize_job, sweep_expired_jobs.)
THEOREM OnlyOutcomesCorrect ==
  JobsSpec => OnlyOutcomesAreForgotten
<1> DEFINE Kept == \A j \in stored \ stored' :
                     \/ task[j] = "ended"
                     \/ stored' = {} /\ pool' = <<>> /\ task'[j] = "ended"
<1>1. JobInv /\ [JobsNext]_jobVars => [Kept]_jobVars
  <2> SUFFICES ASSUME JobInv, JobsNext, NEW j \in stored \ stored'
               PROVE  \/ task[j] = "ended"
                      \/ stored' = {} /\ pool' = <<>> /\ task'[j] = "ended"
    BY DEF jobVars
  <2> USE DEF JobInv, RunningIsStored
  <2>0. j \in Jobs /\ task[j] # "none"
    BY DEF JobsTypeOK
  <2>1. CASE \E i \in Jobs : StartDiarize(i) \/ RunStep(i)
    BY <2>1 DEF StartDiarize, RunStep, RunSubmits, EngineReturns, EngineRaises, MatchEnds
  <2>2. ASSUME NEW i \in Jobs, GetDiarizeJob(i) PROVE task[j] = "ended"
    BY <2>0, <2>2 DEF GetDiarizeJob, Forget
  <2>3. CASE Sweep
    BY <2>0, <2>3 DEF Sweep, Forget, Expired
  <2>4. CASE Tick
    BY <2>4 DEF Tick
  <2>5. CASE Restart
    BY <2>0, <2>5 DEF Restart, Forget, JobsTypeOK
  <2> QED BY <2>1, <2>2, <2>3, <2>4, <2>5 DEF JobsNext
<1> QED BY <1>1, JobInvariant, PTL DEF JobsSpec, OnlyOutcomesAreForgotten

-----------------------------------------------------------------------------
(* The engines.                                                            *)

USE DEF engine, historyVars, Idle

-----------------------------------------------------------------------------
(* Types and batches, with any number of requests.                         *)

Request ==
  [pc : {"construct", "path", "name", "unload", "forget", "remove"}, m : Models]

LEMMA AdminTyped ==
  ASSUME TypeOK, NEW a \in Admins, admin[a].pc # "idle"
  PROVE  admin[a] \in Request /\ admin[a].m \in Models
<1>1. admin[a] \in {Idle} \cup Request
  BY DEF TypeOK, Request
<1> QED
  BY <1>1 DEF Request

LEMMA AdminGoes ==
  ASSUME TypeOK, NEW a \in Admins, NEW m \in Models,
         NEW pc \in {"construct", "path", "name", "unload", "forget", "remove"}
  PROVE  /\ To(a, pc, m) => admin' \in [Admins -> {Idle} \cup Request]
         /\ Done(a) => admin' \in [Admins -> {Idle} \cup Request]
BY DEF TypeOK, To, Done, Request

LEMMA ClampRange ==
  ASSUME NEW x \in Int
  PROVE  Clamp(x) \in 0..Duration
BY HostAssumption DEF Clamp, Higher, Lower

\* Whatever times the library reports, the result's lie in the audio, in order.
LEMMA TimesFit ==
  ASSUME NEW raw \in {<<>>} \cup {<<s, t>> : s, t \in Stamps}
  PROVE  /\ Times(raw) \in Result
         /\ 0 <= Times(raw).start
         /\ Times(raw).start <= Times(raw).end
         /\ Times(raw).end <= Duration
<1> DEFINE first == IF raw = <<>> THEN 0 ELSE raw[1]
           last  == IF raw = <<>> THEN Duration ELSE raw[Len(raw)]
<1>1. first \in Int /\ last \in Int
  BY HostAssumption
<1>2. \A x, y \in 0..Duration : Higher(x, y) \in 0..Duration /\ x <= Higher(x, y)
  BY HostAssumption DEF Higher
<1>3. Times(raw) = [start |-> Clamp(first), end |-> Higher(Clamp(first), Clamp(last))]
  BY DEF Times
<1> HIDE DEF first, last
<1>4. Clamp(first) \in 0..Duration /\ Clamp(last) \in 0..Duration
  BY <1>1, ClampRange
<1> QED
  BY <1>2, <1>3, <1>4 DEF Result

BatchTyped ==
  batch \in [pc : {"none", "idle", "raised"}]
       \cup [pc : {"checked"}, checked : BOOLEAN, results : Seq(Result)]
       \cup [pc : {"returned"}, results : Seq(Result)]

LEMMA TypeInit == Init => TypeOK /\ BatchContract
<1> SUFFICES ASSUME Init PROVE TypeOK /\ BatchContract
  OBVIOUS
<1>1. BatchTyped /\ BatchContract
  BY DEF Init, BatchTyped, BatchContract
<1>2. admin \in [Admins -> {Idle} \cup Request]
  BY DEF Init
<1>3. disk \in [Models -> {"missing", "downloading", "broken", "whole"}]
  BY DEF Init
<1>4. mixed \in BOOLEAN /\ contested \in SUBSET Models
  BY DEF Init
<1> QED
  BY <1>1, <1>2, <1>3, <1>4 DEF Init, TypeOK, BatchTyped, Request

LEMMA CheckKeeps ==
  ASSUME TypeOK, Check
  PROVE  BatchTyped' /\ BatchContract'
<1>1. CASE model = Nothing
  BY <1>1 DEF Check, Raises, BatchTyped, BatchContract
<1>2. CASE model # Nothing
  <2> DEFINE results == IF batch.pc = "idle" THEN <<>> ELSE batch.results
  <2>1. results \in Seq(Result)
    BY DEF TypeOK, Check
  <2>2. batch' = [pc |-> "checked", checked |-> TRUE, results |-> results]
    BY <1>2 DEF Check
  <2> HIDE DEF results
  <2> QED
    BY <2>1, <2>2 DEF BatchTyped, BatchContract
<1> QED
  BY <1>1, <1>2

LEMMA TranscribeKeeps ==
  ASSUME TypeOK, TranscribeOne
  PROVE  BatchTyped' /\ BatchContract'
<1>1. CASE Raises
  BY <1>1 DEF Raises, BatchTyped, BatchContract
<1>3. \A x \in [start : Stamps \cup {0}, end : Stamps \cup {Duration}] : x \in Result
  <2>1. Stamps \cup {0} \subseteq Int /\ Stamps \cup {Duration} \subseteq Int
    BY HostAssumption
  <2> QED
    BY <2>1 DEF Result
<1>2. ASSUME NEW r \in Result,
             LET results == Append(batch.results, r) IN
             batch' = IF Len(results) = Audios
                      THEN [pc |-> "returned", results |-> results]
                      ELSE [batch EXCEPT !.checked = FALSE, !.results = results]
      PROVE  BatchTyped' /\ BatchContract'
  <2> DEFINE results == Append(batch.results, r)
  <2>1. batch \in [pc : {"checked"}, checked : BOOLEAN, results : Seq(Result)]
    BY DEF TypeOK, TranscribeOne, Checked
  <2>2. results \in Seq(Result)
    BY <2>1
  <2>3. batch' = IF Len(results) = Audios
                 THEN [pc |-> "returned", results |-> results]
                 ELSE [batch EXCEPT !.checked = FALSE, !.results = results]
    BY <1>2
  <2>4. kind' # "parakeet"
    BY DEF TranscribeOne
  <2> HIDE DEF results
  <2>5. CASE Len(results) = Audios
    BY <2>2, <2>3, <2>4, <2>5 DEF BatchTyped, BatchContract
  <2>6. CASE Len(results) # Audios
    BY <2>1, <2>2, <2>3, <2>6 DEF BatchTyped, BatchContract
  <2> QED
    BY <2>5, <2>6
<1> QED
  BY <1>1, <1>2, <1>3 DEF TranscribeOne

LEMMA RecognizeKeeps ==
  ASSUME TypeOK, Recognize
  PROVE  BatchTyped' /\ BatchContract'
<1>1. CASE Raises
  BY <1>1 DEF Raises, BatchTyped, BatchContract
<1>2. ASSUME NEW n \in 0..(Audios + 1),
             NEW raw \in [1..n -> {<<>>} \cup {<<s, t>> : s, t \in Stamps}],
             Complete(raw),
             batch' = [pc |-> "returned", results |-> [i \in 1..n |-> Times(raw[i])]]
      PROVE  BatchTyped' /\ BatchContract'
  <2> DEFINE results == [i \in 1..n |-> Times(raw[i])]
  <2>1. n \in Nat
    BY HostAssumption
  <2>2. \A i \in 1..n : /\ results[i] \in Result
                        /\ 0 <= results[i].start
                        /\ results[i].start <= results[i].end
                        /\ results[i].end <= Duration
    BY TimesFit
  <2>3. results \in Seq(Result) /\ Len(results) = n /\ DOMAIN results = 1..n
    BY <2>1, <2>2
  <2>4. n = Audios
    BY <1>2, <2>1 DEF Complete
  <2>5. batch' = [pc |-> "returned", results |-> results]
    BY <1>2
  <2> HIDE DEF results
  <2> QED
    BY <2>2, <2>3, <2>4, <2>5 DEF BatchTyped, BatchContract
<1> QED
  BY <1>1, <1>2 DEF Recognize

LEMMA HostStep ==
  ASSUME TypeOK, BatchContract, [Next]_vars
  PROVE  TypeOK' /\ BatchContract'
<1>1. CASE UNCHANGED vars
  BY <1>1 DEF vars, TypeOK, BatchContract
<1>2. ASSUME NEW m \in Models, Download(m) \/ DownloadEnds(m)
      PROVE  TypeOK' /\ BatchContract'
  BY <1>2 DEF Download, DownloadEnds, TypeOK, BatchContract
<1>3. ASSUME NEW a \in Admins, Admin(a)
      PROVE  TypeOK' /\ BatchContract'
  <2>1. BatchContract' /\ batch' = batch
    BY <1>3 DEF Admin, LoadModel, RemoveModel, Construct, ConstructFails, SetPath,
       SetLoaded, UnloadFirst, UnloadSecond, RemoveFiles, BatchContract
  <2>2. admin' \in [Admins -> {Idle} \cup Request]
    BY <1>3, AdminTyped, AdminGoes DEF Admin, LoadModel, RemoveModel, Construct,
       ConstructFails, SetPath, SetLoaded, UnloadFirst, UnloadSecond, RemoveFiles
  <2>3. /\ kind' = kind
        /\ model' \in Models \cup {Nothing, Library}
        /\ path' \in Models \cup {Nothing} /\ loaded' \in Models \cup {Nothing}
        /\ disk' \in [Models -> {"missing", "downloading", "broken", "whole"}]
    BY <1>3, AdminTyped DEF TypeOK, Admin, LoadModel, RemoveModel, Construct,
       ConstructFails, SetPath, SetLoaded, UnloadFirst, UnloadSecond, RemoveFiles,
       ClearModel, ClearLoaded
  <2>4. mixed' \in BOOLEAN /\ contested' \in SUBSET Models
    BY <1>3 DEF TypeOK, Admin, LoadModel, RemoveModel, Construct, Assigns, Assigning,
       ConstructFails, SetPath, SetLoaded, UnloadFirst, UnloadSecond, RemoveFiles
  <2> QED
    BY <2>1, <2>2, <2>3, <2>4 DEF TypeOK, Request
<1>4. ASSUME StartSession \/ NextBatch
      PROVE  TypeOK' /\ BatchContract'
  BY <1>4 DEF StartSession, NextBatch, TypeOK, BatchContract
<1>5. CASE Check
  BY <1>5, CheckKeeps DEF Check, TypeOK, BatchTyped
<1>6. CASE TranscribeOne
  BY <1>6, TranscribeKeeps DEF TranscribeOne, TypeOK, BatchTyped
<1>7. CASE Recognize
  BY <1>7, RecognizeKeeps DEF Recognize, TypeOK, BatchTyped
<1> QED
  BY <1>1, <1>2, <1>3, <1>4, <1>5, <1>6, <1>7 DEF Next

\* The attributes of the engine and the batch keep their types: a batch that has
\* returned carries results, one that was checked those so far.
THEOREM TypeCorrect == Spec => []TypeOK
<1>1. TypeOK /\ BatchContract /\ [Next]_vars => TypeOK' /\ BatchContract'
  BY HostStep
<1> QED
  BY TypeInit, <1>1, PTL DEF Spec

\* A batch returns one result for each audio and parakeet's times lie in the
\* audio and in order, whoever loads or removes models meanwhile.
\* (transcribe_batch, _to_transcript_result.)
THEOREM BatchesKeepTheContract == Spec => []BatchContract
<1>1. TypeOK /\ BatchContract /\ [Next]_vars => TypeOK' /\ BatchContract'
  BY HostStep
<1> QED
  BY TypeInit, <1>1, PTL DEF Spec

-----------------------------------------------------------------------------
(* The engine, with any number of requests to load and remove.             *)

Current == IF kind = "mlx" /\ model # Nothing THEN path ELSE model

\* What _model can be: on Apple silicon it is the library.
ModelFits ==
  IF kind = "mlx" THEN model \in {Nothing, Library} ELSE model \in Models \cup {Nothing}

Alone == ~mixed => \A a, b \in Admins : Assigning(a) /\ Assigning(b) => a = b

\* What the engine is between the assignments of a request that is alone.
Between(a) ==
  LET m == admin[a].m IN
  /\ admin[a].pc = "path" => kind = "mlx" /\ model = Library
  /\ admin[a].pc = "name" => IF kind = "mlx" THEN model = Library /\ path = m ELSE model = m
  /\ admin[a].pc = "forget" => IF ModelFirst(kind) THEN model = Nothing ELSE loaded = Nothing

Phases == ~mixed => \A a \in Admins : Between(a)

\* Contested are the models that are loaded and removed at the same time.
Contests ==
  \A m \in Models \ contested : \A a, b \in Admins : ~(Loading(a, m) /\ Removing(b, m))

\* A model that is gone, or about to: nobody will look at the engine again.
Going(m) ==
  disk[m] = "missing" \/ \E b \in Admins : admin[b].pc = "remove" /\ admin[b].m = m

Unused ==
  \A m \in Models \ contested : Going(m) =>
    /\ \A a \in Admins : ~Loading(a, m)
    /\ Settled => loaded # m /\ model # m

EngineInv ==
  /\ TypeOK
  /\ ModelFits
  /\ Alone
  /\ Phases
  /\ LoadedMeansModel
  /\ CurrentIsLoaded
  /\ Contests
  /\ Unused

LEMMA EngineInit == Init => EngineInv
BY HostAssumption, TypeInit DEF Init, EngineInv, ModelFits, Alone, Phases, Between,
   LoadedMeansModel, IsModelLoaded, CurrentIsLoaded, Settled, Contests, Unused, Assigning,
   Loading, Removing

\* Where a request goes, the others stay.
LEMMA Moves ==
  ASSUME TypeOK, NEW a \in Admins, NEW m \in Models,
         NEW pc \in {"construct", "path", "name", "unload", "forget", "remove"},
         To(a, pc, m)
  PROVE  /\ admin'[a].pc = pc /\ admin'[a].m = m
         /\ \A b \in Admins \ {a} : admin'[b] = admin[b]
BY DEF TypeOK, To

LEMMA Rests ==
  ASSUME TypeOK, NEW a \in Admins, Done(a)
  PROVE  /\ admin'[a].pc = "idle"
         /\ \A b \in Admins \ {a} : admin'[b] = admin[b]
BY DEF TypeOK, Done

LEMMA DiskStep ==
  ASSUME EngineInv, TypeOK', NEW m \in Models, Download(m) \/ DownloadEnds(m)
  PROVE  EngineInv'
<1>1. \A n \in Models : disk'[n] = "missing" => disk[n] = "missing"
  BY DEF EngineInv, TypeOK, Download, DownloadEnds
<1>2. UNCHANGED <<kind, model, path, loaded, admin, mixed, contested>>
  BY DEF Download, DownloadEnds
<1>3. \A a \in Admins : Assigning(a)' = Assigning(a)
  BY <1>2 DEF Assigning
<1>4. Settled' = Settled
  BY <1>2, <1>3 DEF Settled
<1>5. Unused'
  BY <1>1, <1>2, <1>4 DEF EngineInv, Unused, Going, Loading
<1> QED
  BY <1>2, <1>3, <1>4, <1>5 DEF EngineInv, ModelFits, Alone, Phases, Between,
     LoadedMeansModel, IsModelLoaded, CurrentIsLoaded, Contests, Loading, Removing

\* A request begins: the engine is as it was.
LEMMA BeginStep ==
  ASSUME EngineInv, TypeOK', NEW a \in Admins, NEW m \in Models,
         LoadModel(a, m) \/ RemoveModel(a, m)
  PROVE  EngineInv'
<1>1. UNCHANGED <<kind, model, path, loaded, disk, mixed>> /\ admin[a] = Idle
  BY DEF LoadModel, RemoveModel
<1>2. PICK pc \in {"construct", "unload", "remove"} :
        /\ To(a, pc, m)
        /\ pc = "construct" => LoadModel(a, m)
        /\ pc # "construct" => RemoveModel(a, m)
        /\ pc = "remove" => loaded # m
  BY DEF LoadModel, RemoveModel, Unloads
<1>3. admin'[a].pc = pc /\ admin'[a].m = m /\ \A b \in Admins \ {a} : admin'[b] = admin[b]
  BY <1>2, Moves DEF EngineInv
<1>4. \A b \in Admins : Assigning(b)' = Assigning(b)
  BY <1>1, <1>2, <1>3 DEF Assigning
<1>5. Settled' = Settled
  BY <1>1, <1>4 DEF Settled
<1>6. ModelFits' /\ Alone' /\ LoadedMeansModel' /\ CurrentIsLoaded'
  BY <1>1, <1>4, <1>5 DEF EngineInv, ModelFits, Alone, LoadedMeansModel, IsModelLoaded,
     CurrentIsLoaded
<1>7. Phases'
  BY <1>1, <1>2, <1>3 DEF EngineInv, Phases, Between
<1>8. \A n \in Models, b \in Admins :
        /\ n # m \/ b # a => Loading(b, n)' = Loading(b, n) /\ Removing(b, n)' = Removing(b, n)
        /\ ~Loading(a, n) /\ ~Removing(a, n)
  BY <1>1, <1>2, <1>3 DEF Loading, Removing
<1>9. CASE pc = "construct"
  <2>1. LoadModel(a, m)
    BY <1>2, <1>9
  <2>2. /\ contested \subseteq contested' /\ contested' \subseteq contested \cup {m}
        /\ m \in contested' \/ \A b \in Admins : ~Removing(b, m)
    BY <2>1 DEF LoadModel
  <2>3. \A b \in Admins : ~Removing(b, m)' \/ Removing(b, m)
    BY <1>3, <1>8, <1>9 DEF Removing
  <2>4. Contests'
    BY <1>8, <2>2, <2>3 DEF EngineInv, Contests
  <2>5. disk[m] # "missing"
    BY <2>1 DEF LoadModel, Loadable
  <2>6. \A n \in Models : Going(n)' => Going(n)
    BY <1>1, <1>3, <1>9 DEF Going
  <2>7. Going(m) => m \in contested'
    BY <2>2, <2>5 DEF Going, Removing
  <2>8. Unused'
    BY <1>1, <1>5, <1>8, <2>2, <2>6, <2>7 DEF EngineInv, Unused
  <2> QED
    BY <1>6, <1>7, <2>4, <2>8 DEF EngineInv
<1>10. CASE pc # "construct"
  <2>1. RemoveModel(a, m)
    BY <1>2, <1>10
  <2>2. /\ contested \ {m} \subseteq contested' /\ contested' \subseteq contested \cup {m}
        /\ m \in contested' \/ \A b \in Admins : ~Loading(b, m)
    BY <2>1 DEF RemoveModel
  <2>3. \A b \in Admins : ~Loading(b, m)' \/ Loading(b, m)
    BY <1>2, <1>3, <1>8, <1>10 DEF Loading
  <2>4. Contests'
    BY <1>8, <2>2, <2>3 DEF EngineInv, Contests
  <2>5. \A n \in Models \ {m} : Going(n)' => Going(n)
    BY <1>1, <1>3 DEF Going
  <2>6. ASSUME m \notin contested', Going(m)', Settled'
        PROVE  loaded # m /\ model # m
    <3>1. CASE pc = "remove"
      <4>1. loaded # m /\ loaded = Current
        BY <1>2, <1>5, <2>6, <3>1 DEF EngineInv, CurrentIsLoaded, Current
      <4> QED
        BY <4>1, HostAssumption DEF EngineInv, ModelFits, Current
    <3>2. CASE pc # "remove"
      <4>1. Going(m)
        BY <1>1, <1>3, <2>6, <3>2 DEF Going
      <4>2. m \notin contested
        BY <2>1, <2>6, <4>1 DEF RemoveModel, Going, Removing
      <4> QED
        BY <1>5, <2>6, <4>1, <4>2 DEF EngineInv, Unused
    <3> QED
      BY <3>1, <3>2
  <2>7. Unused'
    BY <1>1, <1>5, <1>8, <2>2, <2>3, <2>5, <2>6 DEF EngineInv, Unused
  <2> QED
    BY <1>6, <1>7, <2>4, <2>7 DEF EngineInv
<1> QED
  BY <1>9, <1>10

\* A request goes on with the model it is about, or ends: it loads and removes
\* no other, so that contests only end.
LEMMA OnlyOn ==
  ASSUME EngineInv, NEW a \in Admins,
         NEW pc \in {"path", "name", "forget", "remove", "idle"},
         \/ pc \in {"path", "name"} /\ admin[a].pc \in {"construct", "path"}
         \/ pc \in {"forget", "remove"} /\ admin[a].pc \in {"unload", "forget"}
         \/ pc = "idle",
         admin[a].pc # "idle",
         IF pc = "idle" THEN Done(a) ELSE To(a, pc, admin[a].m),
         contested' = contested
  PROVE  /\ admin'[a].pc = pc /\ (pc # "idle" => admin'[a].m = admin[a].m)
         /\ \A b \in Admins \ {a} : admin'[b] = admin[b]
         /\ \A b \in Admins, n \in Models : Loading(b, n)' => Loading(b, n)
         /\ Contests'
<1>1. /\ admin'[a].pc = pc /\ (pc # "idle" => admin'[a].m = admin[a].m)
      /\ \A b \in Admins \ {a} : admin'[b] = admin[b]
  BY AdminTyped, Moves, Rests DEF EngineInv
<1>2. \A b \in Admins, n \in Models : /\ Loading(b, n)' => Loading(b, n)
                                      /\ Removing(b, n)' => Removing(b, n)
  BY <1>1 DEF Loading, Removing
<1>3. Contests'
  BY <1>2 DEF EngineInv, Contests
<1> QED
  BY <1>1, <1>2, <1>3

\* Its first assignment.
LEMMA FirstStep ==
  ASSUME EngineInv, TypeOK', NEW a \in Admins, Construct(a) \/ UnloadFirst(a)
  PROVE  EngineInv'
<1> DEFINE m == admin[a].m
<1>1. m \in Models /\ UNCHANGED <<kind, disk, contested>>
  BY AdminTyped DEF EngineInv, Construct, UnloadFirst
<1>2. PICK pc \in {"path", "name", "forget"} :
        /\ To(a, pc, m)
        /\ pc = "path" => Construct(a) /\ kind = "mlx"
        /\ pc = "name" => Construct(a) /\ kind # "mlx"
        /\ pc = "forget" => UnloadFirst(a)
  BY DEF Construct, UnloadFirst
<1>3. /\ admin'[a].pc = pc /\ admin'[a].m = m /\ \A b \in Admins \ {a} : admin'[b] = admin[b]
      /\ \A b \in Admins, n \in Models : Loading(b, n)' => Loading(b, n)
      /\ Contests'
  BY <1>1, <1>2, OnlyOn DEF Construct, UnloadFirst
<1> HIDE DEF m
<1>4. Assigning(a)' /\ (~mixed' => \A b \in Admins \ {a} : ~Assigning(b)')
  BY <1>2, <1>3 DEF Assigning, Assigns, Construct, UnloadFirst
<1>5. Alone' /\ ~Settled'
  BY <1>4 DEF Alone, Settled
<1>6. /\ pc = "path" => model' = Library
      /\ pc = "name" => model' = m
      /\ pc = "forget" => IF ModelFirst(kind) THEN model' = Nothing /\ loaded' = loaded
                          ELSE loaded' = Nothing /\ model' = model
  BY <1>2 DEF Construct, UnloadFirst, ClearModel, ClearLoaded, m
<1>7. ModelFits' /\ LoadedMeansModel'
  BY <1>1, <1>2, <1>6, HostAssumption DEF EngineInv, ModelFits, ModelFirst, LoadedMeansModel,
     IsModelLoaded
<1>8. Between(a)'
  BY <1>1, <1>2, <1>3, <1>6 DEF Between
<1>9. Phases'
  BY <1>4, <1>8 DEF Phases, Between, Assigning
<1>10. \A n \in Models : Going(n)' => Going(n)
  BY <1>1, <1>3, <1>2 DEF Going
<1>11. Unused'
  BY <1>1, <1>3, <1>5, <1>10 DEF EngineInv, Unused
<1> QED
  BY <1>3, <1>5, <1>7, <1>9, <1>11 DEF EngineInv, CurrentIsLoaded

\* Its later ones.
LEMMA NextStep ==
  ASSUME EngineInv, TypeOK', NEW a \in Admins, SetPath(a) \/ SetLoaded(a) \/ UnloadSecond(a)
  PROVE  EngineInv'
<1> DEFINE m == admin[a].m
<1>1. m \in Models /\ UNCHANGED <<kind, disk, mixed, contested>> /\ Assigning(a)
  BY AdminTyped DEF EngineInv, SetPath, SetLoaded, UnloadSecond, Assigning
<1>2. PICK pc \in {"name", "idle", "remove"} :
        /\ IF pc = "idle" THEN Done(a) ELSE To(a, pc, m)
        /\ pc = "name" => SetPath(a)
        /\ pc = "idle" => SetLoaded(a)
        /\ pc = "remove" => UnloadSecond(a)
  BY DEF SetPath, SetLoaded, UnloadSecond
<1>3. /\ admin'[a].pc = pc /\ (pc # "idle" => admin'[a].m = m)
      /\ \A b \in Admins \ {a} : admin'[b] = admin[b]
      /\ \A b \in Admins, n \in Models : Loading(b, n)' => Loading(b, n)
      /\ Contests'
  BY <1>1, <1>2, OnlyOn DEF SetPath, SetLoaded, UnloadSecond
<1>4. \A b \in Admins \ {a} : Assigning(b)' = Assigning(b)
  BY <1>3 DEF Assigning
<1>5. Alone' /\ (~mixed' => \A b \in Admins \ {a} : ~Assigning(b)')
  BY <1>1, <1>4 DEF EngineInv, Alone
<1>6. ~mixed => Between(a)
  BY DEF EngineInv, Phases
<1>7. /\ pc = "name" => path' = m /\ model' = model /\ loaded' = loaded
      /\ pc = "idle" => path' = path /\ model' = model /\ loaded' = m
      /\ pc = "remove" => IF ModelFirst(kind) THEN model' = model /\ loaded' = Nothing
                          ELSE model' = Nothing /\ loaded' = loaded
  BY <1>2 DEF SetPath, SetLoaded, UnloadSecond, ClearModel, ClearLoaded, m
<1>8. ~mixed /\ pc = "idle" => IF kind = "mlx" THEN model' = Library /\ path' = m
                               ELSE model' = m
  BY <1>2, <1>6, <1>7 DEF Between, SetLoaded, m
<1>9. ~mixed /\ pc = "remove" => model' = Nothing /\ loaded' = Nothing
  BY <1>2, <1>6, <1>7 DEF Between, UnloadSecond
<1>10. ~mixed /\ pc = "name" => kind = "mlx" /\ model' = Library
  BY <1>2, <1>6, <1>7 DEF Between, SetPath
<1>11. (pc = "idle" => Loading(a, m)) /\ (~mixed /\ pc = "name" => Assigning(a)')
  BY <1>2, <1>3 DEF SetLoaded, Loading, Assigning, m
<1> HIDE DEF m
<1>12. ModelFits'
  BY <1>1, <1>7 DEF EngineInv, ModelFits
<1>13. LoadedMeansModel'
  BY <1>1, <1>2, <1>8, <1>9, <1>10, HostAssumption DEF LoadedMeansModel, IsModelLoaded
<1>14. CurrentIsLoaded'
  BY <1>1, <1>2, <1>7, <1>8, <1>9, <1>11, HostAssumption DEF CurrentIsLoaded, Settled
<1>15. Phases'
  <2>1. ~mixed' => Between(a)'
    BY <1>1, <1>2, <1>3, <1>7, <1>10 DEF Between
  <2> QED
    BY <1>5, <2>1 DEF Phases, Between, Assigning
<1>16. Unused'
  <2> SUFFICES ASSUME NEW n \in Models \ contested, Going(n)'
               PROVE  /\ \A b \in Admins : ~Loading(b, n)'
                      /\ Settled' => loaded' # n /\ model' # n
    BY <1>1 DEF Unused
  <2>1. CASE pc = "remove"
    <3>1. Settled' => loaded' # n /\ model' # n
      BY <1>1, <1>9, <2>1, HostAssumption DEF Settled
    <3>2. CASE Going(n)
      BY <1>3, <3>1, <3>2 DEF EngineInv, Unused
    <3>3. CASE ~Going(n)
      <4>1. n = m
        BY <1>1, <1>3, <3>3 DEF Going
      <4>2. Removing(a, n)
        BY <1>2, <2>1, <4>1 DEF UnloadSecond, Removing, m
      <4> QED
        BY <1>3, <3>1, <4>2 DEF EngineInv, Contests
    <3> QED
      BY <3>2, <3>3
  <2>2. CASE pc # "remove"
    <3>1. Going(n)
      BY <1>1, <1>2, <1>3, <2>2 DEF Going
    <3>2. \A b \in Admins : ~Loading(b, n)
      BY <3>1 DEF EngineInv, Unused
    <3>3. pc = "name" /\ Settled' => FALSE
      BY <1>1, <1>11 DEF Settled
    <3>4. pc = "idle" => n # m
      BY <1>11, <3>2
    <3> QED
      BY <1>1, <1>2, <1>3, <1>7, <1>8, <2>2, <3>2, <3>3, <3>4, HostAssumption DEF Settled
  <2> QED
    BY <2>1, <2>2
<1> QED
  BY <1>3, <1>5, <1>12, <1>13, <1>14, <1>15, <1>16 DEF EngineInv

\* It ends without one: the load failed, or the files go.
LEMMA EndStep ==
  ASSUME EngineInv, TypeOK', NEW a \in Admins, ConstructFails(a) \/ RemoveFiles(a)
  PROVE  EngineInv'
<1> DEFINE m == admin[a].m
<1>1. m \in Models /\ UNCHANGED <<kind, model, path, loaded, mixed, contested>> /\ ~Assigning(a)
  BY AdminTyped DEF EngineInv, ConstructFails, RemoveFiles, Assigning
<1>2. /\ admin'[a].pc = "idle"
      /\ \A b \in Admins \ {a} : admin'[b] = admin[b]
      /\ \A b \in Admins, n \in Models : Loading(b, n)' => Loading(b, n)
      /\ Contests'
  BY <1>1, OnlyOn DEF ConstructFails, RemoveFiles
<1>3. \A b \in Admins : Assigning(b)' = Assigning(b)
  BY <1>1, <1>2 DEF Assigning
<1>4. Settled' = Settled
  BY <1>1, <1>3 DEF Settled
<1>5. \A n \in Models : Going(n)' => Going(n)
  <2>1. CASE ConstructFails(a)
    BY <1>2, <2>1 DEF ConstructFails, Going
  <2>2. CASE RemoveFiles(a)
    <3>1. Going(m)
      BY <2>2 DEF RemoveFiles, Going
    <3>2. \A n \in Models \ {m} : disk'[n] = disk[n]
      BY <2>2 DEF EngineInv, TypeOK, RemoveFiles
    <3> HIDE DEF m
    <3> QED
      BY <1>2, <3>1, <3>2 DEF Going
  <2> QED
    BY <2>1, <2>2
<1>6. Unused'
  BY <1>1, <1>2, <1>4, <1>5 DEF EngineInv, Unused
<1>7. Phases'
  BY <1>1, <1>2 DEF EngineInv, Phases, Between
<1> QED
  BY <1>1, <1>2, <1>3, <1>4, <1>6, <1>7 DEF EngineInv, ModelFits, Alone, LoadedMeansModel,
     IsModelLoaded, CurrentIsLoaded

LEMMA EngineStep ==
  ASSUME EngineInv, TypeOK', [Next]_vars
  PROVE  EngineInv'
<1>1. CASE UNCHANGED <<kind, engine, disk, admin, historyVars>>
  BY <1>1 DEF EngineInv, ModelFits, Alone, Phases, Between, LoadedMeansModel, IsModelLoaded,
     CurrentIsLoaded, Settled, Contests, Unused, Going, Assigning, Loading, Removing
<1>2. CASE UNCHANGED vars \/ StartSession \/ Check \/ TranscribeOne \/ Recognize \/ NextBatch
  <2>1. CASE UNCHANGED vars
    BY <1>1, <2>1 DEF vars
  <2>2. CASE StartSession
    BY <1>1, <2>2 DEF StartSession
  <2>3. CASE Check
    BY <1>1, <2>3 DEF Check
  <2>4. CASE TranscribeOne
    <3>1. UNCHANGED <<kind, engine, disk, admin, historyVars>>
      BY <2>4, Zenon DEF TranscribeOne
    <3> QED
      BY <1>1, <3>1
  <2>5. CASE Recognize
    <3>1. UNCHANGED <<kind, engine, disk, admin, historyVars>>
      BY <2>5, Zenon DEF Recognize
    <3> QED
      BY <1>1, <3>1
  <2>6. CASE NextBatch
    BY <1>1, <2>6 DEF NextBatch
  <2> QED
    BY <1>2, <2>1, <2>2, <2>3, <2>4, <2>5, <2>6
<1> QED
  BY <1>2, DiskStep, BeginStep, FirstStep, NextStep, EndStep DEF Next, Admin

LEMMA EngineHolds == Spec => []EngineInv
<1>1. EngineInv /\ TypeOK' /\ [Next]_vars => EngineInv'
  BY EngineStep
<1> QED
  BY EngineInit, TypeCorrect, <1>1, PTL DEF Spec

\* Whoever else loads and removes models, once the assignments of a request were
\* not interleaved with another's and nobody is between two, the model that the
\* service names is the one in memory, also after loads that failed and while
\* batches run.  (load_model, unload_model, current_model.)
THEOREM NamedModelIsLoaded == Spec => []CurrentIsLoaded
<1>1. EngineInv => CurrentIsLoaded
  BY DEF EngineInv
<1> QED
  BY EngineHolds, <1>1, PTL

\* Whoever asks in the middle of a load or an unload and is told that a model is
\* loaded finds one, as long as no two requests assign in turns.
\* (is_model_loaded.)
THEOREM LoadedEnginesHaveModels == Spec => []LoadedMeansModel
<1>1. EngineInv => LoadedMeansModel
  BY DEF EngineInv
<1> QED
  BY EngineHolds, <1>1, PTL

\* No model is in use whose files are gone, whatever requests for other models
\* come between its unloading and its removal; a load of the model itself in
\* between is the exception.  (remove_model.)
THEOREM RemovedModelsAreUnloaded == Spec => []RemovedIsNotLoaded
<1>1. EngineInv => RemovedIsNotLoaded
  BY DEF EngineInv, RemovedIsNotLoaded, Unused, Going
<1> QED
  BY EngineHolds, <1>1, PTL

=============================================================================
