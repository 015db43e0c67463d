---------------------------- MODULE StorageProofs ----------------------------
(***************************************************************************)
(* The safety properties of what reaches storage. First by HTTP: the       *)
(* records that requests write, page through and match (StorageRecords),   *)
(* for any records, databases, page size, scores and number of requests.   *)
(* Then from the transcription service: SegmentFeed implements LossyFeed,  *)
(* accounts for every item and backs off as storage promises, for any      *)
(* number of items and streams, any capacities and any waits.              *)
(***************************************************************************)
EXTENDS StorageRecords, SegmentFeed, FiniteSetTheorems, SequenceTheorems,
        WellFoundedInduction, TLAPS

-----------------------------------------------------------------------------
(* Induction on numbers, for the folds.                                    *)

\* A set of numbers has a least one.
LEMMA Least ==
  ASSUME NEW T \in SUBSET Nat, T # {}
  PROVE \E x1 \in T : \A y \in T : x1 <= y
<1> DEFINE Less == OpToRel(<, Nat)
<1>1. IsWellFoundedOn(Less, Nat)
  BY NatLessThanWellFounded, Zenon
<1>2. PICK x \in T : \A y \in T : ~(<<y, x>> \in Less)
  <2> HIDE DEF Less
  <2> QED BY <1>1, WFMin, Zenon
<1>3. \A y \in Nat : y < x =>  <<y, x>> \in Less
  <2>1. ASSUME NEW y \in Nat, y < x PROVE <<y, x>> \in {p \in Nat \X Nat : p[1] < p[2]}
    BY <2>1
  <2>2. Less = {p \in Nat \X Nat : p[1] < p[2]}
    BY Zenon DEF OpToRel
  <2> QED BY <2>1, <2>2, Zenon
<1>4. \A y \in T : ~ (y < x)
  <2> HIDE DEF Less
  <2> QED BY <1>2, <1>3, Zenon
<1> HIDE DEF Less
<1> QED BY <1>4

\* Induction, as a fact about a set that 0 belongs to and that each number
\* leads on from.
LEMMA Induction ==
  ASSUME NEW S, 0 \in S, \A n \in Nat : n \in S => n+1 \in S
  PROVE Nat \subseteq S
<1>1. SUFFICES ASSUME Nat \ S # {} PROVE FALSE
  OBVIOUS
<1>2. PICK x \in Nat \ S : \A y \in Nat \ S : x <= y
  BY <1>1, Least
<1>3. x # 0 /\ x - 1 \in Nat /\ x - 1 \in S
  BY <1>2
<1> QED BY <1>2, <1>3

-----------------------------------------------------------------------------
(* Matching.                                                               *)

Candidate == [id : Profiles, body : Values]
Hit == [id : Profiles \cup {Null}, score : Nat]
NoHit == [id |-> Null, score |-> Threshold]

\* One round of the loop of best_match.
Nearer(q, best, c) ==
  IF Beats(Score[q][c.body], best.score)
  THEN [id |-> c.id, score |-> Score[q][c.body]] ELSE best

IsMatching(q, scan, k, g) ==
  g = [S \in SUBSET (1..k) |->
         IF S = {} THEN NoHit ELSE Nearer(q, g[S \ {Max(S)}], scan[Max(S)])]
Matching(q, scan) == CHOOSE g : IsMatching(q, scan, Len(scan), g)

\* best_match computes the recursive function of the library's FoldLeft.
LEMMA MatchingIs ==
  ASSUME NEW q, NEW scan \in Seq(Candidate)
  PROVE  BestMatch(q, scan) = Matching(q, scan)[1..Len(scan)].id
<1>1. DOMAIN scan = 1..Len(scan)
  OBVIOUS
<1>2. BestMatch(q, scan) =
        (CHOOSE g : g = [S \in SUBSET (DOMAIN scan) |->
           IF S = {} THEN NoHit
           ELSE Nearer(q, g[S \ {Max(S)}], scan[Max(S)])])[DOMAIN scan].id
  BY Zenon DEF BestMatch, FoldLeft, MapThenFoldSet, NoHit, Nearer
<1> QED
  BY <1>1, <1>2, Zenon DEF Matching, IsMatching

\* The fold takes the last profile off first.
LEMMA LastIs ==
  ASSUME NEW k \in Nat, NEW S \in SUBSET (1..(k + 1)), k + 1 \in S
  PROVE  Max(S) = k + 1
<1>1. \A y \in S : k + 1 >= y
  OBVIOUS
<1>2. Max(S) \in S /\ \A y \in S : Max(S) >= y
  BY <1>1, Zenon DEF Max
<1>3. Max(S) \in 1..(k + 1)
  BY <1>2, Zenon
<1>4. Max(S) >= k + 1
  BY <1>2, Zenon
<1> QED
  BY <1>3, <1>4

\* The equation that defines the fold has a solution, so CHOOSE yields one.
LEMMA MatchingExists ==
  ASSUME NEW q, NEW scan, NEW k \in Nat
  PROVE  \E g : IsMatching(q, scan, k, g)
<1> DEFINE P == {n \in Nat : \E g : IsMatching(q, scan, n, g)}
<1>1. 0 \in P
  <2> DEFINE g == [S \in SUBSET (1..0) |-> NoHit]
  <2>1. \A S \in SUBSET (1..0) : S = {}
    OBVIOUS
  <2>2. IsMatching(q, scan, 0, g)
    BY <2>1, Zenon DEF IsMatching
  <2> QED BY <2>2
<1>2. ASSUME NEW n \in Nat, n \in P
      PROVE  n + 1 \in P
  <2>1. PICK g : IsMatching(q, scan, n, g)
    BY <1>2
  <2> DEFINE h == [S \in SUBSET (1..(n + 1)) |->
                     IF n + 1 \in S THEN Nearer(q, g[S \ {n + 1}], scan[n + 1]) ELSE g[S]]
  <2> DEFINE step(S) == IF S = {} THEN NoHit
                        ELSE Nearer(q, h[S \ {Max(S)}], scan[Max(S)])
  <2>2. ASSUME NEW S \in SUBSET (1..(n + 1)), n + 1 \in S
        PROVE  h[S] = step(S)
    <3>1. Max(S) = n + 1 /\ S # {}
      BY <2>2, LastIs
    <3>2. S \ {n + 1} \in SUBSET (1..(n + 1)) /\ n + 1 \notin S \ {n + 1}
      OBVIOUS
    <3> QED BY <2>2, <3>1, <3>2, Zenon
  <2>3. ASSUME NEW S \in SUBSET (1..(n + 1)), n + 1 \notin S
        PROVE  h[S] = step(S)
    <3>1. S \in SUBSET (1..n)
      BY <2>3
    <3>2. g[S] = IF S = {} THEN NoHit
                 ELSE Nearer(q, g[S \ {Max(S)}], scan[Max(S)])
      BY <2>1, <3>1, Zenon DEF IsMatching
    <3>3. h[S] = g[S]
      BY <2>3, Zenon
    <3>4. h[S \ {Max(S)}] = g[S \ {Max(S)}]
      <4>1. S \ {Max(S)} \in SUBSET (1..(n + 1)) /\ n + 1 \notin S \ {Max(S)}
        BY <2>3, Zenon
      <4> QED BY <4>1, Zenon
    <3> HIDE DEF h
    <3> QED BY <3>2, <3>3, <3>4, Zenon
  <2>4. IsMatching(q, scan, n + 1, h)
    <3>1. h = [S \in SUBSET (1..(n + 1)) |-> step(S)]
      <4>1. \A S \in SUBSET (1..(n + 1)) : h[S] = step(S)
        BY <2>2, <2>3, Zenon
      <4> QED BY <4>1, Zenon
    <3> HIDE DEF h
    <3> QED BY <3>1, Zenon DEF IsMatching
  <2> QED BY <2>4
<1> HIDE DEF P
<1>3. k \in P
  BY <1>1, <1>2, Induction
<1> QED BY <1>3 DEF P

\* Position l of the scan is similar enough to the voice q.
Like(q, scan, l) == Beats(Score[q][scan[l].body], Threshold)

\* Among the positions 1..k of the scan, b is what the loop has found.
NearestOf(q, scan, k, b) ==
  /\ b \in Hit /\ b.score >= Threshold
  /\ IF b.id = Null THEN b.score = Threshold /\ \A l \in 1..k : ~Like(q, scan, l)
     ELSE \E l \in 1..k :
            /\ Like(q, scan, l) /\ b.id = scan[l].id /\ b.score = Score[q][scan[l].body]
            /\ \A m \in 1..k : Like(q, scan, m) =>
                 /\ Score[q][scan[m].body] <= b.score
                 /\ m > l => Score[q][scan[m].body] < b.score

\* One more profile keeps the nearest so far the nearest.
LEMMA OneCandidate ==
  ASSUME NEW q \in Queries, NEW scan \in Seq(Candidate),
         NEW k \in Nat, k < Len(scan), NEW b, NearestOf(q, scan, k, b)
  PROVE  NearestOf(q, scan, k + 1, Nearer(q, b, scan[k + 1]))
<1> DEFINE o(l) == Score[q][scan[l].body]
           next == Nearer(q, b, scan[k + 1])
<1>0. Threshold \in Nat /\ Null \notin Profiles
  BY RecordsAssumption DEF Records, Kinds
<1>1. \A l \in 1..(k + 1) : scan[l].id \in Profiles /\ o(l) \in Nat \cup {Null}
  <2>1. \A l \in 1..(k + 1) : scan[l] \in Candidate
    OBVIOUS
  <2> QED BY <2>1, RecordsAssumption DEF Candidate
<1>2. b.score \in Nat /\ b \in Hit /\ b.score >= Threshold
  BY DEF NearestOf, Hit
<1>3. \A l : Like(q, scan, l) <=> (o(l) # Null /\ o(l) >= Threshold)
  BY DEF Like, Beats
<1>4. IF b.id = Null THEN b.score = Threshold /\ \A l \in 1..k : ~Like(q, scan, l)
      ELSE \E l \in 1..k :
             /\ Like(q, scan, l) /\ b.id = scan[l].id /\ b.score = o(l)
             /\ \A m \in 1..k : Like(q, scan, m) =>
                  o(m) <= b.score /\ (m > l => o(m) < b.score)
  BY DEF NearestOf
<1>5. next = IF o(k + 1) # Null /\ o(k + 1) >= b.score
             THEN [id |-> scan[k + 1].id, score |-> o(k + 1)] ELSE b
  BY DEF Nearer, Beats
<1> SUFFICES /\ next \in Hit /\ next.score >= Threshold
             /\ IF next.id = Null
                THEN next.score = Threshold /\ \A l \in 1..(k + 1) : ~Like(q, scan, l)
                ELSE \E l \in 1..(k + 1) :
                       /\ Like(q, scan, l) /\ next.id = scan[l].id /\ next.score = o(l)
                       /\ \A m \in 1..(k + 1) : Like(q, scan, m) =>
                            o(m) <= next.score /\ (m > l => o(m) < next.score)
  BY DEF NearestOf
<1> HIDE DEF o, next
<1>6. CASE o(k + 1) # Null /\ o(k + 1) >= b.score
  <2>1. /\ next.id = scan[k + 1].id /\ next.score = o(k + 1) /\ o(k + 1) \in Nat
        /\ next.id \in Profiles
    BY <1>1, <1>5, <1>6
  <2>2. next \in Hit /\ next.score >= Threshold /\ next.id # Null /\ Like(q, scan, k + 1)
    BY <1>0, <1>1, <1>2, <1>3, <1>5, <1>6, <2>1 DEF Hit
  <2>3. \A m \in 1..(k + 1) : Like(q, scan, m) => o(m) <= next.score
    BY <1>0, <1>1, <1>2, <1>3, <1>4, <1>6, <2>1
  <2>4. \A m \in 1..(k + 1) : ~(m > k + 1)
    OBVIOUS
  <2> QED BY <2>1, <2>2, <2>3, <2>4
<1>7. CASE ~(o(k + 1) # Null /\ o(k + 1) >= b.score)
  <2>1. next = b
    BY <1>5, <1>7
  <2>2. Like(q, scan, k + 1) => o(k + 1) \in Nat /\ o(k + 1) < b.score
    BY <1>0, <1>1, <1>2, <1>3, <1>7
  <2>3. CASE b.id = Null
    <3>1. b.score = Threshold /\ \A l \in 1..k : ~Like(q, scan, l)
      BY <1>4, <2>3
    <3>2. ~Like(q, scan, k + 1)
      BY <1>0, <1>3, <2>2, <3>1
    <3> QED BY <1>2, <2>1, <2>3, <3>1, <3>2
  <2>4. CASE b.id # Null
    <3>1. PICK l \in 1..k :
             /\ Like(q, scan, l) /\ b.id = scan[l].id /\ b.score = o(l)
             /\ \A m \in 1..k : Like(q, scan, m) =>
                  o(m) <= b.score /\ (m > l => o(m) < b.score)
      BY <1>4, <2>4
    <3>2. \A m \in 1..(k + 1) : Like(q, scan, m) =>
            o(m) <= b.score /\ (m > l => o(m) < b.score)
      <4> SUFFICES ASSUME NEW m \in 1..(k + 1), Like(q, scan, m)
                   PROVE  o(m) <= b.score /\ (m > l => o(m) < b.score)
        OBVIOUS
      <4>1. CASE m \in 1..k
        BY <3>1, <4>1
      <4>2. CASE m = k + 1
        BY <1>2, <2>2, <4>2
      <4> QED BY <4>1, <4>2
    <3> QED BY <1>2, <2>1, <2>4, <3>1, <3>2
  <2> QED BY <2>3, <2>4
<1> QED BY <1>6, <1>7

\* What the fold ends with is the nearest of the whole scan.
LEMMA MatchingIsNearest ==
  ASSUME NEW q \in Queries, NEW scan \in Seq(Candidate)
  PROVE  NearestOf(q, scan, Len(scan), Matching(q, scan)[1..Len(scan)])
<1> DEFINE n == Len(scan)
           g == Matching(q, scan)
           P == {k \in Nat : k <= n => NearestOf(q, scan, k, g[1..k])}
<1>0. n \in Nat
  OBVIOUS
<1>1. IsMatching(q, scan, n, g)
  BY <1>0, MatchingExists, Zenon DEF Matching
<1>2. \A S \in SUBSET (1..n) :
        g[S] = IF S = {} THEN NoHit
               ELSE Nearer(q, g[S \ {Max(S)}], scan[Max(S)])
  BY <1>1, Zenon DEF IsMatching
<1> HIDE DEF n, g
<1>3. 0 \in P
  <2>1. 1..0 = {} /\ 1..0 \in SUBSET (1..n)
    OBVIOUS
  <2>2. g[1..0] = NoHit
    BY <1>2, <2>1, Zenon
  <2> QED BY <2>1, <2>2, RecordsAssumption DEF NearestOf, NoHit, Hit
<1>4. ASSUME NEW k \in Nat, k \in P
      PROVE  k + 1 \in P
  <2> SUFFICES ASSUME k + 1 <= n PROVE NearestOf(q, scan, k + 1, g[1..(k + 1)])
    OBVIOUS
  <2>1. 1..(k + 1) \in SUBSET (1..n) /\ 1..(k + 1) # {} /\ k + 1 \in 1..(k + 1)
    <3>1. \A i \in 1..(k + 1) : i \in 1..n
      BY <1>0
    <3>2. k + 1 \in 1..(k + 1)
      OBVIOUS
    <3> QED BY <3>1, <3>2, Zenon
  <2>2. Max(1..(k + 1)) = k + 1
    BY <2>1, LastIs
  <2>3. (1..(k + 1)) \ {k + 1} = 1..k
    OBVIOUS
  <2>4. g[1..(k + 1)] = Nearer(q, g[1..k], scan[k + 1])
    BY <1>2, <2>1, <2>2, <2>3, Zenon
  <2>5. NearestOf(q, scan, k, g[1..k]) /\ k < Len(scan)
    BY <1>0, <1>4 DEF n
  <2>6. NearestOf(q, scan, k + 1, Nearer(q, g[1..k], scan[k + 1]))
    BY <2>5, OneCandidate
  <2> QED BY <2>4, <2>6
<1> HIDE DEF P
<1>5. n \in P
  BY <1>0, <1>3, <1>4, Induction
<1> QED BY <1>0, <1>5 DEF P, n, g

\* best_match returns the last of the most similar profiles of a scan, or None.
LEMMA BestMatchIsBest ==
  ASSUME NEW q \in Queries, NEW scan \in Seq(Candidate)
  PROVE  LET best == {k \in DOMAIN scan : IsBest(q, scan, k)} IN
         IF BestMatch(q, scan) = Null THEN best = {}
         ELSE \E k \in best : BestMatch(q, scan) = scan[k].id /\ best = {k}
<1> DEFINE b == Matching(q, scan)[1..Len(scan)]
           o(l) == Score[q][scan[l].body]
           best == {k \in DOMAIN scan : IsBest(q, scan, k)}
<1>1. BestMatch(q, scan) = b.id /\ NearestOf(q, scan, Len(scan), b)
  BY MatchingIs, MatchingIsNearest
<1>2. DOMAIN scan = 1..Len(scan) /\ Len(scan) \in Nat
  OBVIOUS
<1>3. \A l : Like(q, scan, l) <=> (o(l) # Null /\ o(l) >= Threshold)
  BY DEF Like, Beats
<1>4. Similar(q, scan) = {k \in DOMAIN scan : Like(q, scan, k)}
  BY <1>3 DEF Similar
<1>5. \A k : k \in best <=>
        /\ k \in DOMAIN scan /\ Like(q, scan, k)
        /\ \A l \in DOMAIN scan : Like(q, scan, l) =>
             o(l) + (IF l > k THEN 1 ELSE 0) <= o(k)
  BY <1>4 DEF IsBest
<1>6. \A l \in DOMAIN scan : Like(q, scan, l) => o(l) \in Nat
  <2>1. \A l \in DOMAIN scan : scan[l] \in Candidate
    OBVIOUS
  <2> QED BY <1>3, <2>1, RecordsAssumption DEF Candidate
<1>7. IF b.id = Null THEN \A l \in 1..Len(scan) : ~Like(q, scan, l)
      ELSE \E l \in 1..Len(scan) :
             /\ Like(q, scan, l) /\ b.id = scan[l].id /\ b.score = o(l)
             /\ \A m \in 1..Len(scan) : Like(q, scan, m) =>
                  o(m) <= b.score /\ (m > l => o(m) < b.score)
  BY <1>1 DEF NearestOf
<1> HIDE DEF b, o, best
<1>8. CASE b.id = Null
  BY <1>1, <1>2, <1>5, <1>7, <1>8 DEF best
<1>9. CASE b.id # Null
  <2>1. PICK l \in DOMAIN scan :
             /\ Like(q, scan, l) /\ b.id = scan[l].id /\ b.score = o(l)
             /\ \A m \in DOMAIN scan : Like(q, scan, m) =>
                  o(m) <= o(l) /\ (m > l => o(m) < o(l))
    BY <1>2, <1>7, <1>9
  <2>2. l \in best
    BY <1>2, <1>5, <1>6, <2>1
  <2>3. ASSUME NEW k \in best, k # l PROVE FALSE
    <3>1. k \in DOMAIN scan /\ Like(q, scan, k) /\ o(l) + (IF l > k THEN 1 ELSE 0) <= o(k)
      BY <1>5, <2>1
    <3> QED BY <1>2, <1>6, <2>1, <2>3, <3>1
  <2>4. best = {l}
    BY <2>2, <2>3
  <2> QED BY <1>1, <1>9, <2>1, <2>2, <2>4 DEF best
<1> QED BY <1>8, <1>9

-----------------------------------------------------------------------------
(* Listings.                                                               *)

\* What a listing with one record more is, position by position.
LEMMA Inserted ==
  ASSUME NEW S, NEW s \in Seq(S), NEW e \in S, NEW p \in 1..(Len(s) + 1)
  PROVE  LET t == InsertAt(s, p, e) IN
         /\ t \in Seq(S) /\ Len(t) = Len(s) + 1
         /\ \A k \in 1..(Len(s) + 1) :
              t[k] = IF k < p THEN s[k] ELSE IF k = p THEN e ELSE s[k - 1]
<1> DEFINE front == SubSeq(s, 1, p - 1)
           back == SubSeq(s, p, Len(s))
           t == InsertAt(s, p, e)
<1>0. Len(s) \in Nat /\ p \in Int
  OBVIOUS
<1>1. /\ front \in Seq(S) /\ Len(front) = p - 1
      /\ \A i \in 1..(p - 1) : front[i] = s[i]
  <2>1. \A i \in 1..(p - 1) : s[i] \in S
    BY <1>0
  <2> QED BY <1>0, <2>1, SubSeqProperties
<1>2. /\ back \in Seq(S) /\ Len(back) = Len(s) + 1 - p
      /\ \A i \in 1..(Len(s) + 1 - p) : back[i] = s[p + i - 1]
  <2>1. \A i \in p..Len(s) : s[i] \in S
    BY <1>0
  <2> QED BY <1>0, <2>1, SubSeqProperties
<1>3. <<e>> \in Seq(S) /\ Len(<<e>>) = 1 /\ <<e>>[1] = e
  OBVIOUS
<1> DEFINE middle == <<e>>
<1> HIDE DEF front, back, middle
<1>4. t = (front \o middle) \o back
  BY Zenon DEF InsertAt, front, back, middle
<1>5. /\ front \o middle \in Seq(S) /\ Len(front \o middle) = p
      /\ \A i \in 1..p : (front \o middle)[i] = IF i <= p - 1 THEN front[i] ELSE e
  <2>1. middle \in Seq(S) /\ Len(middle) = 1 /\ middle[1] = e
    BY <1>3 DEF middle
  <2>2. /\ front \o middle \in Seq(S) /\ Len(front \o middle) = Len(front) + Len(middle)
        /\ \A i \in 1..(Len(front) + Len(middle)) : (front \o middle)[i] =
             IF i <= Len(front) THEN front[i] ELSE middle[i - Len(front)]
    BY <1>1, <2>1, ConcatProperties, Zenon
  <2> QED BY <1>0, <1>1, <2>1, <2>2
<1> DEFINE u == front \o middle
<1> HIDE DEF u, t
<1>6. /\ t \in Seq(S) /\ Len(t) = Len(u) + Len(back)
      /\ \A i \in 1..(Len(u) + Len(back)) : t[i] =
           IF i <= Len(u) THEN u[i] ELSE back[i - Len(u)]
  <2>1. t = u \o back
    BY <1>4, Zenon DEF u
  <2>2. u \in Seq(S)
    BY <1>5, Zenon DEF u
  <2> QED BY <1>2, <2>1, <2>2, ConcatProperties, Zenon
<1>7. Len(t) = Len(s) + 1
  BY <1>0, <1>2, <1>5, <1>6 DEF u
<1>8. ASSUME NEW k \in 1..(Len(s) + 1)
      PROVE  t[k] = IF k < p THEN s[k] ELSE IF k = p THEN e ELSE s[k - 1]
  <2>1. t[k] = IF k <= p THEN u[k] ELSE back[k - p]
    BY <1>0, <1>2, <1>5, <1>6 DEF u
  <2>2. CASE k < p
    BY <1>0, <1>1, <1>5, <2>1, <2>2 DEF u
  <2>3. CASE k = p
    BY <1>0, <1>1, <1>5, <2>1, <2>3 DEF u
  <2>4. CASE k > p
    <3>1. k - p \in 1..(Len(s) + 1 - p) /\ p + (k - p) - 1 = k - 1
      BY <1>0, <2>4
    <3>2. back[k - p] = s[k - 1]
      BY <1>2, <3>1
    <3> QED BY <2>1, <2>4, <3>2
  <2> QED BY <1>0, <2>2, <2>3, <2>4
<1> QED BY <1>6, <1>7, <1>8 DEF t

\* A record that is new to a listing is in it once.
LEMMA InsertedOnce ==
  ASSUME NEW S, NEW s \in Seq(S), NEW e \in S, NEW p \in 1..(Len(s) + 1),
         e \notin ToSet(s), IsInjective(s)
  PROVE  /\ ToSet(InsertAt(s, p, e)) = ToSet(s) \cup {e}
         /\ IsInjective(InsertAt(s, p, e))
<1> DEFINE t == InsertAt(s, p, e)
<1>1. /\ t \in Seq(S) /\ Len(t) = Len(s) + 1
      /\ \A k \in 1..(Len(s) + 1) :
           t[k] = IF k < p THEN s[k] ELSE IF k = p THEN e ELSE s[k - 1]
  BY Inserted
<1> HIDE DEF t
<1>2. DOMAIN s = 1..Len(s) /\ DOMAIN t = 1..(Len(s) + 1) /\ Len(s) \in Nat
  BY <1>1
<1>3. \A k \in DOMAIN s : s[k] # e
  BY Zenon DEF ToSet
<1>4. \A i, k \in DOMAIN s : s[i] = s[k] => i = k
  BY Zenon DEF IsInjective
<1>5. \A k \in DOMAIN t : k # p =>
        IF k < p THEN k \in DOMAIN s /\ t[k] = s[k]
        ELSE k - 1 \in DOMAIN s /\ t[k] = s[k - 1]
  BY <1>1, <1>2
<1>6. t[p] = e /\ p \in DOMAIN t
  BY <1>1, <1>2
<1>7. ASSUME NEW i \in DOMAIN t, NEW k \in DOMAIN t, t[i] = t[k]
      PROVE  i = k
  BY <1>2, <1>3, <1>4, <1>5, <1>6, <1>7
<1>8. \A k \in DOMAIN s : \E i \in DOMAIN t : t[i] = s[k]
  <2> TAKE k \in DOMAIN s
  <2>1. CASE k < p
    BY <1>1, <1>2, <2>1
  <2>2. CASE ~(k < p)
    <3>1. k + 1 \in DOMAIN t /\ ~(k + 1 < p) /\ k + 1 # p /\ (k + 1) - 1 = k
      BY <1>2, <2>2
    <3> QED BY <1>5, <3>1
  <2> QED BY <2>1, <2>2
<1>9. ToSet(t) = ToSet(s) \cup {e}
  <2>1. \A x : x \in ToSet(t) => x \in ToSet(s) \cup {e}
    BY <1>5, <1>6 DEF ToSet
  <2>2. \A x : x \in ToSet(s) \cup {e} => x \in ToSet(t)
    BY <1>6, <1>8 DEF ToSet
  <2> QED BY <2>1, <2>2
<1>10. IsInjective(t)
  BY <1>7, Zenon DEF IsInjective
<1> QED BY <1>9, <1>10 DEF t

\* A listing without a record holds the others, each once.
LEMMA Removed ==
  ASSUME NEW S, NEW s \in Seq(S), NEW e, IsInjective(s)
  PROVE  /\ RemoveFirst(s, e) \in Seq(S)
         /\ ToSet(RemoveFirst(s, e)) = ToSet(s) \ {e}
         /\ IsInjective(RemoveFirst(s, e))
<1>0. DOMAIN s = 1..Len(s) /\ Len(s) \in Nat
  OBVIOUS
<1>1. CASE e \notin ToSet(s)
  <2>1. ~\E i \in 1..Len(s) : s[i] = e
    BY <1>0, <1>1, Zenon DEF ToSet
  <2>2. RemoveFirst(s, e) = s
    BY <2>1, Zenon DEF RemoveFirst
  <2> QED BY <1>1, <2>2
<1>2. CASE e \in ToSet(s)
  <2>1. PICK p \in 1..Len(s) : s[p] = e
    BY <1>0, <1>2, Zenon DEF ToSet
  <2>2. \A i, k \in 1..Len(s) : s[i] = s[k] => i = k
    BY <1>0, Zenon DEF IsInjective
  <2>3. SelectInSeq(s, LAMBDA v : v = e) = p
    <3> DEFINE I == {i \in 1..Len(s) : s[i] = e}
    <3>1. I = {p}
      BY <2>1, <2>2
    <3>2. Min({p}) = p
      <4>1. \A x : x \in {p} /\ (\A y \in {p} : x =< y) <=> x = p
        OBVIOUS
      <4> QED BY <4>1 DEF Min
    <3>3. SelectInSeq(s, LAMBDA v : v = e) = IF I # {} THEN Min(I) ELSE 0
      BY Zenon DEF SelectInSeq
    <3> HIDE DEF I
    <3> QED BY <3>1, <3>2, <3>3
  <2> DEFINE front == SubSeq(s, 1, p - 1)
             back == SubSeq(s, p + 1, Len(s))
             t == front \o back
  <2>4. RemoveFirst(s, e) = t
    <3>1. \E i \in 1..Len(s) : s[i] = e
      BY <2>1
    <3> QED BY <2>3, <3>1, Zenon DEF RemoveFirst, RemoveAt
  <2>5. /\ front \in Seq(S) /\ Len(front) = p - 1
        /\ \A i \in 1..(p - 1) : front[i] = s[i]
    <3>1. \A i \in 1..(p - 1) : s[i] \in S
      BY <1>0
    <3> QED BY <1>0, <3>1, SubSeqProperties
  <2>6. /\ back \in Seq(S) /\ Len(back) = Len(s) - p
        /\ \A i \in 1..(Len(s) - p) : back[i] = s[p + i]
    <3>1. \A i \in (p + 1)..Len(s) : s[i] \in S
      BY <1>0
    <3>2. p + 1 \in Int /\ Len(s) \in Int
      BY <1>0
    <3>3. /\ back \in Seq(S)
          /\ Len(back) = IF p + 1 <= Len(s) THEN Len(s) - (p + 1) + 1 ELSE 0
          /\ \A i \in 1..(Len(s) - (p + 1) + 1) : back[i] = s[p + 1 + i - 1]
      BY <3>1, <3>2, SubSeqProperties
    <3> HIDE DEF back
    <3>4. \A i \in 1..(Len(s) - p) : i \in 1..(Len(s) - (p + 1) + 1) /\ p + 1 + i - 1 = p + i
      BY <1>0
    <3>5. Len(back) = Len(s) - p
      <4>1. Len(back) = IF p + 1 <= Len(s) THEN Len(s) - (p + 1) + 1 ELSE 0
        BY <3>3, Zenon
      <4> DEFINE n == Len(back)
                 m == Len(s)
      <4>2. n = IF p + 1 <= m THEN m - (p + 1) + 1 ELSE 0
        BY <4>1
      <4>3. m \in Nat /\ p \in 1..m
        BY <1>0
      <4> HIDE DEF n, m
      <4>4. n = m - p
        BY <4>2, <4>3
      <4> QED BY <4>4 DEF n, m
    <3> QED BY <3>3, <3>4, <3>5
  <2> HIDE DEF front, back
  <2>7. /\ t \in Seq(S) /\ Len(t) = Len(front) + Len(back)
        /\ \A i \in 1..(Len(front) + Len(back)) :
             t[i] = IF i <= Len(front) THEN front[i] ELSE back[i - Len(front)]
    BY <2>5, <2>6, ConcatProperties, Zenon
  <2> HIDE DEF t
  <2>8. /\ t \in Seq(S) /\ DOMAIN t = 1..(Len(s) - 1)
        /\ \A i \in 1..(Len(s) - 1) : t[i] = IF i < p THEN s[i] ELSE s[i + 1]
    <3>1. Len(t) = Len(s) - 1 /\ DOMAIN t = 1..(Len(s) - 1)
      BY <1>0, <2>5, <2>6, <2>7
    <3>2. ASSUME NEW i \in 1..(Len(s) - 1)
          PROVE  t[i] = IF i < p THEN s[i] ELSE s[i + 1]
      <4>1. t[i] = IF i <= p - 1 THEN front[i] ELSE back[i - (p - 1)]
        BY <1>0, <2>5, <2>6, <2>7
      <4>2. CASE i < p
        BY <1>0, <2>5, <4>1, <4>2
      <4>3. CASE ~(i < p)
        <5>1. i - (p - 1) \in 1..(Len(s) - p) /\ p + (i - (p - 1)) = i + 1
          BY <1>0, <4>3
        <5>2. back[i - (p - 1)] = s[i + 1]
          BY <2>6, <5>1
        <5> QED BY <4>1, <4>3, <5>2
      <4> QED BY <4>2, <4>3
    <3> QED BY <2>7, <3>1, <3>2
  <2> DEFINE from(i) == IF i < p THEN i ELSE i + 1
  <2>9. \A i \in DOMAIN t : from(i) \in DOMAIN s /\ from(i) # p /\ t[i] = s[from(i)]
    BY <1>0, <2>8
  <2>10. IsInjective(t)
    <3>1. ASSUME NEW i \in DOMAIN t, NEW k \in DOMAIN t, t[i] = t[k] PROVE i = k
      <4>1. from(i) = from(k)
        BY <1>0, <2>2, <2>9, <3>1
      <4> QED BY <2>8, <4>1
    <3> QED BY <3>1, Zenon DEF IsInjective
  <2>11. \A x : x \in ToSet(t) => x \in ToSet(s) \ {e}
    <3> SUFFICES ASSUME NEW i \in DOMAIN t PROVE t[i] \in ToSet(s) \ {e}
      BY DEF ToSet
    <3> DEFINE f == from(i)
    <3>1. f \in 1..Len(s) /\ f # p /\ t[i] = s[f]
      BY <1>0, <2>9
    <3> HIDE DEF f
    <3>2. s[f] # e
      BY <2>1, <2>2, <3>1
    <3> QED BY <1>0, <3>1, <3>2 DEF ToSet
  <2>12. \A x : x \in ToSet(s) \ {e} => x \in ToSet(t)
    <3> SUFFICES ASSUME NEW k \in 1..Len(s), s[k] # e PROVE \E i \in DOMAIN t : t[i] = s[k]
      BY <1>0 DEF ToSet
    <3>1. CASE k < p
      BY <2>8, <3>1
    <3>2. CASE k > p
      <4>1. k - 1 \in DOMAIN t /\ ~(k - 1 < p) /\ (k - 1) + 1 = k
        BY <1>0, <2>8, <3>2
      <4> QED BY <2>8, <4>1
    <3> QED BY <2>1, <3>1, <3>2
  <2> QED BY <2>4, <2>8, <2>10, <2>11, <2>12
<1> QED BY <1>1, <1>2

LEMMA Listable ==
  ASSUME NEW S, NEW s \in Seq(S)
  PROVE  IsFiniteSet(ToSet(s))
<1> DEFINE f == [k \in 1..Len(s) |-> s[k]]
<1>1. Len(s) \in Nat /\ DOMAIN s = 1..Len(s)
  OBVIOUS
<1>2. ToSet(s) = {s[k] : k \in 1..Len(s)}
  BY <1>1, Zenon DEF ToSet
<1>3. f \in Surjection(1..Len(s), ToSet(s))
  BY <1>2 DEF Surjection
<1>4. IsFiniteSet(1..Len(s))
  BY <1>1, FS_Interval
<1> HIDE DEF f
<1> QED BY <1>3, <1>4, FS_Surjection, Zenon

-----------------------------------------------------------------------------
(* The invariant.                                                          *)

FieldsFit(q) ==
  q.pc = "flush" =>
    \A c \in DOMAIN q.fields : q.fields[c] = Null => q.id \in Templates /\ c = "body"

\* What a match has found is the best of its scan.
HitsFit(q) ==
  q.pc = "refetch" =>
    /\ DOMAIN q.hits \subseteq Queries
    /\ \A v \in DOMAIN q.hits : q.hits[v] = BestMatch(v, q.scan)

\* While nothing is deleted, a record of the first page is still there, and
\* was seen unless it is further from the end than the pages read.
PagesFit(q) ==
  /\ q.pc = "list" /\ ~q.deletes =>
       /\ q.atFirst \subseteq DOMAIN table \cap q.kind
       /\ \A k \in DOMAIN order[q.kind] :
            /\ Len(order[q.kind]) + 1 - k <= q.offset
            /\ order[q.kind][k] \in q.atFirst
            => order[q.kind][k] \in q.seen
  /\ q.pc = "listed" /\ ~q.deletes => q.atFirst \subseteq q.seen

Fits(q) == FieldsFit(q) /\ HitsFit(q) /\ PagesFit(q)

TableFits ==
  /\ DOMAIN table \subseteq Records /\ table \in [DOMAIN table -> Row]
  /\ \A i \in DOMAIN table : table[i] \in RowOf(i)

OrderFits ==
  /\ order \in [Kinds -> Seq(Records)]
  /\ \A kind \in Kinds : /\ IsInjective(order[kind])
                           /\ ToSet(order[kind]) = DOMAIN table \cap kind

RecordInv ==
  /\ TableFits /\ OrderFits
  /\ made \in SUBSET (Templates \cup Profiles)
  /\ req \in [Requests -> Request]
  /\ \A r \in Requests : Fits(req[r])

LEMMA RecordInvTypes == RecordInv => RecordsTypeOK
BY DEF RecordInv, TableFits, OrderFits, Fits, FieldsFit, RecordsTypeOK

\* A record is of one kind.
LEMMA OneKind ==
  ASSUME NEW k1 \in Kinds, NEW k2 \in Kinds, NEW i \in k1, i \in k2
  PROVE  k1 = k2
BY RecordsAssumption DEF Kinds

LEMMA KindsAre ==
  /\ Meetings \in Kinds /\ Templates \in Kinds /\ Profiles \in Kinds
  /\ \A i : i \in Records <=> \E kind \in Kinds : i \in kind
  /\ \A i : i \in Records <=> i \in Meetings \/ i \in Templates \/ i \in Profiles
BY DEF Kinds, Records

\* What the states of a request are made of.
LEMMA InsertIs ==
  ASSUME NEW q \in Request, q.pc = "insert"
  PROVE  q.id \in Records /\ q.row \in Row /\ q.row \in RowOf(q.id)
<1>1. \/ q \in [pc : {"insert"}, id : Meetings, row : MeetingRow]
      \/ q \in [pc : {"insert"}, id : Templates, row : TemplateRow]
      \/ q \in [pc : {"insert"}, id : Profiles, row : ProfileRow]
  BY DEF Request
<1>2. ProfileRow \subseteq Row
  BY DEF ProfileRow, Row
<1>3. \/ q.id \in Meetings /\ q.row \in MeetingRow
      \/ q.id \in Templates /\ q.row \in TemplateRow
      \/ q.id \in Profiles /\ q.row \in ProfileRow
  BY <1>1
<1> QED
  BY <1>2, <1>3, KindsAre, RecordsAssumption DEF RowOf, MeetingRow, TemplateRow

LEMMA FlushIs ==
  ASSUME NEW q \in Request, q.pc = "flush"
  PROVE  q.id \in Records /\ q.fields \in Sent /\ q.loaded \in Row
<1>1. q \in [pc : {"flush"}, id : Records, fields : Sent, loaded : Row]
  BY DEF Request
<1> QED BY <1>1

LEMMA ListIs ==
  ASSUME NEW q \in Request, q.pc \in {"list", "listed"}
  PROVE  q \in [pc : {"list", "listed"}, kind : Kinds, offset : Nat,
                seen : SUBSET Records, atFirst : SUBSET Records, deletes : BOOLEAN]
BY DEF Request

LEMMA RefetchIs ==
  ASSUME NEW q \in Request, q.pc = "refetch"
  PROVE  q \in [pc : {"refetch"}, bulk : BOOLEAN, hits : Hits, scan : Seq(Candidate)]
BY DEF Request, Candidate

LEMMA ARequest ==
  ASSUME NEW q,
         \/ q \in [pc : {"insert"}, id : Meetings, row : MeetingRow]
         \/ q \in [pc : {"insert"}, id : Templates, row : TemplateRow]
         \/ q \in [pc : {"insert"}, id : Profiles, row : ProfileRow]
         \/ q \in [pc : {"again"}, id : Profiles, name : Values]
         \/ q \in [pc : {"refresh", "delete"}, id : Records]
         \/ q \in [pc : {"done"}, code : {200, 204, 404, 409, 500}]
         \/ q \in [pc : {"done"}, code : {200}, hits : Hits]
  PROVE  q \in Request /\ Fits(q) /\ Fits(q)'
<1>1. q \in Request
  BY DEF Request
<1>2. q.pc \notin {"flush", "refetch", "list", "listed"}
  OBVIOUS
<1> QED BY <1>1, <1>2 DEF Fits, FieldsFit, HitsFit, PagesFit

\* A request moves, and no row does.
LEMMA OneMoves ==
  ASSUME RecordInv, NEW r \in Requests, NEW q \in Request, To(r, q), Fits(q),
         UNCHANGED <<table, order>>, made' \in SUBSET (Templates \cup Profiles)
  PROVE  RecordInv'
<1>1. req' = [req EXCEPT ![r] = q]
  BY DEF To
<1>2. req' \in [Requests -> Request]
  BY <1>1 DEF RecordInv
<1>3. ASSUME NEW x, Fits(x)
      PROVE  Fits(x)'
  BY <1>3 DEF Fits, FieldsFit, HitsFit, PagesFit
<1>4. ASSUME NEW x \in Requests
      PROVE  Fits(req[x])'
  <2>1. req'[x] = IF x = r THEN q ELSE req[x]
    BY <1>1 DEF RecordInv
  <2>2. Fits(req'[x])
    BY <2>1 DEF RecordInv
  <2> QED BY <2>2 DEF Fits, FieldsFit, HitsFit, PagesFit
<1>5. TableFits' /\ OrderFits'
  BY DEF RecordInv, TableFits, OrderFits
<1> QED BY <1>2, <1>4, <1>5 DEF RecordInv

\* A request that is answered at once writes nothing.
LEMMA AnsweredAtOnce ==
  ASSUME RecordInv, NEW r \in Requests, NEW code \in {200, 204, 404, 409, 500},
         Answer(r, code), KeepTable
  PROVE  RecordInv'
<1> DEFINE q == [pc |-> "done", code |-> code]
<1>1. q \in Request /\ Fits(q)
  BY ARequest
<1>2. To(r, q) /\ UNCHANGED <<table, order, made>>
  BY DEF Answer, KeepTable
<1> HIDE DEF q
<1> QED BY <1>1, <1>2, OneMoves DEF RecordInv

\* A row comes: a create that finds nothing in its way.
LEMMA RowInserted ==
  ASSUME RecordInv, NEW i \in Records, NEW row \in Row,
         row \in RowOf(i), i \notin DOMAIN table,
         table' = [k \in DOMAIN table \cup {i} |-> IF k = i THEN row ELSE table[k]],
         Lists(i)
  PROVE  /\ TableFits' /\ OrderFits'
         /\ \A q \in Request : Fits(q) => Fits(q)'
<1>1. TableFits'
  BY DEF RecordInv, TableFits, RowOf
<1>0. PICK kind \in Kinds :
        /\ i \in kind
        /\ \E p \in 1..(Len(order[kind]) + 1) :
             order' = [order EXCEPT ![kind] = InsertAt(@, p, i)]
  BY DEF Lists
<1>2. PICK p \in 1..(Len(order[kind]) + 1) :
        order' = [order EXCEPT ![kind] = InsertAt(@, p, i)]
  BY <1>0
<1> DEFINE ids == order[kind]
           now == InsertAt(ids, p, i)
<1>3. order \in [Kinds -> Seq(Records)] /\ ids \in Seq(Records)
      /\ IsInjective(ids) /\ ToSet(ids) = DOMAIN table \cap kind
  BY DEF RecordInv, OrderFits
<1>4. /\ now \in Seq(Records) /\ Len(now) = Len(ids) + 1
      /\ \A k \in 1..(Len(ids) + 1) :
           now[k] = IF k < p THEN ids[k] ELSE IF k = p THEN i ELSE ids[k - 1]
  BY <1>3, Inserted
<1>5. ToSet(now) = ToSet(ids) \cup {i} /\ IsInjective(now)
  <2>1. i \notin ToSet(ids)
    BY <1>3
  <2> QED BY <1>3, <2>1, InsertedOnce
<1>6. \A k \in Kinds : order'[k] = IF k = kind THEN now ELSE order[k]
  BY <1>2, <1>3
<1> HIDE DEF ids, now
<1>7. OrderFits'
  <2>1. order' \in [Kinds -> Seq(Records)]
    BY <1>2, <1>3, <1>4 DEF ids, now
  <2>2. ASSUME NEW k \in Kinds
        PROVE  IsInjective(order'[k]) /\ ToSet(order'[k]) = DOMAIN table' \cap k
    <3>1. CASE k = kind
      BY <1>0, <1>3, <1>5, <1>6, <3>1
    <3>2. CASE k # kind
      <4>1. i \notin k
        BY <1>0, <3>2, OneKind
      <4>2. IsInjective(order[k]) /\ ToSet(order[k]) = DOMAIN table \cap k
        BY DEF RecordInv, OrderFits
      <4> QED BY <1>6, <3>2, <4>1, <4>2
    <3> QED BY <3>1, <3>2
  <2> QED BY <2>1, <2>2 DEF OrderFits
<1>8. ASSUME NEW q \in Request, PagesFit(q), q.pc = "list", ~q.deletes
      PROVE  /\ q.atFirst \subseteq DOMAIN table' \cap q.kind
             /\ \A k \in DOMAIN order'[q.kind] :
                  /\ Len(order'[q.kind]) + 1 - k <= q.offset
                  /\ order'[q.kind][k] \in q.atFirst
                  => order'[q.kind][k] \in q.seen
  <2>1. q.kind \in Kinds /\ q.offset \in Nat
    <3>1. q \in [pc : {"list", "listed"}, kind : Kinds, offset : Nat,
                seen : SUBSET Records, atFirst : SUBSET Records, deletes : BOOLEAN]
      BY <1>8, ListIs
    <3> QED BY <3>1
  <2>2. q.atFirst \subseteq DOMAIN table \cap q.kind /\ i \notin q.atFirst
    BY <1>8 DEF PagesFit
  <2>3. \A k \in DOMAIN order[q.kind] :
          /\ Len(order[q.kind]) + 1 - k <= q.offset
          /\ order[q.kind][k] \in q.atFirst
          => order[q.kind][k] \in q.seen
    BY <1>8 DEF PagesFit
  <2>4. CASE q.kind # kind
    BY <1>6, <2>1, <2>2, <2>3, <2>4
  <2>5. CASE q.kind = kind
    <3>1. order'[q.kind] = now /\ DOMAIN now = 1..(Len(ids) + 1)
      BY <1>4, <1>6, <2>1, <2>5
    <3>2. Len(ids) \in Nat /\ DOMAIN ids = 1..Len(ids) /\ ids = order[q.kind] /\ p \in Nat
      BY <1>2, <1>3, <2>5 DEF ids
    <3> SUFFICES ASSUME NEW k \in 1..(Len(ids) + 1),
                        Len(now) + 1 - k <= q.offset, now[k] \in q.atFirst
                 PROVE  now[k] \in q.seen
      BY <2>2, <3>1
    <3>3. k # p
      BY <1>4, <2>2
    <3>4. CASE k < p
      <4>1. k \in DOMAIN ids /\ Len(ids) + 1 - k <= q.offset /\ now[k] = ids[k]
        BY <1>2, <1>4, <2>1, <3>2, <3>4 DEF ids
      <4> QED BY <2>3, <3>2, <4>1
    <3>5. CASE k > p
      <4>1. k - 1 \in DOMAIN ids /\ Len(ids) + 1 - (k - 1) <= q.offset /\ now[k] = ids[k - 1]
        BY <1>2, <1>4, <2>1, <3>2, <3>5 DEF ids
      <4> QED BY <2>3, <3>2, <4>1
    <3> QED BY <3>2, <3>3, <3>4, <3>5
  <2> QED BY <2>4, <2>5
<1>9. ASSUME NEW q \in Request, Fits(q)
      PROVE  Fits(q)'
  <2>1. PagesFit(q)'
    BY <1>8, <1>9 DEF Fits, PagesFit
  <2> QED BY <1>9, <2>1 DEF Fits, FieldsFit, HitsFit
<1> QED BY <1>1, <1>7, <1>9

\* A request moves while a row comes or changes.
LEMMA RequestGoes ==
  ASSUME RecordInv, NEW r \in Requests, NEW q \in Request, To(r, q), Fits(q),
         TableFits', OrderFits', \A x \in Request : Fits(x) => Fits(x)',
         made' \in SUBSET (Templates \cup Profiles)
  PROVE  RecordInv'
<1>1. req' = [req EXCEPT ![r] = q]
  BY DEF To
<1>2. req' \in [Requests -> Request]
  BY <1>1 DEF RecordInv
<1>3. ASSUME NEW x \in Requests
      PROVE  Fits(req[x])'
  <2>1. req'[x] = IF x = r THEN q ELSE req[x]
    BY <1>1 DEF RecordInv
  <2>2. Fits(req'[x]) /\ req'[x] \in Request
    BY <2>1 DEF RecordInv
  <2>3. ASSUME NEW y, y = req'[x], Fits(y)'
        PROVE  Fits(req[x])'
    BY <2>3 DEF Fits, FieldsFit, HitsFit, PagesFit
  <2> QED BY <2>2, <2>3
<1> QED BY <1>2, <1>3 DEF RecordInv

LEMMA InsertKeeps ==
  ASSUME RecordInv, NEW r \in Requests, Insert(r)
  PROVE  RecordInv'
<1> DEFINE i == req[r].id
           row == req[r].row
<1>1. req[r] \in Request /\ req[r].pc = "insert" /\ UNCHANGED made
  BY DEF RecordInv, Insert
<1>2. i \in Records /\ row \in Row /\ row \in RowOf(i)
  BY <1>1, InsertIs
<1>3. CASE Violates(i, row)
  <2>1. UNCHANGED <<table, order>>
    BY <1>3 DEF Insert
  <2>2. CASE i \in Profiles
    <3> DEFINE q == [pc |-> "again", name |-> row.name, id |-> i]
    <3>1. To(r, q)
      BY <1>3, <2>2 DEF Insert
    <3>2. row.name \in Values
      BY <1>2, <2>2 DEF RowOf, ProfileRow, Columns
    <3>3. q \in Request /\ Fits(q)
      BY <2>2, <3>2, ARequest
    <3> HIDE DEF q
    <3> QED BY <1>1, <2>1, <3>1, <3>3, OneMoves DEF RecordInv
  <2>3. CASE i \notin Profiles
    <3>1. Answer(r, 409)
      BY <1>3, <2>3 DEF Insert
    <3> QED BY <1>1, <2>1, <3>1, AnsweredAtOnce DEF KeepTable
  <2> QED BY <2>2, <2>3
<1>4. CASE ~Violates(i, row)
  <2> DEFINE q == [pc |-> "refresh", id |-> i]
  <2>1. /\ table' = [k \in DOMAIN table \cup {i} |-> IF k = i THEN row ELSE table[k]]
        /\ Lists(i) /\ To(r, q)
    BY <1>4 DEF Insert
  <2>2. i \notin DOMAIN table
    BY <1>4 DEF Violates, Present
  <2>3. q \in Request /\ Fits(q)
    BY <1>2, ARequest
  <2> HIDE DEF q, i, row
  <2>4. TableFits' /\ OrderFits' /\ \A x \in Request : Fits(x) => Fits(x)'
    BY <1>2, <2>1, <2>2, RowInserted
  <2> QED BY <1>1, <2>1, <2>3, <2>4, RequestGoes DEF RecordInv
<1> QED BY <1>3, <1>4

LEMMA RowChanged ==
  ASSUME RecordInv, NEW i \in DOMAIN table, NEW row \in Row, row \in RowOf(i),
         table' = [table EXCEPT ![i] = row], UNCHANGED order
  PROVE  /\ TableFits' /\ OrderFits'
         /\ \A q \in Request : Fits(q) => Fits(q)'
<1>1. DOMAIN table' = DOMAIN table
  BY DEF RecordInv, TableFits
<1>2. TableFits'
  BY <1>1 DEF RecordInv, TableFits, RowOf
<1>3. OrderFits'
  BY <1>1 DEF RecordInv, OrderFits
<1> QED BY <1>1, <1>2, <1>3 DEF Fits, FieldsFit, HitsFit, PagesFit

LEMMA FlushKeeps ==
  ASSUME RecordInv, NEW r \in Requests, Flush(r)
  PROVE  RecordInv'
<1> DEFINE i == req[r].id
           fields == req[r].fields
           cs == Changed(req[r].loaded, fields)
           value == [c \in Columns |-> IF c \in DOMAIN fields THEN fields[c]
                                         ELSE req[r].loaded[c]]
           row == [c \in Columns |-> IF c \in cs THEN value[c] ELSE table[i][c]]
           lost == ~Present(i) \/ (i \in Profiles /\ "name" \in cs /\ NameTaken(value.name, i))
<1>1. req[r] \in Request /\ req[r].pc = "flush" /\ UNCHANGED <<order, made>>
  BY DEF RecordInv, Flush
<1>2. i \in Records /\ fields \in Sent
  BY <1>1, FlushIs
<1>3. CASE lost
  <2>1. Answer(r, 500) /\ UNCHANGED table
    BY <1>3 DEF Flush
  <2> QED BY <1>1, <2>1, AnsweredAtOnce DEF KeepTable
<1>4. CASE ~lost
  <2> DEFINE q == [pc |-> "refresh", id |-> i]
  <2>1. i \in DOMAIN table
    BY <1>4 DEF Present
  <2>2. table' = [table EXCEPT ![i] = row] /\ To(r, q)
    BY <1>4 DEF Flush
  <2>3. \A c \in Columns : row[c] = IF c \in cs THEN fields[c] ELSE table[i][c]
    BY DEF Changed
  <2>4. cs \subseteq DOMAIN fields /\ \A c \in DOMAIN fields : fields[c] \in Values \cup {Null}
    BY <1>2 DEF Changed, Sent
  <2>5. table[i] \in Row /\ table[i] \in RowOf(i)
    BY <2>1 DEF RecordInv, TableFits
  <2>6. \A c \in DOMAIN fields : fields[c] = Null => i \in Templates /\ c = "body"
    BY <1>1 DEF RecordInv, Fits, FieldsFit
  <2>7. row \in Row
    <3> HIDE DEF cs, fields
    <3>1. \A c \in Columns : row[c] \in Values \cup {Null}
      BY <2>3, <2>4, <2>5 DEF Row
    <3> HIDE DEF row
    <3>2. row = [c \in Columns |-> row[c]]
      BY DEF row
    <3> QED BY <3>1, <3>2 DEF Row
  <2>8. row \in RowOf(i)
    <3> HIDE DEF cs, fields, row
    <3>1. CASE i \in Profiles
      <4>1. \A c \in Columns : row[c] \in Values
        <5>1. i \notin Templates /\ table[i] \in [Columns -> Values]
          BY <2>5, <3>1, RecordsAssumption DEF RowOf, ProfileRow
        <5> QED BY <2>3, <2>4, <2>6, <5>1
      <4>2. row = [c \in Columns |-> row[c]]
        BY DEF row
      <4> QED BY <3>1, <4>1, <4>2 DEF RowOf, ProfileRow
    <3>2. CASE i \notin Profiles /\ i \in Templates
      <4>1. table[i].name # Null
        BY <2>5, <3>2 DEF RowOf, TemplateRow
      <4>2. row.name # Null
        BY <2>3, <2>4, <2>6, <4>1 DEF Columns
      <4> QED BY <2>7, <3>2, <4>2 DEF RowOf, TemplateRow
    <3>3. CASE i \notin Profiles /\ i \notin Templates
      BY <2>7, <3>3 DEF RowOf
    <3> QED BY <3>1, <3>2, <3>3
  <2>9. q \in Request /\ Fits(q)
    BY <1>2, ARequest
  <2> HIDE DEF q, row, i
  <2>10. TableFits' /\ OrderFits' /\ \A x \in Request : Fits(x) => Fits(x)'
    BY <1>1, <2>1, <2>2, <2>7, <2>8, RowChanged
  <2> QED BY <1>1, <2>2, <2>9, <2>10, RequestGoes DEF RecordInv
<1> QED BY <1>3, <1>4

LEMMA DeleteKeeps ==
  ASSUME RecordInv, NEW r \in Requests, DeleteRow(r)
  PROVE  RecordInv'
<1> DEFINE i == req[r].id
<1>1. /\ table' = Restrict(table, DOMAIN table \ {i})
      /\ order' = [kind \in Kinds |-> RemoveFirst(order[kind], i)]
      /\ UNCHANGED made
  BY DEF DeleteRow
<1>2. req' = [x \in Requests |->
        CASE x = r                -> [pc |-> "done", code |-> 204]
          [] req[x].pc = "list"   -> [req[x] EXCEPT !.deletes = TRUE]
          [] OTHER                -> req[x]]
  BY DEF DeleteRow
<1> HIDE DEF i
<1>3. /\ DOMAIN table' = DOMAIN table \ {i}
      /\ \A k \in DOMAIN table' : table'[k] = table[k]
      /\ table' = [k \in DOMAIN table' |-> table'[k]]
  BY <1>1 DEF Restrict
<1>4. TableFits'
  <2>1. \A k \in DOMAIN table' : k \in DOMAIN table /\ table'[k] \in Row
                                 /\ table'[k] \in RowOf(k)
    BY <1>3 DEF RecordInv, TableFits
  <2>2. table' \in [DOMAIN table' -> Row]
    <3>1. table' = [k \in DOMAIN table \ {i} |-> table[k]]
      BY <1>1 DEF Restrict
    <3>2. \A k \in DOMAIN table \ {i} : table[k] \in Row
      BY <1>3, <2>1
    <3> QED BY <1>3, <3>1, <3>2
  <2>3. \A k \in DOMAIN table' : (RowOf(k))' = RowOf(k)
    BY DEF RowOf
  <2> QED BY <1>3, <2>1, <2>2, <2>3 DEF RecordInv, TableFits
<1>5. OrderFits'
  <2>1. ASSUME NEW kind \in Kinds
        PROVE  /\ RemoveFirst(order[kind], i) \in Seq(Records)
               /\ ToSet(RemoveFirst(order[kind], i)) = (DOMAIN table \cap kind) \ {i}
               /\ IsInjective(RemoveFirst(order[kind], i))
    <3>1. /\ order[kind] \in Seq(Records) /\ IsInjective(order[kind])
          /\ ToSet(order[kind]) = DOMAIN table \cap kind
      BY DEF RecordInv, OrderFits
    <3> QED BY <3>1, Removed
  <2>2. \A kind \in Kinds : order'[kind] = RemoveFirst(order[kind], i)
    BY <1>1
  <2>3. order' \in [Kinds -> Seq(Records)]
    BY <1>1, <2>1
  <2> QED BY <1>3, <2>1, <2>2, <2>3 DEF OrderFits
<1>6. ASSUME NEW x \in Requests
      PROVE  req'[x] \in Request /\ Fits(req[x])'
  <2>0. req[x] \in Request /\ Fits(req[x])
    BY DEF RecordInv
  <2>1. CASE x = r
    <3> DEFINE q == [pc |-> "done", code |-> 204]
    <3>1. q \in Request /\ q.pc \notin {"flush", "refetch", "list", "listed"}
      BY ARequest
    <3>2. req'[x] = q
      <4>1. req[r].pc = "delete"
        BY DEF DeleteRow
      <4> QED BY <1>2, <2>1, <4>1
    <3> QED BY <3>1, <3>2 DEF Fits, FieldsFit, HitsFit, PagesFit
  <2>2. CASE x # r /\ req[x].pc = "list"
    <3>1. req'[x] = [req[x] EXCEPT !.deletes = TRUE]
      BY <1>2, <2>2
    <3>2. req[x] \in [pc : {"list", "listed"}, kind : Kinds, offset : Nat,
              seen : SUBSET Records, atFirst : SUBSET Records, deletes : BOOLEAN]
      BY <2>0, <2>2, ListIs
    <3>3. /\ req'[x] \in [pc : {"list", "listed"}, kind : Kinds, offset : Nat,
              seen : SUBSET Records, atFirst : SUBSET Records, deletes : BOOLEAN]
          /\ req'[x].pc = "list" /\ req'[x].deletes
      BY <2>2, <3>1, <3>2
    <3> QED BY <3>3 DEF Request, Fits, FieldsFit, HitsFit, PagesFit
  <2>3. CASE x # r /\ req[x].pc # "list"
    <3>1. req'[x] = req[x]
      BY <1>2, <2>3
    <3> QED BY <2>0, <2>3, <3>1 DEF Fits, FieldsFit, HitsFit, PagesFit
  <2> QED BY <2>1, <2>2, <2>3
<1>7. req' \in [Requests -> Request]
  <2>1. req' = [x \in Requests |-> req'[x]]
    BY <1>2
  <2> QED BY <1>6, <2>1
<1> QED BY <1>1, <1>4, <1>5, <1>6, <1>7 DEF RecordInv

LEMMA InsertsKeeps ==
  ASSUME RecordInv, NEW r \in Requests, NEW i, NEW row,
         Inserts(r, i, row), UNCHANGED <<table, order>>,
         made' \in SUBSET (Templates \cup Profiles),
         \/ i \in Meetings /\ row \in MeetingRow
         \/ i \in Templates /\ row \in TemplateRow
         \/ i \in Profiles /\ row \in ProfileRow
  PROVE  RecordInv'
<1> DEFINE q == [pc |-> "insert", id |-> i, row |-> row]
<1>1. q \in Request /\ Fits(q)
  BY ARequest
<1>2. To(r, q)
  BY DEF Inserts
<1> HIDE DEF q
<1> QED BY <1>1, <1>2, OneMoves

LEMMA CreateKeeps ==
  ASSUME RecordInv, NEW r \in Requests, NEW i, NEW row,
         \/ row \in MeetingRow /\ CreateMeeting(r, i, row)
         \/ row \in TemplateRow /\ CreateTemplate(r, i, row)
         \/ row \in ProfileRow /\ CreateSpeakerProfile(r, i, row)
  PROVE  RecordInv'
<1>0. made \in SUBSET (Templates \cup Profiles)
  BY DEF RecordInv
<1>1. CASE row \in MeetingRow /\ CreateMeeting(r, i, row)
  <2>1. i \in Meetings /\ UNCHANGED <<table, order, made>> /\ KeepTable
    BY <1>1 DEF CreateMeeting, KeepTable
  <2>2. Answer(r, 409) \/ Inserts(r, i, row)
    BY <1>1 DEF CreateMeeting
  <2> QED BY <1>0, <1>1, <2>1, <2>2, AnsweredAtOnce, InsertsKeeps
<1>2. CASE row \in TemplateRow /\ CreateTemplate(r, i, row)
  <2>1. i \in Templates /\ Inserts(r, i, row) /\ made' = made \cup {i}
        /\ UNCHANGED <<table, order>>
    BY <1>2 DEF CreateTemplate
  <2>2. made' \in SUBSET (Templates \cup Profiles)
    BY <1>0, <2>1
  <2> QED BY <1>2, <2>1, <2>2, InsertsKeeps
<1>3. CASE row \in ProfileRow /\ CreateSpeakerProfile(r, i, row)
  <2>1. i \in Profiles /\ made' = made \cup {i} /\ UNCHANGED <<table, order>>
    BY <1>3 DEF CreateSpeakerProfile
  <2>2. made' \in SUBSET (Templates \cup Profiles)
    BY <1>0, <2>1
  <2>3. CASE Inserts(r, i, row)
    BY <1>3, <2>1, <2>2, <2>3, InsertsKeeps
  <2>4. CASE Answer(r, 409)
    <3> DEFINE q == [pc |-> "done", code |-> 409]
    <3>1. q \in Request /\ Fits(q)
      BY ARequest
    <3>2. To(r, q)
      BY <2>4 DEF Answer
    <3> HIDE DEF q
    <3> QED BY <2>1, <2>2, <3>1, <3>2, OneMoves
  <2> QED BY <1>3, <2>3, <2>4 DEF CreateSpeakerProfile
<1> QED BY <1>1, <1>2, <1>3

LEMMA UpdatesKeeps ==
  ASSUME RecordInv, NEW r \in Requests, NEW i \in DOMAIN table, NEW sent \in Sent,
         NEW clearable, clearable = {} \/ (clearable = {"body"} /\ i \in Templates),
         Updates(r, i, Fields(sent, clearable)), KeepTable
  PROVE  RecordInv'
<1> DEFINE fields == Fields(sent, clearable)
           q == [pc |-> "flush", id |-> i, fields |-> fields, loaded |-> table[i]]
           kept == {c \in DOMAIN sent : sent[c] # Null \/ c \in clearable}
<1>1. fields = [c \in kept |-> sent[c]]
  BY DEF Fields, Restrict
<1>2. PICK cs \in SUBSET Columns : sent \in [cs -> Values \cup {Null}]
  BY DEF Sent
<1>3. fields \in Sent
  <2>1. kept \in SUBSET Columns /\ fields \in [kept -> Values \cup {Null}]
    BY <1>1, <1>2
  <2> HIDE DEF kept, fields
  <2> QED BY <2>1 DEF Sent
<1>4. \A c \in DOMAIN fields : fields[c] = Null => i \in Templates /\ c = "body"
  BY <1>1
<1> HIDE DEF fields
<1>5. i \in Records /\ table[i] \in Row
  BY DEF RecordInv, TableFits
<1>6. q \in Request
  <2>1. q \in [pc : {"flush"}, id : Records, fields : Sent, loaded : Row]
    BY <1>3, <1>5
  <2> HIDE DEF q
  <2> QED BY <2>1 DEF Request
<1>7. Fits(q)
  BY <1>4 DEF Fits, FieldsFit, HitsFit, PagesFit
<1>8. To(r, q)
  BY DEF Updates, fields
<1> HIDE DEF q
<1> QED BY <1>6, <1>7, <1>8, OneMoves DEF RecordInv, KeepTable

LEMMA PatchKeeps ==
  ASSUME RecordInv, NEW r \in Requests, NEW i, NEW sent \in Sent,
         PatchMeeting(r, i, sent) \/ PatchTemplate(r, i, sent)
         \/ PatchSpeakerProfile(r, i, sent)
  PROVE  RecordInv'
<1>1. CASE PatchMeeting(r, i, sent)
  <2>1. KeepTable
    BY <1>1 DEF PatchMeeting
  <2>2. CASE Present(i)
    BY <1>1, <2>1, <2>2, UpdatesKeeps DEF PatchMeeting, Present
  <2>3. CASE ~Present(i)
    BY <1>1, <2>1, <2>3, AnsweredAtOnce DEF PatchMeeting
  <2> QED BY <2>2, <2>3
<1>2. CASE PatchTemplate(r, i, sent)
  <2>1. KeepTable /\ i \in Templates
    BY <1>2 DEF PatchTemplate
  <2>2. \/ Answer(r, 404) \/ Answer(r, 200)
        \/ i \in DOMAIN table /\ Updates(r, i, Fields(sent, {"body"}))
    BY <1>2 DEF PatchTemplate, Present
  <2> QED BY <2>1, <2>2, AnsweredAtOnce, UpdatesKeeps
<1>3. CASE PatchSpeakerProfile(r, i, sent)
  <2>1. KeepTable
    BY <1>3 DEF PatchSpeakerProfile
  <2>2. \/ Answer(r, 404) \/ Answer(r, 200)
        \/ i \in DOMAIN table /\ Updates(r, i, Fields(sent, {}))
    BY <1>3 DEF PatchSpeakerProfile, Present
  <2> QED BY <2>1, <2>2, AnsweredAtOnce, UpdatesKeeps
<1> QED BY <1>1, <1>2, <1>3

LEMMA GetOrDeleteKeeps ==
  ASSUME RecordInv, NEW r \in Requests, NEW i \in Records, Get(r, i) \/ Delete(r, i)
  PROVE  RecordInv'
<1>1. CASE Get(r, i)
  BY <1>1, AnsweredAtOnce DEF Get
<1>2. CASE Delete(r, i)
  <2> DEFINE q == [pc |-> "delete", id |-> i]
  <2>1. KeepTable /\ (Answer(r, 404) \/ To(r, q))
    BY <1>2 DEF Delete
  <2>2. q \in Request /\ Fits(q)
    BY ARequest
  <2> HIDE DEF q
  <2> QED BY <2>1, <2>2, AnsweredAtOnce, OneMoves DEF RecordInv, KeepTable
<1> QED BY <1>1, <1>2

LEMMA ListFirstKeeps ==
  ASSUME RecordInv, NEW r \in Requests, NEW kind \in Kinds, ListFirst(r, kind)
  PROVE  RecordInv'
<1> DEFINE q == [pc |-> "list", kind |-> kind, offset |-> 0, seen |-> {},
                 atFirst |-> DOMAIN table \cap kind, deletes |-> FALSE]
<1>1. To(r, q) /\ KeepTable
  BY DEF ListFirst
<1>2. DOMAIN table \subseteq Records
  BY DEF RecordInv, TableFits
<1>3. q \in Request
  <2>1. q \in [pc : {"list", "listed"}, kind : Kinds, offset : Nat,
               seen : SUBSET Records, atFirst : SUBSET Records, deletes : BOOLEAN]
    BY <1>2
  <2> HIDE DEF q
  <2> QED BY <2>1 DEF Request
<1>4. Fits(q)
  <2>1. order[kind] \in Seq(Records)
    BY DEF RecordInv, OrderFits
  <2>2. \A k \in DOMAIN order[kind] : ~(Len(order[kind]) + 1 - k <= 0)
    BY <2>1
  <2> QED BY <2>2 DEF Fits, FieldsFit, HitsFit, PagesFit
<1> HIDE DEF q
<1> QED BY <1>1, <1>3, <1>4, OneMoves DEF RecordInv, KeepTable

LEMMA ListNextKeeps ==
  ASSUME RecordInv, NEW r \in Requests, ListNext(r)
  PROVE  RecordInv'
<1> DEFINE q == req[r]
           ids == order[q.kind]
           n == Len(ids)
           page == Page(q.kind, q.offset)
<1>1. /\ q \in [pc : {"list", "listed"}, kind : Kinds, offset : Nat,
                seen : SUBSET Records, atFirst : SUBSET Records, deletes : BOOLEAN]
      /\ q.pc = "list"
  <2>1. q \in Request /\ q.pc = "list"
    BY DEF RecordInv, ListNext
  <2> QED BY <2>1, ListIs
<1>2. ids \in Seq(Records) /\ ToSet(ids) = DOMAIN table \cap q.kind
  BY <1>1 DEF RecordInv, OrderFits
<1>3. n \in Nat /\ DOMAIN ids = 1..n /\ \A k \in 1..n : ids[k] \in Records
  BY <1>2
<1>4. PageSize \in Nat \ {0} /\ q.offset \in Nat
  BY <1>1, RecordsAssumption
<1>5. page = {ids[n + 1 - m] : m \in (q.offset + 1)..(q.offset + PageSize) \cap 1..n}
  BY <1>3, Zenon DEF Page
<1>6. PagesFit(q) /\ KeepTable
  BY DEF RecordInv, Fits, ListNext
<1>7. To(r, IF page = {} THEN [q EXCEPT !.pc = "listed"]
              ELSE [q EXCEPT !.offset = @ + PageSize, !.seen = @ \cup page])
  BY DEF ListNext
<1>8. /\ ~q.deletes => q.atFirst \subseteq DOMAIN table \cap q.kind
      /\ ~q.deletes => \A k \in 1..n :
           n + 1 - k <= q.offset /\ ids[k] \in q.atFirst => ids[k] \in q.seen
  BY <1>1, <1>3, <1>6 DEF PagesFit
<1>9. CASE page = {}
  <2> DEFINE t == [q EXCEPT !.pc = "listed"]
  <2>1. t \in Request
    <3>1. t \in [pc : {"list", "listed"}, kind : Kinds, offset : Nat,
                 seen : SUBSET Records, atFirst : SUBSET Records, deletes : BOOLEAN]
      BY <1>1
    <3> HIDE DEF t
    <3> QED BY <3>1 DEF Request
  <2>2. t.pc = "listed" /\ t.atFirst = q.atFirst /\ t.seen = q.seen /\ t.deletes = q.deletes
    BY <1>1
  <2>3. n <= q.offset
    <3> SUFFICES ASSUME n > q.offset PROVE FALSE
      BY <1>3, <1>4
    <3>1. q.offset + 1 \in (q.offset + 1)..(q.offset + PageSize) \cap 1..n
      BY <1>3, <1>4
    <3> HIDE DEF page, q, ids, n
    <3>2. ids[n + 1 - (q.offset + 1)] \in page
      BY <1>5, <3>1, Zenon
    <3> QED BY <1>9, <3>2
  <2>4. ASSUME ~q.deletes
        PROVE  q.atFirst \subseteq q.seen
    <3> SUFFICES ASSUME NEW i \in q.atFirst PROVE i \in q.seen
      OBVIOUS
    <3>1. PICK k \in 1..n : ids[k] = i
      <4>1. i \in ToSet(ids)
        BY <1>2, <1>8, <2>4
      <4> HIDE DEF ids, n
      <4> QED BY <1>3, <4>1, Zenon DEF ToSet
    <3>2. n + 1 - k <= q.offset
      BY <1>3, <1>4, <2>3
    <3> QED BY <1>8, <2>4, <3>1, <3>2
  <2> HIDE DEF t
  <2>5. Fits(t)
    BY <2>2, <2>4 DEF Fits, FieldsFit, HitsFit, PagesFit
  <2>6. To(r, t)
    BY <1>7, <1>9 DEF t
  <2> QED BY <1>6, <2>1, <2>5, <2>6, OneMoves DEF RecordInv, KeepTable
<1>10. CASE page # {}
  <2> DEFINE t == [q EXCEPT !.offset = @ + PageSize, !.seen = @ \cup page]
  <2>1. page \in SUBSET Records
    <3>1. \A m \in 1..n : n + 1 - m \in 1..n
      BY <1>3
    <3> HIDE DEF page, ids, n, q
    <3> QED BY <1>3, <1>5, <3>1
  <2>2. t \in Request
    <3>1. t \in [pc : {"list", "listed"}, kind : Kinds, offset : Nat,
                 seen : SUBSET Records, atFirst : SUBSET Records, deletes : BOOLEAN]
      <4>1. q.offset + PageSize \in Nat /\ q.seen \cup page \in SUBSET Records
        BY <1>1, <1>4, <2>1
      <4> DEFINE o == q.offset + PageSize
                 u == q.seen \cup page
      <4>2. t = [q EXCEPT !.offset = o, !.seen = u]
        OBVIOUS
      <4>3. o \in Nat /\ u \in SUBSET Records
        BY <4>1
      <4> HIDE DEF page, o, u, q, t
      <4> QED BY <1>1, <4>2, <4>3
    <3> HIDE DEF t
    <3> QED BY <3>1 DEF Request
  <2>3. /\ t.pc = "list" /\ t.kind = q.kind /\ t.atFirst = q.atFirst /\ t.deletes = q.deletes
        /\ t.offset = q.offset + PageSize /\ t.seen = q.seen \cup page
    BY <1>1
  <2>4. ASSUME ~q.deletes, NEW k \in 1..n, n + 1 - k <= q.offset + PageSize, ids[k] \in q.atFirst
        PROVE  ids[k] \in q.seen \cup page
    <3>1. CASE n + 1 - k <= q.offset
      BY <1>8, <2>4, <3>1
    <3>2. CASE n + 1 - k > q.offset
      <4>1. /\ n + 1 - k \in (q.offset + 1)..(q.offset + PageSize) \cap 1..n
            /\ n + 1 - (n + 1 - k) = k
        BY <1>3, <1>4, <2>4, <3>2
      <4> HIDE DEF page, q, n, ids
      <4>2. ids[n + 1 - (n + 1 - k)] \in page
        BY <1>5, <4>1
      <4> QED BY <4>1, <4>2
    <3> QED BY <1>3, <1>4, <3>1, <3>2
  <2> HIDE DEF t
  <2>5. Fits(t)
    <3>1. DOMAIN order[t.kind] = 1..n /\ Len(order[t.kind]) = n /\ order[t.kind] = ids
      BY <1>3, <2>3
    <3> HIDE DEF page, q, n, ids
    <3> QED BY <1>8, <2>3, <2>4, <3>1 DEF Fits, FieldsFit, HitsFit, PagesFit
  <2>6. To(r, t)
    BY <1>7, <1>10 DEF t
  <2> QED BY <1>6, <2>2, <2>5, <2>6, OneMoves DEF RecordInv, KeepTable
<1> QED BY <1>9, <1>10

\* A scan is a list of profiles with their voices.
LEMMA ScansAre ==
  ASSUME RecordInv, NEW scan \in Scans
  PROVE  scan \in Seq(Candidate)
<1> DEFINE ps == DOMAIN table \cap Profiles
           n == Cardinality(ps)
<1>1. n \in Nat
  <2>1. order[Profiles] \in Seq(Records) /\ ToSet(order[Profiles]) = ps
    BY KindsAre DEF RecordInv, OrderFits
  <2>2. IsFiniteSet(ps)
    BY <2>1, Listable
  <2> QED BY <2>2, FS_CardinalityType
<1> HIDE DEF n
<1>2. PICK ids \in SetToSeqs(ps) :
        scan = [k \in DOMAIN ids |-> [id |-> ids[k], body |-> table[ids[k]].body]]
  BY Zenon DEF Scans
<1>3. ids \in [1..n -> ps]
  BY Zenon DEF SetToSeqs, n
<1>4. \A p \in ps : p \in Profiles /\ table[p].body \in Values
  BY DEF RecordInv, TableFits, RowOf, ProfileRow, Columns
<1> HIDE DEF ps
<1>5. \A k \in 1..n : [id |-> ids[k], body |-> table[ids[k]].body] \in Candidate
  BY <1>3, <1>4 DEF Candidate
<1>6. scan \in [1..n -> Candidate]
  BY <1>2, <1>3, <1>5
<1> QED BY <1>1, <1>6

LEMMA MatchKeeps ==
  ASSUME RecordInv, NEW r \in Requests, NEW bulk \in BOOLEAN,
         NEW asked \in SUBSET Queries, Matches(r, bulk, asked)
  PROVE  RecordInv'
<1>1. KeepTable
  BY DEF Matches
<1>2. PICK scan \in Scans :
        To(r, [pc |-> "refetch", bulk |-> bulk, scan |-> scan,
                 hits |-> [v \in asked |-> BestMatch(v, scan)]])
  BY DEF Matches
<1> DEFINE hits == [v \in asked |-> BestMatch(v, scan)]
           q == [pc |-> "refetch", bulk |-> bulk, scan |-> scan, hits |-> hits]
<1>3. scan \in Seq(Candidate)
  BY ScansAre
<1>4. \A v \in asked : BestMatch(v, scan) \in Profiles \cup {Null}
  <2> TAKE v \in asked
  <2> DEFINE best == {k \in DOMAIN scan : IsBest(v, scan, k)}
  <2>1. v \in Queries
    OBVIOUS
  <2>2. BestMatch(v, scan) = Null \/ \E k \in DOMAIN scan : BestMatch(v, scan) = scan[k].id
    BY <1>3, <2>1, BestMatchIsBest
  <2>3. \A k \in DOMAIN scan : scan[k].id \in Profiles
    <3>1. \A k \in DOMAIN scan : scan[k] \in Candidate
      BY <1>3
    <3> QED BY <3>1 DEF Candidate
  <2> QED BY <2>2, <2>3
<1>5. hits \in Hits
  <2>1. hits \in [asked -> Profiles \cup {Null}]
    BY <1>4
  <2> HIDE DEF hits
  <2> QED BY <2>1 DEF Hits
<1>6. Fits(q)
  BY DEF Fits, FieldsFit, HitsFit, PagesFit
<1>7. q \in Request
  <2> HIDE DEF hits
  <2>1. q \in [pc : {"refetch"}, bulk : BOOLEAN, hits : Hits, scan : Seq(Candidate)]
    BY <1>3, <1>5
  <2> HIDE DEF q
  <2> QED BY <2>1 DEF Request, Candidate
<1>8. To(r, q)
  BY <1>2
<1> HIDE DEF q
<1> QED BY <1>1, <1>6, <1>7, <1>8, OneMoves DEF RecordInv, KeepTable

LEMMA RefetchKeeps ==
  ASSUME RecordInv, NEW r \in Requests, Refetch(r)
  PROVE  RecordInv'
<1> DEFINE hits == [v \in DOMAIN req[r].hits |->
                      LET h == req[r].hits[v] IN
                      IF Found(req[r].bulk, h) THEN h ELSE Null]
           q == [pc |-> "done", code |-> 200, hits |-> hits]
<1>1. To(r, q) /\ KeepTable
  BY DEF Refetch
<1>2. req[r].hits \in Hits
  <2>1. req[r] \in Request /\ req[r].pc = "refetch"
    BY DEF RecordInv, Refetch
  <2>2. req[r] \in [pc : {"refetch"}, bulk : BOOLEAN, hits : Hits, scan : Seq(Candidate)]
    BY <2>1, RefetchIs
  <2> QED BY <2>2
<1>3. hits \in Hits
  <2>1. PICK asked \in SUBSET Queries : req[r].hits \in [asked -> Profiles \cup {Null}]
    BY <1>2 DEF Hits
  <2>2. hits \in [asked -> Profiles \cup {Null}]
    BY <2>1
  <2> HIDE DEF hits
  <2> QED BY <2>2 DEF Hits
<1>4. q \in Request /\ Fits(q)
  <2> HIDE DEF hits
  <2> QED BY <1>3, ARequest
<1> HIDE DEF q
<1> QED BY <1>1, <1>4, OneMoves DEF RecordInv, KeepTable

LEMMA RecordInit ==
  ASSUME RecordsInit
  PROVE  RecordInv
<1>1. /\ order \in Databases /\ order \in [Kinds -> Seq(Records)]
      /\ \A kind \in Kinds : order[kind] \in Seq(kind) /\ IsInjective(order[kind])
  BY RecordsAssumption DEF RecordsInit
<1>2. \A kind \in Kinds : ToSet(order[kind]) \subseteq kind
  <2> TAKE kind \in Kinds
  <2>1. \A k \in DOMAIN order[kind] : order[kind][k] \in kind
    BY <1>1
  <2> QED BY <2>1 DEF ToSet
<1> DEFINE ids == UNION {ToSet(order[kind]) : kind \in Kinds}
<1>3. table = [i \in ids |-> Earlier[i]]
  BY DEF RecordsInit
<1>4. ids \subseteq Records
  BY <1>2 DEF Records
<1>5. ASSUME NEW kind \in Kinds
      PROVE  ToSet(order[kind]) = ids \cap kind
  <2>1. \A i : i \in ToSet(order[kind]) => i \in ids \cap kind
    BY <1>2
  <2>2. ASSUME NEW i \in kind, NEW k \in Kinds, i \in ToSet(order[k])
        PROVE  i \in ToSet(order[kind])
    <3>1. i \in k
      BY <1>2, <2>2
    <3> QED BY <2>2, <3>1, OneKind
  <2> QED BY <2>1, <2>2
<1> HIDE DEF ids
<1>6. \A i \in ids : Earlier[i] \in Row /\ Earlier[i] \in RowOf(i)
  <2>1. \A i \in ids : Earlier[i] \in RowOf(i)
    BY <1>4, RecordsAssumption
  <2>2. \A i : RowOf(i) \subseteq Row
    BY DEF RowOf, Row, ProfileRow, TemplateRow
  <2> QED BY <2>1, <2>2
<1>7. TableFits
  BY <1>3, <1>4, <1>6 DEF TableFits
<1>8. OrderFits
  BY <1>1, <1>3, <1>5 DEF OrderFits
<1>9. made \in SUBSET (Templates \cup Profiles)
  BY DEF RecordsInit
<1>10. req \in [Requests -> Request] /\ \A r \in Requests : Fits(req[r])
  <2> DEFINE q == [pc |-> "new"]
  <2>1. q \in Request
    BY DEF Request
  <2>2. Fits(q)
    BY DEF Fits, FieldsFit, HitsFit, PagesFit
  <2>3. req = [r \in Requests |-> q]
    BY DEF RecordsInit
  <2> HIDE DEF q
  <2> QED BY <2>1, <2>2, <2>3
<1> QED BY <1>7, <1>8, <1>9, <1>10 DEF RecordInv

LEMMA RecordStep ==
  ASSUME RecordInv, [RecordsNext]_recordVars
  PROVE  RecordInv'
<1>1. CASE UNCHANGED recordVars
  BY <1>1 DEF recordVars, RecordInv, TableFits, OrderFits, Fits, FieldsFit, HitsFit, PagesFit
<1>2. ASSUME NEW r \in Requests, First(r) PROVE RecordInv'
  <2>1. CASE \/ \E i \in Meetings, row \in MeetingRow : CreateMeeting(r, i, row)
             \/ \E i \in Templates, row \in TemplateRow : CreateTemplate(r, i, row)
             \/ \E i \in Profiles, row \in ProfileRow : CreateSpeakerProfile(r, i, row)
    BY <2>1, CreateKeeps
  <2>2. CASE \E i \in Records, sent \in Sent :
               PatchMeeting(r, i, sent) \/ PatchTemplate(r, i, sent)
               \/ PatchSpeakerProfile(r, i, sent)
    BY <2>2, PatchKeeps
  <2>3. CASE \E i \in Records :
               \/ GetMeeting(r, i) \/ GetTemplate(r, i) \/ GetSpeakerProfile(r, i)
               \/ DeleteMeeting(r, i) \/ DeleteTemplate(r, i) \/ DeleteSpeakerProfile(r, i)
    BY <2>3, GetOrDeleteKeeps
       DEF GetMeeting, GetTemplate, GetSpeakerProfile,
           DeleteMeeting, DeleteTemplate, DeleteSpeakerProfile
  <2>4. CASE ListMeetings(r) \/ ListTemplates(r) \/ ListSpeakerProfiles(r)
    BY <2>4, ListFirstKeeps, KindsAre DEF ListMeetings, ListTemplates, ListSpeakerProfiles
  <2>5. CASE \E v \in Queries : MatchSpeakerProfile(r, v)
    <3>1. PICK v \in Queries : Matches(r, FALSE, {v})
      BY <2>5 DEF MatchSpeakerProfile
    <3>2. {v} \in SUBSET Queries /\ FALSE \in BOOLEAN
      OBVIOUS
    <3> QED BY <3>1, <3>2, MatchKeeps, Zenon
  <2>6. CASE \E asked \in Voices : MatchSpeakerProfileBulk(r, asked)
    <3>1. PICK asked \in SUBSET Queries : Matches(r, TRUE, asked)
      BY <2>6 DEF MatchSpeakerProfileBulk, Voices
    <3> QED BY <3>1, MatchKeeps
  <2> QED BY <1>2, <2>1, <2>2, <2>3, <2>4, <2>5, <2>6, Zenon DEF First
<1>3. ASSUME NEW r \in Requests, Later(r) PROVE RecordInv'
  <2>1. ASSUME LookAgain(r) PROVE RecordInv'
    BY <2>1, AnsweredAtOnce DEF LookAgain
  <2>2. ASSUME Refresh(r) PROVE RecordInv'
    BY <2>2, AnsweredAtOnce DEF Refresh
  <2> QED
    BY <1>3, <2>1, <2>2, InsertKeeps, FlushKeeps, DeleteKeeps, ListNextKeeps, RefetchKeeps
       DEF Later
<1> QED BY <1>1, <1>2, <1>3 DEF RecordsNext

\* The invariant holds of every behaviour.
LEMMA RecordInvariant ==
  RecordsSpec => []RecordInv
<1>1. RecordsInit => RecordInv
  BY RecordInit
<1>2. RecordInv /\ [RecordsNext]_recordVars => RecordInv'
  BY RecordStep
<1> QED BY <1>1, <1>2, PTL DEF RecordsSpec

\* Every variable of the database and of its requests keeps its type.
THEOREM RecordTypeCorrect ==
  RecordsSpec => []RecordsTypeOK
BY RecordInvariant, RecordInvTypes, PTL

\* Who turns the pages of a listing has seen every record that was there at
\* the first page, unless one was deleted meanwhile: creates and updates of
\* others never hide one.  (list_meetings, list_templates,
\* list_speaker_profiles with limit and offset.)
THEOREM PagesAreComplete ==
  RecordsSpec => []PagesMissOnlyByDeletes
<1>1. RecordInv => PagesMissOnlyByDeletes
  BY DEF RecordInv, Fits, PagesFit, PagesMissOnlyByDeletes
<1> QED BY <1>1, RecordInvariant, PTL

\* Which requests write rows.
LEMMA WhoWrites ==
  ASSUME RecordInv, RecordsNext
  PROVE  \/ UNCHANGED table
         \/ \E r \in Requests : Insert(r) \/ Flush(r) \/ DeleteRow(r)
<1> SUFFICES ASSUME NEW r \in Requests, First(r) \/ Later(r),
                    ~(Insert(r) \/ Flush(r) \/ DeleteRow(r))
             PROVE  UNCHANGED table
  BY DEF RecordsNext
<1>1. CASE First(r)
  BY <1>1 DEF First, KeepTable, CreateMeeting, CreateTemplate, CreateSpeakerProfile,
       PatchMeeting, PatchTemplate, PatchSpeakerProfile, Get, Delete,
       GetMeeting, GetTemplate, GetSpeakerProfile,
       DeleteMeeting, DeleteTemplate, DeleteSpeakerProfile, ListFirst,
       ListMeetings, ListTemplates, ListSpeakerProfiles, Matches,
       MatchSpeakerProfile, MatchSpeakerProfileBulk
<1>2. CASE Later(r)
  BY <1>2 DEF Later, KeepTable, LookAgain, Refresh, ListNext, Refetch
<1> QED BY <1>1, <1>2

\* A column changes only to what the request that writes it was asked to set,
\* and only a create adds a record: the stale copy that the session of a PATCH
\* holds overwrites nothing and revives nothing.  (update_meeting,
\* update_template, update_speaker_profile in repos.py.)
THEOREM UpdatesAreKept ==
  RecordsSpec => NoLostUpdate
<1> DEFINE Kept ==
      /\ \A i \in DOMAIN table \cap DOMAIN table' : \A c \in Columns :
           table'[i][c] # table[i][c] =>
             \E r \in Requests : /\ req[r].pc = "flush" /\ req[r].id = i
                                 /\ req[r] # req'[r]
                                 /\ c \in DOMAIN req[r].fields
                                 /\ table'[i][c] = req[r].fields[c]
      /\ \A i \in DOMAIN table' \ DOMAIN table :
           \E r \in Requests : req[r].pc = "insert" /\ req[r].id = i
<1>1. RecordInv /\ [RecordsNext]_recordVars => [Kept]_recordVars
  <2> SUFFICES ASSUME RecordInv, RecordsNext PROVE Kept
    BY DEF recordVars
  <2>1. CASE UNCHANGED table
    BY <2>1
  <2>2. ASSUME NEW r \in Requests, Insert(r) PROVE Kept
    <3>1. req[r].pc = "insert" /\
          \/ UNCHANGED table
          \/ table' = [k \in DOMAIN table \cup {req[r].id} |->
                         IF k = req[r].id THEN req[r].row ELSE table[k]]
             /\ req[r].id \notin DOMAIN table
      BY <2>2 DEF Insert, Violates, Present
    <3> QED BY <3>1
  <2>3. ASSUME NEW r \in Requests, Flush(r) PROVE Kept
    <3> DEFINE i == req[r].id
               fields == req[r].fields
               cs == Changed(req[r].loaded, fields)
               value == [c \in Columns |-> IF c \in DOMAIN fields THEN fields[c]
                                             ELSE req[r].loaded[c]]
               row == [c \in Columns |-> IF c \in cs THEN value[c] ELSE table[i][c]]
    <3>1. req[r].pc = "flush"
      BY <2>3 DEF Flush
    <3>2. \/ UNCHANGED table
          \/ /\ i \in DOMAIN table /\ table' = [table EXCEPT ![i] = row]
             /\ To(r, [pc |-> "refresh", id |-> i])
      BY <2>3 DEF Flush, Present
    <3>3. \A c \in Columns : row[c] # table[i][c] => c \in DOMAIN fields /\ row[c] = fields[c]
      BY DEF Changed
    <3> HIDE DEF row, fields
    <3>4. CASE UNCHANGED table
      BY <3>4
    <3>5. CASE /\ i \in DOMAIN table /\ table' = [table EXCEPT ![i] = row]
               /\ To(r, [pc |-> "refresh", id |-> i])
      <4>1. req'[r] # req[r]
        BY <3>1, <3>5 DEF To, RecordInv
      <4>2. DOMAIN table' = DOMAIN table /\ table'[i] = row
            /\ \A k \in DOMAIN table : k # i => table'[k] = table[k]
        BY <3>5 DEF RecordInv, TableFits
      <4>3. ASSUME NEW k \in DOMAIN table, NEW c \in Columns, table'[k][c] # table[k][c]
            PROVE  \E x \in Requests : /\ req[x].pc = "flush" /\ req[x].id = k
                                 /\ req[x] # req'[x]
                                 /\ c \in DOMAIN req[x].fields
                                 /\ table'[k][c] = req[x].fields[c]
        <5>1. k = i
          BY <4>2, <4>3
        <5>2. c \in DOMAIN fields /\ table'[k][c] = fields[c]
          BY <3>3, <4>2, <4>3, <5>1
        <5> QED BY <3>1, <4>1, <5>1, <5>2 DEF fields
      <4> QED BY <4>2, <4>3
    <3> QED BY <3>2, <3>4, <3>5
  <2>4. ASSUME NEW r \in Requests, DeleteRow(r) PROVE Kept
    <3>1. table' = Restrict(table, DOMAIN table \ {req[r].id})
      BY <2>4 DEF DeleteRow
    <3> QED BY <3>1 DEF Restrict
  <2> HIDE DEF Kept
  <2> QED BY <2>1, <2>2, <2>3, <2>4, WhoWrites
<1> QED BY <1>1, RecordInvariant, PTL DEF RecordsSpec, NoLostUpdate

\* A step of another request leaves a request where it was.
LEMMA OthersWait ==
  ASSUME RecordInv, NEW x \in Requests, NEW r \in Requests, r # x,
         First(x) \/ Later(x)
  PROVE  req'[r].pc = req[r].pc
<1>1. ASSUME NEW q, To(x, q)
      PROVE  req'[r].pc = req[r].pc
  BY <1>1 DEF To, RecordInv
<1>2. \/ \E q : To(x, q)
      \/ DeleteRow(x)
  <2>1. CASE First(x)
    <3>1. ASSUME NEW i, NEW row,
                 CreateMeeting(x, i, row) \/ CreateTemplate(x, i, row)
                 \/ CreateSpeakerProfile(x, i, row)
          PROVE  \E q : To(x, q)
      BY <3>1 DEF CreateMeeting, CreateTemplate, CreateSpeakerProfile, Inserts, Answer
    <3>2. ASSUME NEW i, NEW sent,
                 PatchMeeting(x, i, sent) \/ PatchTemplate(x, i, sent)
                 \/ PatchSpeakerProfile(x, i, sent)
          PROVE  \E q : To(x, q)
      BY <3>2 DEF PatchMeeting, PatchTemplate, PatchSpeakerProfile, Updates, Answer
    <3>3. ASSUME NEW i, Get(x, i) \/ Delete(x, i)
          PROVE  \E q : To(x, q)
      BY <3>3 DEF Get, Delete, Answer
    <3>4. ASSUME NEW sort, ListFirst(x, sort)
          PROVE  \E q : To(x, q)
      BY <3>4 DEF ListFirst
    <3>5. ASSUME NEW bulk, NEW asked, Matches(x, bulk, asked)
          PROVE  \E q : To(x, q)
      BY <3>5 DEF Matches
    <3> QED
      BY <2>1, <3>1, <3>2, <3>3, <3>4, <3>5
      DEF First, GetMeeting, GetTemplate, GetSpeakerProfile, DeleteMeeting, DeleteTemplate,
          DeleteSpeakerProfile, ListMeetings, ListTemplates, ListSpeakerProfiles,
          MatchSpeakerProfile, MatchSpeakerProfileBulk
  <2>2. CASE Later(x)
    BY <2>2 DEF Later, Insert, LookAgain, Refresh, Flush, ListNext, Refetch,
         Answer
  <2> QED BY <2>1, <2>2
<1>3. ASSUME DeleteRow(x)
      PROVE  req'[r].pc = req[r].pc
  <2>1. req'[r] = IF req[r].pc = "list" THEN [req[r] EXCEPT !.deletes = TRUE] ELSE req[r]
    BY <1>3 DEF DeleteRow
  <2>2. CASE req[r].pc = "list"
    <3>1. req[r] \in [pc : {"list", "listed"}, kind : Kinds, offset : Nat,
              seen : SUBSET Records, atFirst : SUBSET Records, deletes : BOOLEAN]
      BY <2>2, ListIs DEF RecordInv
    <3> QED BY <2>1, <2>2, <3>1
  <2> QED BY <2>1, <2>2
<1> QED BY <1>1, <1>2, <1>3

\* A voice gets the most similar profile of the scan at or above the threshold,
\* or none if that has gone, in bulk only if it is there when it is read again.
\* (best_match, match_speaker_profile and match_speaker_profile_bulk.)
THEOREM MatchesAreTheBest ==
  RecordsSpec => MatchIsTheBest
<1> DEFINE Best == \A r \in Requests :
      Answers(r) => \A q \in DOMAIN req[r].hits :
        LET scan == req[r].scan
            best == {k \in DOMAIN scan : IsBest(q, scan, k)}
            hit  == req'[r].hits[q] IN
        IF hit = Null THEN \A k \in best : ~Present(scan[k].id)
        ELSE /\ \E k \in best : hit = scan[k].id
             /\ req[r].bulk => Present(hit)
<1>1. ASSUME RecordInv, RecordsNext, NEW r \in Requests, Answers(r)
      PROVE  Refetch(r)
  <2>1. PICK x \in Requests : First(x) \/ Later(x)
    BY <1>1 DEF RecordsNext
  <2>2. req[r].pc = "refetch" /\ req'[r].pc = "done"
    BY <1>1 DEF Answers
  <2>3. x = r
    BY <1>1, <2>1, <2>2, OthersWait
  <2> QED
    BY <2>1, <2>2, <2>3
       DEF First, New, CreateMeeting, CreateTemplate, CreateSpeakerProfile,
         PatchMeeting, PatchTemplate, PatchSpeakerProfile, Get, Delete,
         GetMeeting, GetTemplate, GetSpeakerProfile,
         DeleteMeeting, DeleteTemplate, DeleteSpeakerProfile, ListFirst,
         ListMeetings, ListTemplates, ListSpeakerProfiles, Matches,
         MatchSpeakerProfile, MatchSpeakerProfileBulk,
         Later, Insert, LookAgain, Refresh, Flush, DeleteRow, ListNext
<1>2. ASSUME RecordInv, NEW r \in Requests, Refetch(r)
      PROVE  \A q \in DOMAIN req[r].hits :
               LET scan == req[r].scan
                   best == {k \in DOMAIN scan : IsBest(q, scan, k)}
                   hit  == req'[r].hits[q] IN
               IF hit = Null THEN \A k \in best : ~Present(scan[k].id)
               ELSE /\ \E k \in best : hit = scan[k].id
                    /\ req[r].bulk => Present(hit)
  <2> TAKE v \in DOMAIN req[r].hits
  <2> DEFINE scan == req[r].scan
             best == {k \in DOMAIN scan : IsBest(v, scan, k)}
             hit == req'[r].hits[v]
             h == req[r].hits[v]
  <2>1. req[r] \in Request /\ req[r].pc = "refetch" /\ Fits(req[r])
    BY <1>2 DEF RecordInv, Refetch
  <2>2. scan \in Seq(Candidate)
    <3>1. req[r] \in [pc : {"refetch"}, bulk : BOOLEAN, hits : Hits, scan : Seq(Candidate)]
      BY <2>1, RefetchIs
    <3> QED BY <3>1
  <2>3. v \in Queries /\ h = BestMatch(v, scan)
    BY <2>1 DEF Fits, HitsFit
  <2>4. hit = IF Found(req[r].bulk, h) THEN h ELSE Null
    <3> DEFINE hits == [w \in DOMAIN req[r].hits |->
                          LET g == req[r].hits[w] IN
                          IF Found(req[r].bulk, g) THEN g ELSE Null]
    <3>1. req' = [req EXCEPT ![r] = [pc |-> "done", code |-> 200, hits |-> hits]]
      BY <1>2 DEF Refetch, To
    <3>2. req'[r].hits = hits
      <4> HIDE DEF hits
      <4> QED BY <1>2, <3>1 DEF RecordInv
    <3> QED BY <3>2
  <2>5. IF h = Null THEN best = {} ELSE \E k \in best : h = scan[k].id /\ best = {k}
    <3> HIDE DEF scan
    <3> QED BY <2>2, <2>3, BestMatchIsBest
  <2> HIDE DEF scan, best, hit, h
  <2>6. CASE h = Null
    <3>1. hit = Null /\ best = {}
      BY <2>4, <2>5, <2>6
    <3> QED BY <3>1 DEF hit, best, scan
  <2>7. CASE h # Null
    <3>1. PICK k \in best : h = scan[k].id /\ best = {k}
      BY <2>5, <2>7
    <3>2. CASE Found(req[r].bulk, h)
      <4>1. hit = h /\ (req[r].bulk => Present(hit)) /\ \E l \in best : hit = scan[l].id
        BY <2>4, <3>1, <3>2 DEF Found
      <4> QED BY <2>7, <4>1 DEF hit, best, scan
    <3>3. CASE ~Found(req[r].bulk, h)
      <4>1. hit = Null /\ \A l \in best : req[r].bulk /\ ~Present(scan[l].id)
        BY <2>4, <3>1, <3>3 DEF Found
      <4> QED BY <4>1 DEF hit, best, scan
    <3> QED BY <3>2, <3>3
  <2> QED BY <2>6, <2>7
<1>3. RecordInv /\ [RecordsNext]_recordVars => [Best]_recordVars
  <2> SUFFICES ASSUME RecordInv, RecordsNext, NEW r \in Requests, Answers(r)
               PROVE  Refetch(r)
    BY <1>2 DEF recordVars
  <2> QED BY <1>1
<1> QED BY <1>3, RecordInvariant, PTL DEF RecordsSpec, MatchIsTheBest

-----------------------------------------------------------------------------
(* The feed of segments.                                                   *)

USE DEF server, client, Calls

-----------------------------------------------------------------------------
(* The inductive invariant.                                                *)

Increasing(line) == \A i, j \in 1..Len(line) : i < j => line[i] < line[j]

\* The line's items are among the first n.
Among(line, n) == \A i \in 1..Len(line) : line[i] \in 1..n

Before(line, later) ==
  \A i \in 1..Len(line), j \in 1..Len(later) : line[i] < later[j]

\* A stream that is not subscribed holds nothing, and those to come are new.
Idle ==
  /\ \A k \in Calls : call[k] # "open" => queue[k] = <<>>
  /\ \A k \in Calls : k > calls => call[k] = "none"

\* What the client has is older than what is under way to it, and that is older
\* than what waits in the queue of its stream.
InLine ==
  /\ Increasing(got) /\ Among(got, offered)
  /\ Increasing(wire) /\ Among(wire, offered)
  /\ Before(got, wire)
  /\ \A k \in Calls : Increasing(queue[k]) /\ Among(queue[k], offered)
  /\ \A k \in Calls : k = calls => Before(got, queue[k]) /\ Before(wire, queue[k])

\* What is due is what was got beyond what was had, what is on its way and in the
\* queue, and what a full queue lost.
Balanced(due, g, h, w, q, f) == due = g - h + w + q + f

\* The account of the client's stream, from its call on.
Account ==
  /\ \A k \in Calls : k >= calls /\ call[k] \in {"none", "sent"} => full[k] = 0
  /\ \A k \in Calls :
       k = calls /\ Attended(k) =>
         /\ call[k] = "sent" => wire = <<>> /\ had = Len(got)
         /\ call[k] = "open" =>
              Balanced(offered - since[k], Len(got), had,
                       Len(wire), Len(queue[k]), full[k])

\* A wait with no response after it was followed by a longer one.
Waits == hop = "transcripts" /\ waited # 0 => backoff > waited \/ backoff = MaxBackoff

IInv == TypeOK /\ Idle /\ InLine /\ Account /\ Waits /\ ConnectedIsTrue

-----------------------------------------------------------------------------
(* Lines of numbers.                                                       *)

\* An item that is younger than all of a line goes to its end.
LEMMA AppendKeeps ==
  ASSUME NEW s \in Seq(Nat), NEW n \in Nat
  PROVE  /\ Append(s, n) \in Seq(Nat)
         /\ Len(Append(s, n)) = Len(s) + 1
         /\ Increasing(s) /\ (\A i \in 1..Len(s) : s[i] < n) => Increasing(Append(s, n))
         /\ \A m \in Nat : Among(s, m) /\ n \in 1..m => Among(Append(s, n), m)
         /\ \A t \in Seq(Nat) :
              /\ Before(s, t) /\ (\A j \in 1..Len(t) : n < t[j]) => Before(Append(s, n), t)
              /\ Before(t, s) /\ (\A j \in 1..Len(t) : t[j] < n) => Before(t, Append(s, n))
<1>1. /\ Append(s, n) \in Seq(Nat)
      /\ Len(Append(s, n)) = Len(s) + 1
      /\ \A i \in 1..Len(s) : Append(s, n)[i] = s[i]
      /\ Append(s, n)[Len(s) + 1] = n
      /\ Len(s) \in Nat
  BY AppendProperties
<1>2. \A i \in 1..Len(Append(s, n)) : i \in 1..Len(s) \/ i = Len(s) + 1
  BY <1>1
<1>3. Increasing(s) /\ (\A i \in 1..Len(s) : s[i] < n) => Increasing(Append(s, n))
  BY <1>1, <1>2 DEF Increasing
<1>4. \A m \in Nat : Among(s, m) /\ n \in 1..m => Among(Append(s, n), m)
  BY <1>1, <1>2 DEF Among
<1>5. ASSUME NEW t \in Seq(Nat)
      PROVE  /\ Before(s, t) /\ (\A j \in 1..Len(t) : n < t[j]) => Before(Append(s, n), t)
             /\ Before(t, s) /\ (\A j \in 1..Len(t) : t[j] < n) => Before(t, Append(s, n))
  BY <1>1, <1>2 DEF Before
<1> QED BY <1>1, <1>3, <1>4, <1>5

\* The head of a line is older than the rest, which stays in line.
LEMMA TailKeeps ==
  ASSUME NEW s \in Seq(Nat), s # <<>>
  PROVE  /\ Tail(s) \in Seq(Nat)
         /\ Len(Tail(s)) = Len(s) - 1
         /\ Len(s) \in Nat \ {0}
         /\ Head(s) \in Nat
         /\ Increasing(s) =>
              Increasing(Tail(s)) /\ \A i \in 1..Len(Tail(s)) : Head(s) < Tail(s)[i]
         /\ \A m \in Nat : Among(s, m) => Head(s) \in 1..m /\ Among(Tail(s), m)
         /\ \A t \in Seq(Nat) :
              /\ Before(s, t) =>
                   Before(Tail(s), t) /\ \A j \in 1..Len(t) : Head(s) < t[j]
              /\ Before(t, s) =>
                   Before(t, Tail(s)) /\ \A j \in 1..Len(t) : t[j] < Head(s)
<1>1. /\ Tail(s) \in Seq(Nat)
      /\ Len(Tail(s)) = Len(s) - 1
      /\ Len(s) \in Nat \ {0}
      /\ \A i \in 1..Len(Tail(s)) : Tail(s)[i] = s[i + 1]
      /\ Head(s) = s[1]
      /\ Head(s) \in Nat
  BY HeadTailProperties, EmptySeq
<1>2. \A i \in 1..Len(Tail(s)) : i + 1 \in 1..Len(s) /\ 1 < i + 1
  BY <1>1
<1>3. 1 \in 1..Len(s)
  BY <1>1
<1>4. Increasing(s) =>
        Increasing(Tail(s)) /\ \A i \in 1..Len(Tail(s)) : Head(s) < Tail(s)[i]
  BY <1>1, <1>2, <1>3 DEF Increasing
<1>5. \A m \in Nat : Among(s, m) => Head(s) \in 1..m /\ Among(Tail(s), m)
  BY <1>1, <1>2, <1>3 DEF Among
<1>6. ASSUME NEW t \in Seq(Nat)
      PROVE  /\ Before(s, t) =>
                  Before(Tail(s), t) /\ \A j \in 1..Len(t) : Head(s) < t[j]
             /\ Before(t, s) =>
                  Before(t, Tail(s)) /\ \A j \in 1..Len(t) : t[j] < Head(s)
  BY <1>1, <1>2, <1>3 DEF Before
<1> QED BY <1>1, <1>4, <1>5, <1>6

\* Nothing is out of line in an empty line.
LEMMA EmptyInLine ==
  /\ Increasing(<<>>)
  /\ \A m : Among(<<>>, m)
  /\ \A t : Before(t, <<>>) /\ Before(<<>>, t)
  /\ <<>> \in Seq(Nat) /\ Len(<<>>) = 0
BY DEF Increasing, Among, Before
-----------------------------------------------------------------------------
(* Type correctness.                                                       *)

LEMMA TypeStep == TypeOK /\ [Next]_vars => TypeOK'
<1> SUFFICES ASSUME TypeOK, [Next]_vars PROVE TypeOK'
  OBVIOUS
<1> USE FeedAssumption
<1>1. CASE Publish
  <2>1. \A k \in Calls : Queued(k, offered + 1) \in Seq(Nat)
    <3> SUFFICES ASSUME NEW k \in Calls PROVE Queued(k, offered + 1) \in Seq(Nat)
      OBVIOUS
    <3>1. queue[k] \in Seq(Nat) /\ offered + 1 \in Nat /\ Len(queue[k]) \in Nat
      BY LenProperties DEF TypeOK
    <3>2. Append(queue[k], offered + 1) \in Seq(Nat)
      BY <3>1, AppendKeeps
    <3>3. CASE Full(k)
      <4>1. queue[k] # <<>>
        BY <3>1, <3>3, EmptyInLine DEF Full
      <4>2. Tail(queue[k]) \in Seq(Nat)
        BY <3>1, <4>1, TailKeeps
      <4> QED BY <3>1, <4>2, AppendKeeps DEF Queued
    <3>4. CASE ~Full(k)
      BY <3>2, <3>4 DEF Queued
    <3> QED BY <3>3, <3>4
  <2>2. queue' \in [Calls -> Seq(Nat)]
    BY <1>1, <2>1 DEF Publish, TypeOK
  <2>3. full' \in [Calls -> Nat]
    BY <1>1 DEF Publish, TypeOK
  <2> QED BY <1>1, <2>2, <2>3 DEF Publish, TypeOK
<1>2. CASE Restart
  BY <1>2, EmptyInLine DEF Restart, TypeOK
<1>3. ASSUME NEW k \in Calls, Subscribe(k) PROVE TypeOK'
  BY <1>3, EmptyInLine DEF Subscribe, Backlog, TypeOK
<1>4. ASSUME NEW k \in Calls, Send(k) PROVE TypeOK'
  <2>1. Tail(queue[k]) \in Seq(Nat) /\ Head(queue[k]) \in Nat
    BY <1>4, TailKeeps DEF Send, TypeOK
  <2>2. queue' \in [Calls -> Seq(Nat)]
    BY <1>4, <2>1 DEF Send, TypeOK
  <2>3. wire' \in Seq(Nat)
    BY <1>4, <2>1, AppendKeeps DEF Send, TypeOK
  <2> QED BY <1>4, <2>2, <2>3 DEF Send, TypeOK
<1>5. ASSUME NEW k \in Calls, Unsubscribe(k) PROVE TypeOK'
  BY <1>5, EmptyInLine DEF Unsubscribe, TypeOK
<1>6. CASE Call
  <2>1. Len(got) \in Nat
    BY LenProperties DEF TypeOK
  <2> QED BY <1>6, <2>1, EmptyInLine DEF Call, OpensWith, TypeOK
<1>7. CASE Receive
  <2>1. Tail(wire) \in Seq(Nat) /\ Head(wire) \in Nat
    BY <1>7, TailKeeps DEF Receive, TypeOK
  <2>2. got' \in Seq(Nat)
    BY <1>7, <2>1, AppendKeeps DEF Receive, TypeOK
  <2>3. waited' \in 0..MaxBackoff /\ backoff' \in InitialBackoff..MaxBackoff
    BY <1>7 DEF Receive, TypeOK
  <2>4. connected' \in BOOLEAN
    BY <1>7 DEF Receive, TypeOK
  <2>5. hop' = hop /\ calls' = calls /\ had' = had /\ link' = "handling"
    BY <1>7 DEF Receive
  <2>6. UNCHANGED <<offered, server>>
    BY <1>7 DEF Receive
  <2> QED BY <2>1, <2>2, <2>3, <2>4, <2>5, <2>6, <1>7 DEF Receive, TypeOK
<1>8. CASE Handled
  BY <1>8 DEF Handled, TypeOK
<1>9. ASSUME NEW failed \in BOOLEAN, Ends(failed) PROVE TypeOK'
  BY <1>9, EmptyInLine DEF Ends, EndsWith, TypeOK
<1>10. CASE Awakes
  BY <1>10 DEF Awakes, Doubled, TypeOK
<1>11. CASE UNCHANGED vars
  BY <1>11 DEF vars, TypeOK
<1> QED BY <1>1, <1>2, <1>3, <1>4, <1>5, <1>6, <1>7, <1>8, <1>9, <1>10, <1>11
        DEF Next, Breaks, HandleFails
-----------------------------------------------------------------------------
(* Who holds what.                                                         *)

LEMMA IdleStep == TypeOK /\ Idle /\ [Next]_vars => Idle'
<1> SUFFICES ASSUME TypeOK, Idle, [Next]_vars PROVE Idle'
  OBVIOUS
<1> USE FeedAssumption
<1>1. CASE Publish
  BY <1>1 DEF Publish, Listens, Idle, TypeOK
<1>2. CASE Restart
  BY <1>2 DEF Restart, Idle, TypeOK
<1>3. ASSUME NEW k \in Calls, Subscribe(k) PROVE Idle'
  BY <1>3 DEF Subscribe, Idle, TypeOK
<1>4. ASSUME NEW k \in Calls, Send(k) PROVE Idle'
  BY <1>4 DEF Send, Idle, TypeOK
<1>5. ASSUME NEW k \in Calls, Unsubscribe(k) PROVE Idle'
  BY <1>5 DEF Unsubscribe, Idle, TypeOK
<1>6. CASE Call
  BY <1>6 DEF Call, Idle, TypeOK
<1>7. CASE Receive \/ Handled \/ Awakes \/ UNCHANGED vars
  BY <1>7 DEF Receive, Handled, Awakes, vars, Idle
<1>8. ASSUME NEW failed \in BOOLEAN, Ends(failed) PROVE Idle'
  BY <1>8 DEF Ends, Idle
<1> QED BY <1>1, <1>2, <1>3, <1>4, <1>5, <1>6, <1>7, <1>8
        DEF Next, Breaks, HandleFails

LEMMA WaitsStep == TypeOK /\ Waits /\ [Next]_vars => Waits'
<1> SUFFICES ASSUME TypeOK, Waits, [Next]_vars PROVE Waits'
  OBVIOUS
<1> USE FeedAssumption
<1>1. CASE Publish \/ Restart \/ Handled \/ UNCHANGED vars
  BY <1>1 DEF Publish, Restart, Handled, vars, Waits
<1>2. ASSUME NEW k \in Calls, Subscribe(k) \/ Send(k) \/ Unsubscribe(k) PROVE Waits'
  BY <1>2 DEF Subscribe, Send, Unsubscribe, Waits
<1>3. CASE Call
  BY <1>3 DEF Call, OpensWith, Waits
<1>4. CASE Receive
  BY <1>4 DEF Receive, Waits
<1>5. ASSUME NEW failed \in BOOLEAN, Ends(failed) PROVE Waits'
  BY <1>5 DEF Ends, Waits
<1>6. CASE Awakes
  BY <1>6 DEF Awakes, Doubled, Waits, TypeOK
<1> QED BY <1>1, <1>2, <1>3, <1>4, <1>5, <1>6 DEF Next, Breaks, HandleFails

LEMMA ConnectedStep == TypeOK /\ ConnectedIsTrue /\ [Next]_vars => ConnectedIsTrue'
<1> SUFFICES ASSUME TypeOK, ConnectedIsTrue, [Next]_vars PROVE ConnectedIsTrue'
  OBVIOUS
<1>1. CASE Publish \/ Restart \/ Handled \/ Awakes \/ UNCHANGED vars
  BY <1>1 DEF Publish, Restart, Handled, Awakes, vars, ConnectedIsTrue
<1>2. ASSUME NEW k \in Calls, Subscribe(k) \/ Send(k) \/ Unsubscribe(k)
      PROVE  ConnectedIsTrue'
  BY <1>2 DEF Subscribe, Send, Unsubscribe, ConnectedIsTrue
<1>3. CASE Call
  BY <1>3 DEF Call, ConnectedIsTrue
<1>4. CASE Receive
  <2>1. Head(wire) \in Nat
    BY <1>4, TailKeeps DEF Receive, TypeOK
  <2>2. Len(got') = Len(got) + 1 /\ Len(got) \in Nat
    BY <1>4, <2>1, AppendKeeps, LenProperties DEF Receive, TypeOK
  <2>3. got' # <<>>
    BY <2>2, EmptyInLine
  <2>4. link' = "handling"
    BY <1>4 DEF Receive
  <2> QED BY <2>3, <2>4 DEF ConnectedIsTrue
<1>5. ASSUME NEW failed \in BOOLEAN, Ends(failed) PROVE ConnectedIsTrue'
  BY <1>5 DEF Ends, EndsWith, ConnectedIsTrue
<1> QED BY <1>1, <1>2, <1>3, <1>4, <1>5 DEF Next, Breaks, HandleFails
-----------------------------------------------------------------------------
(* The order.                                                              *)

\* A published item is younger than all others, and what a full queue drops
\* leaves the rest in order.
LEMMA QueuedInLine ==
  ASSUME TypeOK, NEW k \in Calls, Increasing(queue[k]), Among(queue[k], offered)
  PROVE  LET new == Queued(k, offered + 1)
         IN  /\ Increasing(new) /\ Among(new, offered + 1)
             /\ \A t \in Seq(Nat) :
                  Among(t, offered) /\ Before(t, queue[k]) => Before(t, new)
<1> DEFINE n == offered + 1
<1>1. queue[k] \in Seq(Nat) /\ offered \in Nat /\ n \in Nat /\ n \in 1..n
      /\ Len(queue[k]) \in Nat
  BY LenProperties DEF TypeOK
<1>2. ASSUME NEW s \in Seq(Nat), Among(s, offered)
      PROVE  Among(s, n) /\ \A i \in 1..Len(s) : s[i] < n
  BY <1>1, <1>2 DEF Among
<1>3. ASSUME NEW s \in Seq(Nat), Increasing(s), Among(s, offered)
      PROVE  /\ Increasing(Append(s, n)) /\ Among(Append(s, n), n)
             /\ \A t \in Seq(Nat) :
                  Among(t, offered) /\ Before(t, s) => Before(t, Append(s, n))
  BY <1>1, <1>2, <1>3, AppendKeeps
<1>4. CASE Full(k)
  <2>1. queue[k] # <<>>
    BY <1>1, <1>4, EmptyInLine, FeedAssumption DEF Full
  <2> DEFINE rest == Tail(queue[k])
  <2>2. rest \in Seq(Nat) /\ Increasing(rest) /\ Among(rest, offered)
    BY <1>1, <2>1, TailKeeps
  <2>3. \A t \in Seq(Nat) : Before(t, queue[k]) => Before(t, rest)
    BY <1>1, <2>1, TailKeeps
  <2>4. Queued(k, n) = Append(rest, n) \/ Queued(k, n) = queue[k]
    BY <1>4 DEF Queued
  <2> HIDE DEF rest, n
  <2>5. Increasing(Append(rest, n)) /\ Among(Append(rest, n), n)
    BY <2>2, <1>3
  <2>6. \A t \in Seq(Nat) :
          Among(t, offered) /\ Before(t, queue[k]) => Before(t, Append(rest, n))
    BY <2>2, <2>3, <1>3
  <2>7. Among(queue[k], n)
    BY <1>1, <1>2
  <2>8. Increasing(Queued(k, n)) /\ Among(Queued(k, n), n)
    BY <2>4, <2>5, <2>7
  <2>9. \A t \in Seq(Nat) :
          Among(t, offered) /\ Before(t, queue[k]) => Before(t, Queued(k, n))
    BY <2>4, <2>6
  <2> QED BY <2>8, <2>9 DEF n
<1>5. CASE ~Full(k)
  <2>1. Queued(k, n) = Append(queue[k], n)
    BY <1>5 DEF Queued
  <2> HIDE DEF n
  <2>2. /\ Increasing(Queued(k, n)) /\ Among(Queued(k, n), n)
        /\ \A t \in Seq(Nat) :
             Among(t, offered) /\ Before(t, queue[k]) => Before(t, Queued(k, n))
    BY <2>1, <1>1, <1>3
  <2> QED BY <2>2 DEF n
<1> QED BY <1>4, <1>5

LEMMA InLineStep == TypeOK /\ Idle /\ InLine /\ [Next]_vars => InLine'
<1> SUFFICES ASSUME TypeOK, Idle, InLine, [Next]_vars PROVE InLine'
  OBVIOUS
<1>0. /\ got \in Seq(Nat) /\ wire \in Seq(Nat) /\ offered \in Nat
      /\ calls \in 0..MaxCalls /\ MaxCalls \in Nat
      /\ \A k \in Calls : queue[k] \in Seq(Nat)
  BY FeedAssumption DEF TypeOK
<1>1. CASE Publish
  <2>1. \A s \in Seq(Nat) : Among(s, offered) => Among(s, offered + 1)
    BY <1>0 DEF Among
  <2>2. UNCHANGED <<got, wire, calls>> /\ offered' = offered + 1
    BY <1>1 DEF Publish
  <2>3. \A k \in Calls : queue'[k] = Queued(k, offered + 1) \/ queue'[k] = queue[k]
    BY <1>1 DEF Publish
  <2>4. Among(got, offered + 1) /\ Among(wire, offered + 1)
    BY <2>1, <1>0 DEF InLine
  <2>5. ASSUME NEW k \in Calls
        PROVE  /\ Increasing(queue'[k]) /\ Among(queue'[k], offered + 1)
               /\ k = calls => Before(got, queue'[k]) /\ Before(wire, queue'[k])
    <3>1. Increasing(queue[k]) /\ Among(queue[k], offered)
      BY DEF InLine
    <3>2. Among(got, offered) /\ Among(wire, offered)
      BY DEF InLine
    <3>3. k = calls => Before(got, queue[k]) /\ Before(wire, queue[k])
      BY DEF InLine
    <3>4. CASE queue'[k] = queue[k]
      BY <3>1, <3>3, <3>4, <2>1, <1>0
    <3>5. CASE queue'[k] = Queued(k, offered + 1)
      BY <3>1, <3>2, <3>3, <3>5, <1>0, QueuedInLine
    <3> QED BY <3>4, <3>5, <2>3
  <2> QED BY <2>2, <2>4, <2>5 DEF InLine
<1>2. CASE Restart
  <2>1. \A k \in Calls : queue'[k] = <<>>
    BY <1>2 DEF Restart
  <2> QED BY <1>2, <2>1, EmptyInLine DEF Restart, InLine
<1>3. ASSUME NEW k \in Calls, Subscribe(k) \/ Unsubscribe(k) PROVE InLine'
  <2>1. \A i \in Calls : queue'[i] = <<>> \/ queue'[i] = queue[i]
    BY <1>3 DEF Subscribe, Backlog, Unsubscribe, TypeOK
  <2>2. UNCHANGED <<got, wire, calls, offered>>
    BY <1>3 DEF Subscribe, Unsubscribe
  <2> QED BY <2>1, <2>2, EmptyInLine DEF InLine
<1>4. ASSUME NEW k \in Calls, Send(k) PROVE InLine'
  <2> DEFINE item == Head(queue[k])
             rest == Tail(queue[k])
  <2>1. queue[k] # <<>> /\ queue[k] \in Seq(Nat)
    BY <1>4, <1>0 DEF Send
  <2>2. UNCHANGED <<got, calls, offered>>
    BY <1>4 DEF Send
  <2>3. /\ rest \in Seq(Nat) /\ item \in Nat /\ item \in 1..offered
        /\ Increasing(rest) /\ Among(rest, offered)
        /\ \A j \in 1..Len(rest) : item < rest[j]
    BY <2>1, <1>0, TailKeeps DEF InLine
  <2>4. \A i \in Calls : queue'[i] = IF i = k THEN rest ELSE queue[i]
    BY <1>4 DEF Send, TypeOK
  <2>5. k = calls =>
          /\ Before(got, rest) /\ Before(wire, rest)
          /\ \A j \in 1..Len(got) : got[j] < item
          /\ \A j \in 1..Len(wire) : wire[j] < item
    BY <2>1, <1>0, TailKeeps DEF InLine
  <2>6. CASE UNCHANGED wire
    <3> HIDE DEF rest, item
    <3> QED BY <2>2, <2>3, <2>4, <2>5, <2>6 DEF InLine
  <2>7. CASE k = calls /\ wire' = Append(wire, item)
    <3> HIDE DEF rest, item
    <3>1. Increasing(wire') /\ Among(wire', offered)
      BY <2>3, <2>5, <2>7, <1>0, AppendKeeps DEF InLine
    <3>2. Before(got, wire') /\ Before(wire', rest)
      BY <2>3, <2>5, <2>7, <1>0, AppendKeeps DEF InLine
    <3> QED BY <2>2, <2>3, <2>4, <2>5, <2>7, <3>1, <3>2 DEF InLine
  <2> QED BY <1>4, <2>6, <2>7 DEF Send, Attended
<1>5. CASE Call
  <2>1. /\ wire' = <<>> /\ calls' = calls + 1 /\ calls < MaxCalls
        /\ UNCHANGED <<got, queue, offered>>
    BY <1>5 DEF Call
  <2>2. calls + 1 \in Calls /\ calls + 1 > calls
    BY <2>1, <1>0
  <2>3. queue[calls + 1] = <<>>
    BY <2>2 DEF Idle
  <2> QED BY <2>1, <2>3, EmptyInLine DEF InLine
<1>6. CASE Receive
  <2> DEFINE item == Head(wire)
             rest == Tail(wire)
  <2>1. /\ wire # <<>> /\ got' = Append(got, item) /\ wire' = rest
        /\ UNCHANGED <<queue, calls, offered>>
    BY <1>6 DEF Receive
  <2>2. /\ rest \in Seq(Nat) /\ item \in Nat /\ item \in 1..offered
        /\ Increasing(rest) /\ Among(rest, offered)
        /\ \A j \in 1..Len(rest) : item < rest[j]
        /\ Before(got, rest) /\ \A j \in 1..Len(got) : got[j] < item
    BY <2>1, <1>0, TailKeeps DEF InLine
  <2>3. ASSUME NEW k \in Calls, k = calls
        PROVE  Before(rest, queue[k]) /\ \A j \in 1..Len(queue[k]) : item < queue[k][j]
    BY <2>1, <2>3, <1>0, TailKeeps DEF InLine
  <2> HIDE DEF item, rest
  <2>4. Increasing(got') /\ Among(got', offered) /\ Before(got', rest)
    BY <2>1, <2>2, <1>0, AppendKeeps DEF InLine
  <2>5. ASSUME NEW k \in Calls, k = calls PROVE Before(got', queue[k])
    BY <2>1, <2>2, <2>3, <2>5, <1>0, AppendKeeps DEF InLine
  <2> QED BY <2>1, <2>2, <2>3, <2>4, <2>5 DEF InLine
<1>7. CASE Handled \/ Awakes \/ UNCHANGED vars
  BY <1>7 DEF Handled, Awakes, vars, InLine
<1>8. ASSUME NEW failed \in BOOLEAN, Ends(failed) PROVE InLine'
  BY <1>8, EmptyInLine DEF Ends, InLine
<1> QED BY <1>1, <1>2, <1>3, <1>4, <1>5, <1>6, <1>7, <1>8
        DEF Next, Breaks, HandleFails
-----------------------------------------------------------------------------
(* The account.                                                            *)

\* A full queue exchanges one item for another or keeps what it has.
LEMMA QueuedLength ==
  ASSUME TypeOK, NEW k \in Calls
  PROVE  Len(Queued(k, offered + 1))
           = IF Full(k) THEN Len(queue[k]) ELSE Len(queue[k]) + 1
<1>1. queue[k] \in Seq(Nat) /\ offered + 1 \in Nat /\ Len(queue[k]) \in Nat
  BY LenProperties DEF TypeOK
<1>2. CASE Full(k)
  <2>1. queue[k] # <<>>
    BY <1>1, <1>2, EmptyInLine, FeedAssumption DEF Full
  <2>2. Tail(queue[k]) \in Seq(Nat) /\ Len(Tail(queue[k])) = Len(queue[k]) - 1
    BY <1>1, <2>1, TailKeeps
  <2>3. Len(Append(Tail(queue[k]), offered + 1)) = Len(queue[k]) - 1 + 1
    BY <1>1, <2>2, AppendKeeps
  <2> QED BY <1>1, <1>2, <2>3 DEF Queued
<1>3. CASE ~Full(k)
  BY <1>1, <1>3, AppendKeeps DEF Queued
<1> QED BY <1>2, <1>3

\* An account in which one entry, or the sum of two, is replaced.
LEMMA Rebalanced ==
  ASSUME NEW g \in Nat, NEW h \in Nat, NEW w \in Nat, NEW q \in Nat, NEW f \in Nat,
         NEW x \in Nat, NEW y \in Nat, NEW due \in Int,
         Balanced(due, g, h, w, q, f)
  PROVE  /\ x + y = w + q => Balanced(due, g, h, x, y, f)
         /\ x + y = g + w => Balanced(due, x, h, y, q, f)
         /\ x + y = q + f + 1 => Balanced(due + 1, g, h, w, x, y)
BY DEF Balanced

\* An item that goes from the head of one line to the end of another.
LEMMA HandOver ==
  ASSUME NEW s \in Seq(Nat), NEW t \in Seq(Nat), s # <<>>
  PROVE  /\ Len(Append(t, Head(s))) + Len(Tail(s)) = Len(t) + Len(s)
         /\ Len(Append(t, Head(s))) \in Nat /\ Len(Tail(s)) \in Nat
<1>1. Head(s) \in Nat /\ Len(Tail(s)) = Len(s) - 1 /\ Len(s) \in Nat /\ Len(t) \in Nat
  BY TailKeeps, LenProperties
<1>2. Len(Append(t, Head(s))) = Len(t) + 1
  BY <1>1, AppendKeeps
<1> QED BY <1>1, <1>2

LEMMA AccountStep == TypeOK /\ Idle /\ Account /\ [Next]_vars => Account'
<1> SUFFICES ASSUME TypeOK, Idle, Account, [Next]_vars PROVE Account'
  OBVIOUS
<1>0. /\ got \in Seq(Nat) /\ wire \in Seq(Nat) /\ offered \in Nat /\ had \in Nat
      /\ calls \in 0..MaxCalls /\ MaxCalls \in Nat
      /\ Len(got) \in Nat /\ Len(wire) \in Nat
      /\ \A k \in Calls : /\ queue[k] \in Seq(Nat) /\ Len(queue[k]) \in Nat
                          /\ since[k] \in Nat /\ full[k] \in Nat
  BY FeedAssumption, LenProperties DEF TypeOK
<1>t. /\ Len(got') \in Nat /\ Len(wire') \in Nat
      /\ \A k \in Calls : Len(queue'[k]) \in Nat /\ full'[k] \in Nat
  <2>1. TypeOK'
    BY TypeStep
  <2> QED BY <2>1, LenProperties DEF TypeOK
<1>1. CASE Publish
  <2>1. /\ UNCHANGED <<call, since, calls, link, wire, got, had>>
        /\ offered' = offered + 1
    BY <1>1 DEF Publish
  <2>2. \A k \in Calls : call[k] # "open" => full'[k] = full[k]
    BY <1>1 DEF Publish, Listens, TypeOK
  <2>3. ASSUME NEW k \in Calls, call[k] = "open"
        PROVE  Len(queue'[k]) + full'[k] = Len(queue[k]) + full[k] + 1
    <3>1. queue'[k] = Queued(k, offered + 1)
          /\ full'[k] = IF Full(k) THEN full[k] + 1 ELSE full[k]
      BY <1>1, <2>3 DEF Publish, Listens, TypeOK
    <3>2. Len(queue'[k]) = IF Full(k) THEN Len(queue[k]) ELSE Len(queue[k]) + 1
      BY <3>1, QueuedLength
    <3>3. Len(queue[k]) \in Nat /\ full[k] \in Nat
      BY <1>0
    <3>4. CASE Full(k)
      BY <3>1, <3>2, <3>3, <3>4
    <3>5. CASE ~Full(k)
      BY <3>1, <3>2, <3>3, <3>5
    <3> QED BY <3>4, <3>5
  <2>4. ASSUME NEW k \in Calls, k = calls, Attended(k), call[k] = "open"
        PROVE  Balanced(offered' - since[k], Len(got), had,
                        Len(wire), Len(queue'[k]), full'[k])
    <3>1. Balanced(offered - since[k], Len(got), had,
                   Len(wire), Len(queue[k]), full[k])
      BY <2>4 DEF Account
    <3>k. /\ offered \in Nat /\ since[k] \in Nat /\ Len(got) \in Nat /\ had \in Nat
          /\ Len(wire) \in Nat /\ Len(queue[k]) \in Nat /\ full[k] \in Nat
          /\ Len(queue'[k]) \in Nat /\ full'[k] \in Nat
      BY <1>0, <1>t
    <3>2. offered - since[k] \in Int /\ offered' - since[k] = (offered - since[k]) + 1
      BY <2>1, <3>k
    <3>3. Len(queue'[k]) + full'[k] = Len(queue[k]) + full[k] + 1
      BY <2>3, <2>4
    <3>4. Balanced((offered - since[k]) + 1, Len(got), had,
                   Len(wire), Len(queue'[k]), full'[k])
      BY <3>1, <3>2, <3>3, <3>k, Rebalanced
    <3> QED BY <3>2, <3>4
  <2> QED BY <2>1, <2>2, <2>4 DEF Account, Attended
<1>2. CASE Restart
  <2>1. \A k \in Calls : (call'[k] = "none" /\ call[k] = "none") \/ call'[k] = "closed"
    BY <1>2 DEF Restart
  <2> QED BY <1>2, <2>1 DEF Restart, Account
<1>3. ASSUME NEW k \in Calls, Subscribe(k) PROVE Account'
  <2>1. /\ call[k] = "sent" /\ call'[k] = "open" /\ since'[k] = offered
        /\ queue'[k] = <<>>
        /\ \A i \in Calls \ {k} : /\ call'[i] = call[i] /\ since'[i] = since[i]
                                  /\ queue'[i] = queue[i]
        /\ UNCHANGED <<offered, full, calls, link, wire, got, had>>
    BY <1>3 DEF Subscribe, Backlog, TypeOK
  <2>2. ASSUME k = calls, Attended(k)
        PROVE  wire = <<>> /\ had = Len(got) /\ full[k] = 0
    <3>1. k >= calls
      BY <2>2, <1>0
    <3> QED BY <2>1, <2>2, <3>1 DEF Account
  <2>3. ASSUME k = calls, Attended(k)
        PROVE  Balanced(offered - since'[k], Len(got), had,
                        Len(wire), Len(queue'[k]), full[k])
    <3>1. Len(wire) = 0 /\ Len(queue'[k]) = 0 /\ offered - since'[k] = 0
      BY <2>1, <2>2, <2>3, <1>0, EmptyInLine
    <3>2. had = Len(got) /\ full[k] = 0
      BY <2>2, <2>3
    <3> QED BY <3>1, <3>2, <1>0 DEF Balanced
  <2> QED BY <2>1, <2>3 DEF Account, Attended
<1>4. ASSUME NEW k \in Calls, Send(k) PROVE Account'
  <2>1. /\ call[k] = "open" /\ queue[k] # <<>>
        /\ queue'[k] = Tail(queue[k])
        /\ \A i \in Calls \ {k} : queue'[i] = queue[i]
        /\ UNCHANGED <<call, since, offered, full, calls, link, got, had>>
    BY <1>4 DEF Send, TypeOK
  <2>2. CASE Attended(k)
    <3>1. wire' = Append(wire, Head(queue[k])) /\ k = calls
      BY <1>4, <2>2 DEF Send, Attended
    <3>k. /\ offered \in Nat /\ since[k] \in Nat /\ Len(got) \in Nat /\ had \in Nat
          /\ Len(wire) \in Nat /\ Len(queue[k]) \in Nat /\ full[k] \in Nat
          /\ Len(queue'[k]) \in Nat /\ Len(wire') \in Nat
      BY <1>0, <1>t
    <3>3. Balanced(offered - since[k], Len(got), had,
                   Len(wire), Len(queue[k]), full[k])
      BY <2>1, <2>2, <3>1 DEF Account
    <3>4. Len(wire') + Len(queue'[k]) = Len(wire) + Len(queue[k])
      BY <2>1, <3>1, <1>0, HandOver
    <3>5. offered - since[k] \in Int
      BY <3>k
    <3>6. Balanced(offered - since[k], Len(got), had,
                   Len(wire'), Len(queue'[k]), full[k])
      BY <3>3, <3>4, <3>5, <3>k, Rebalanced
    <3> QED BY <2>1, <3>1, <3>6, <1>0 DEF Account, Attended
  <2>3. CASE ~Attended(k)
    <3>1. wire' = wire
      BY <1>4, <2>3 DEF Send
    <3>2. \A i \in Calls : i = calls /\ Attended(i) => queue'[i] = queue[i]
      BY <2>1, <2>3
    <3> QED BY <2>1, <3>1, <3>2 DEF Account, Attended
  <2> QED BY <2>2, <2>3
<1>5. ASSUME NEW k \in Calls, Unsubscribe(k) PROVE Account'
  <2>1. /\ call'[k] = "closed"
        /\ \A i \in Calls \ {k} : call'[i] = call[i] /\ queue'[i] = queue[i]
        /\ UNCHANGED <<offered, since, full, calls, link, wire, got, had>>
    BY <1>5 DEF Unsubscribe, TypeOK
  <2> QED BY <2>1 DEF Account, Attended
<1>6. CASE Call
  <2>1. /\ wire' = <<>> /\ had' = Len(got) /\ got' = got /\ full' = full
        /\ calls' = calls + 1 /\ calls < MaxCalls
        /\ call' = [call EXCEPT ![calls + 1] = "sent"]
    BY <1>6 DEF Call
  <2>2. calls + 1 \in Calls
    BY <2>1, <1>0
  <2>3. call[calls + 1] = "none"
    BY <2>2, <1>0 DEF Idle
  <2>4. \A k \in Calls : call'[k] = IF k = calls + 1 THEN "sent" ELSE call[k]
    BY <2>1 DEF TypeOK
  <2>5. \A k \in Calls : k >= calls' => k >= calls
    BY <2>1, <1>0
  <2>6. \A k \in Calls : k >= calls' /\ call'[k] \in {"none", "sent"} => full'[k] = 0
    BY <2>1, <2>2, <2>3, <2>4, <2>5, <1>0 DEF Account
  <2>7. \A k \in Calls : k = calls' => call'[k] = "sent"
    BY <2>1, <2>4
  <2> QED BY <2>1, <2>6, <2>7 DEF Account
<1>7. CASE Receive
  <2>1. /\ link = "reading" /\ link' = "handling" /\ wire # <<>>
        /\ got' = Append(got, Head(wire)) /\ wire' = Tail(wire)
        /\ UNCHANGED <<offered, call, queue, since, full, calls, had>>
    BY <1>7 DEF Receive
  <2>3. Len(got') + Len(wire') = Len(got) + Len(wire)
    BY <2>1, <1>0, HandOver
  <2>4. ASSUME NEW k \in Calls, k = calls
        PROVE  /\ call[k] # "sent"
               /\ call[k] = "open" =>
                    Balanced(offered - since[k], Len(got'), had,
                             Len(wire'), Len(queue[k]), full[k])
    <3>1. Attended(k)
      BY <2>1, <2>4 DEF Attended
    <3>2. call[k] # "sent"
      BY <2>1, <2>4, <3>1 DEF Account
    <3>3. call[k] = "open" =>
            Balanced(offered - since[k], Len(got), had,
                     Len(wire), Len(queue[k]), full[k])
      BY <2>4, <3>1 DEF Account
    <3>k. /\ offered \in Nat /\ since[k] \in Nat /\ Len(got) \in Nat /\ had \in Nat
          /\ Len(wire) \in Nat /\ Len(queue[k]) \in Nat /\ full[k] \in Nat
          /\ Len(got') \in Nat /\ Len(wire') \in Nat
      BY <1>0, <1>t
    <3>4. offered - since[k] \in Int
      BY <3>k
    <3>5. call[k] = "open" =>
            Balanced(offered - since[k], Len(got'), had,
                     Len(wire'), Len(queue[k]), full[k])
      BY <2>3, <3>3, <3>4, <3>k, Rebalanced
    <3> QED BY <3>2, <3>5
  <2> QED BY <2>1, <2>4 DEF Account
<1>8. CASE Handled
  <2>1. link = "handling" /\ link' = "reading"
        /\ UNCHANGED <<offered, call, queue, since, full, calls, wire, got, had>>
    BY <1>8 DEF Handled
  <2> QED BY <2>1 DEF Account, Attended
<1>9. CASE Awakes
  BY <1>9 DEF Awakes, Account, Attended
<1>10. ASSUME NEW failed \in BOOLEAN, Ends(failed) PROVE Account'
  BY <1>10 DEF Ends, Account, Attended
<1>11. CASE UNCHANGED vars
  BY <1>11 DEF vars, Account, Attended
<1> QED BY <1>1, <1>2, <1>3, <1>4, <1>5, <1>6, <1>7, <1>8, <1>9, <1>10, <1>11
        DEF Next, Breaks, HandleFails
-----------------------------------------------------------------------------
(* The theorems.                                                           *)

LEMMA InitIInv == Init => IInv
<1> SUFFICES ASSUME Init PROVE IInv
  OBVIOUS
<1> USE FeedAssumption
<1>1. TypeOK
  <2>1. queue \in [Calls -> Seq(Nat)] /\ wire \in Seq(Nat) /\ got \in Seq(Nat)
    BY EmptyInLine DEF Init
  <2>2. /\ call \in [Calls -> {"none", "sent", "open", "closed"}]
        /\ since \in [Calls -> Nat] /\ full \in [Calls -> Nat]
    BY DEF Init
  <2>3. /\ hop \in {"audio", "transcripts"}
        /\ link \in {"start", "reading", "handling", "sleeping"}
        /\ connected \in BOOLEAN
    BY DEF Init
  <2>4. /\ offered \in Nat /\ calls \in 0..MaxCalls /\ had \in Nat
        /\ backoff \in InitialBackoff..MaxBackoff /\ waited \in 0..MaxBackoff
    BY DEF Init
  <2> QED BY <2>1, <2>2, <2>3, <2>4 DEF TypeOK
<1>2. Idle
  BY DEF Init, Idle
<1>3. InLine
  <2>1. got = <<>> /\ wire = <<>> /\ \A k \in Calls : queue[k] = <<>>
    BY DEF Init
  <2> QED BY <2>1, EmptyInLine DEF InLine
<1>4. Account
  <2>1. link = "start" /\ full = [k \in Calls |-> 0]
    BY DEF Init
  <2> QED BY <2>1 DEF Account, Attended
<1>5. Waits /\ ConnectedIsTrue
  BY DEF Init, Waits, ConnectedIsTrue
<1> QED BY <1>1, <1>2, <1>3, <1>4, <1>5 DEF IInv

LEMMA StepIInv == IInv /\ [Next]_vars => IInv'
BY TypeStep, IdleStep, InLineStep, AccountStep, WaitsStep, ConnectedStep DEF IInv

LEMMA Invariance == Spec => []IInv
BY InitIInv, StepIInv, PTL DEF Spec

\* Streams, queues, waits and items keep their types, for every bound, capacity
\* and pair of waits.
THEOREM TypeCorrect == Spec => []TypeOK
<1>1. IInv => TypeOK
  BY DEF IInv
<1> QED BY <1>1, Invariance, PTL

\* While a stream lasts, an item is lost only to a full queue, and counted.
THEOREM LossesAreCounted == Spec => []LossesAreLags
<1>1. IInv => LossesAreLags
  <2> SUFFICES ASSUME IInv, calls # 0, Attended(calls), call[calls] = "open"
               PROVE  offered - since[calls]
                        = Len(got) - had + Len(wire) + Len(queue[calls]) + full[calls]
    BY DEF LossesAreLags
  <2>1. calls \in Calls
    BY FeedAssumption DEF IInv, TypeOK
  <2> QED BY <2>1 DEF IInv, Account, Balanced
<1> QED BY <1>1, Invariance, PTL

\* The status never shows a connection that has ended, or one over which nothing
\* has been received.
THEOREM StatusIsTrue == Spec => []ConnectedIsTrue
<1>1. IInv => ConnectedIsTrue
  BY DEF IInv
<1> QED BY <1>1, Invariance, PTL

\* Whatever the initial and the longest wait are, storage waits longer each time
\* until something is received.
THEOREM StorageWaitsLonger == Spec => []StorageBacksOff
<1>1. IInv => StorageBacksOff
  BY DEF IInv, Waits, StorageBacksOff, WaitsGrow
<1> QED BY <1>1, Invariance, PTL

\* Whatever is received is the oldest of what the client does not have, and was
\* published.
LEMMA ReceivesNext ==
  ASSUME IInv, Receive
  PROVE  /\ Head(wire) \in 1..offered
         /\ \A i \in DOMAIN got : got[i] < Head(wire)
         /\ got' = Append(got, Head(wire))
         /\ offered' = offered
<1>1. wire # <<>> /\ got' = Append(got, Head(wire)) /\ offered' = offered
  BY DEF Receive
<1>2. got \in Seq(Nat) /\ wire \in Seq(Nat) /\ offered \in Nat
  BY DEF IInv, TypeOK
<1>3. Among(wire, offered) /\ Before(got, wire)
  BY DEF IInv, InLine
<1>4. DOMAIN got = 1..Len(got)
  BY <1>2, LenProperties
<1> QED BY <1>1, <1>2, <1>3, <1>4, TailKeeps

\* What the client receives is in the order of publication and without
\* repetition, across any number of streams, restarts and full queues.
THEOREM Implementation == Spec => ImplementsFeed
<1>1. Init => Feed!Init
  BY DEF Init, Feed!Init
<1>2. IInv /\ [Next]_vars => [Feed!Offer \/ Feed!Deliver]_<<offered, got>>
  <2> SUFFICES ASSUME IInv, [Next]_vars
               PROVE  Feed!Offer \/ Feed!Deliver \/ UNCHANGED <<offered, got>>
    OBVIOUS
  <2>1. CASE Publish
    BY <2>1 DEF Publish, Feed!Offer
  <2>2. CASE Receive
    BY <2>2, ReceivesNext DEF Feed!Deliver
  <2>3. ASSUME NEW k \in Calls, Subscribe(k) \/ Send(k) \/ Unsubscribe(k)
        PROVE  UNCHANGED <<offered, got>>
    BY <2>3 DEF Subscribe, Send, Unsubscribe
  <2>4. CASE Restart \/ Call \/ Handled \/ Awakes \/ UNCHANGED vars
    BY <2>4 DEF Restart, Call, Handled, Awakes, vars
  <2>5. ASSUME NEW failed \in BOOLEAN, Ends(failed)
        PROVE  UNCHANGED <<offered, got>>
    BY <2>5 DEF Ends
  <2> QED BY <2>1, <2>2, <2>3, <2>4, <2>5 DEF Next, Breaks, HandleFails
<1> QED BY <1>1, <1>2, Invariance, PTL DEF Spec, ImplementsFeed, Feed!Spec

=============================================================================
