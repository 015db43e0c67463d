------------------------- MODULE MeetingStoreProofs -------------------------
(***************************************************************************)
(* The safety properties of MeetingStore, for all sets of meetings,        *)
(* segments and engines and any number of DELETE requests in flight.       *)
(*                                                                         *)
(* The keys hold because the database enforces them.  The counter, and the *)
(* rows of other meetings, rest on the rows that a delete loaded being     *)
(* still rows of its meeting when it commits: that is so for a delete that *)
(* no other one has overtaken (it is not late), and a late one harms only  *)
(* the meetings that it takes a row from.                                  *)
(***************************************************************************)
EXTENDS MeetingStore, FiniteSetTheorems, TLAPS

USE DEF historyVars

-----------------------------------------------------------------------------
(* The inductive invariants.                                               *)

RowsBelongToMeetings == \A r \in DOMAIN rows : rows[r].m \in meetings

SummariesBelongToMeetings ==
  \A m \in Meetings : summary[m] # 0 => m \in meetings

KeysAreUnique ==
  \A r, q \in DOMAIN rows :
    rows[r].m = rows[q].m /\ rows[r].seg = rows[q].seg => r = q

\* What the subscriber read of the engine is still true, unless it was that
\* the meeting has one.
EngineAsRead ==
  sub.pc = "read" /\ sub.noEngine => engine[sub.m] = NoEngine

StoreInv ==
  /\ TypeOK
  /\ RowsBelongToMeetings
  /\ SummariesBelongToMeetings
  /\ KeysAreUnique
  /\ EngineAsRead

CountsAreExact ==
  \A m \in Meetings \ hit : count[m] = Cardinality(RowsOf(m))

\* The rows a delete will remove are rows of its meeting, unless it is late.
LoadedRowsAreIts ==
  \A d \in Deleters \ late : del[d].pc = "loaded" =>
    \A r \in del[d].ids : r \in DOMAIN rows /\ rows[r].m = del[d].m

RowsInv == StoreInv /\ CountsAreExact /\ LoadedRowsAreIts

-----------------------------------------------------------------------------
(* One upsert.                                                             *)

\* The rows fresh are new and hold the inserts of p, one each; the others
\* are updated.
Adds(m, p, fresh, at) ==
  /\ fresh \subseteq RowIds
  /\ IsFiniteSet(fresh)
  /\ fresh \cap DOMAIN rows = {}
  /\ Cardinality(fresh) = Cardinality(Inserts(m, p))
  /\ at \in [fresh -> Inserts(m, p)]
  /\ \A r, q \in fresh : at[r] = at[q] => r = q
  /\ rows' = [r \in DOMAIN rows \cup fresh |->
                IF r \in fresh
                THEN [m |-> m, seg |-> at[r], text |-> p[at[r]]]
                ELSE Updated(rows[r], m, p)]

LEMMA DeliveryIsFunction ==
  ASSUME NEW p \in Deliveries
  PROVE  p \in [DOMAIN p -> Texts] /\ DOMAIN p \subseteq SegIds
BY DEF Deliveries

LEMMA OneSegmentDelivery ==
  ASSUME NEW s \in SegIds, NEW t \in Texts
  PROVE  [x \in {s} |-> t] \in Deliveries
<1>1. {s} \in (SUBSET SegIds) \ {{}}
  OBVIOUS
<1>2. [x \in {s} |-> t] \in [{s} -> Texts]
  OBVIOUS
<1> QED
  BY <1>1, <1>2 DEF Deliveries

LEMMA InsertsAreFinite ==
  ASSUME NEW m, NEW p \in Deliveries
  PROVE  /\ IsFiniteSet(Inserts(m, p))
         /\ Cardinality(Inserts(m, p)) \in Nat
<1>1. Inserts(m, p) \in SUBSET SegIds
  BY DeliveryIsFunction DEF Inserts
<1>2. IsFiniteSet(Inserts(m, p))
  BY <1>1, FS_Subset, StoreAssumption
<1> QED
  BY <1>2, FS_CardinalityType

LEMMA UpsertAdds ==
  ASSUME TypeOK, NEW m \in Meetings, NEW p \in Deliveries, Upsert(m, p)
  PROVE  \E fresh, at : Adds(m, p, fresh, at)
<1> DEFINE k == Cardinality(Inserts(m, p))
<1>1. k \in Nat
  BY InsertsAreFinite
<1> PICK last \in 0..MaxRow :
      /\ IsLastRow(last)
      /\ last + k <= MaxRow
      /\ \E at \in [NewRowIds(last, k) -> Inserts(m, p)] :
           /\ \A r, q \in NewRowIds(last, k) : at[r] = at[q] => r = q
           /\ rows' = [r \in DOMAIN rows \cup NewRowIds(last, k) |->
                         IF r \in NewRowIds(last, k)
                         THEN [m |-> m, seg |-> at[r], text |-> p[at[r]]]
                         ELSE Updated(rows[r], m, p)]
  BY DEF Upsert
<1> DEFINE fresh == NewRowIds(last, k)
<1>2. MaxRow \in Nat /\ last \in Nat
  BY StoreAssumption
<1>3. fresh = (last + 1)..(last + k)
  BY DEF NewRowIds
<1>4. fresh \subseteq RowIds
  BY <1>1, <1>2, <1>3 DEF RowIds
<1>5. IsFiniteSet(fresh) /\ Cardinality(fresh) = k
  <2> HIDE DEF k
  <2>1. last + 1 \in Int /\ last + k \in Int
    BY <1>1, <1>2
  <2>2. /\ IsFiniteSet((last + 1)..(last + k))
        /\ Cardinality((last + 1)..(last + k))
             = IF last + 1 > last + k THEN 0 ELSE (last + k) - (last + 1) + 1
    BY <2>1, FS_Interval
  <2> QED
    BY <2>2, <1>1, <1>2, <1>3
<1>6. fresh \cap DOMAIN rows = {}
  <2>1. ASSUME NEW r \in DOMAIN rows PROVE r <= last
    BY <2>1 DEF IsLastRow
  <2>2. DOMAIN rows \subseteq Nat
    BY DEF TypeOK, RowIds
  <2> QED
    BY <2>1, <2>2, <1>1, <1>2, <1>3
<1> PICK at \in [fresh -> Inserts(m, p)] :
      /\ \A r, q \in fresh : at[r] = at[q] => r = q
      /\ rows' = [r \in DOMAIN rows \cup fresh |->
                    IF r \in fresh
                    THEN [m |-> m, seg |-> at[r], text |-> p[at[r]]]
                    ELSE Updated(rows[r], m, p)]
  OBVIOUS
<1>7. Adds(m, p, fresh, at)
  BY <1>4, <1>5, <1>6 DEF Adds
<1> QED
  BY <1>7

LEMMA UpdatedRow ==
  ASSUME NEW row \in Row, NEW m \in Meetings, NEW p \in Deliveries
  PROVE  /\ Updated(row, m, p) \in Row
         /\ Updated(row, m, p).m = row.m
         /\ Updated(row, m, p).seg = row.seg
         /\ Updated(row, m, p).text =
              IF row.m = m /\ row.seg \in DOMAIN p THEN p[row.seg] ELSE row.text
<1>1. row \in [m : Meetings, seg : SegIds, text : Texts]
  BY DEF Row
<1>2. CASE row.m = m /\ row.seg \in DOMAIN p
  <2>1. Updated(row, m, p) = [row EXCEPT !.text = p[row.seg]]
    BY <1>2 DEF Updated
  <2>2. p[row.seg] \in Texts
    BY <1>2, DeliveryIsFunction
  <2> QED
    BY <1>1, <1>2, <2>1, <2>2 DEF Row
<1>3. CASE ~(row.m = m /\ row.seg \in DOMAIN p)
  BY <1>1, <1>3 DEF Updated
<1> QED
  BY <1>2, <1>3

\* What the table holds after an upsert, row by row.
LEMMA AddsRows ==
  ASSUME TypeOK, NEW m \in Meetings, NEW p \in Deliveries,
         NEW fresh, NEW at, Adds(m, p, fresh, at)
  PROVE  /\ DOMAIN rows' = DOMAIN rows \cup fresh
         /\ \A r \in fresh :
              /\ rows'[r] \in Row
              /\ rows'[r].m = m
              /\ rows'[r].seg = at[r]
              /\ rows'[r].text = p[at[r]]
              /\ at[r] \in DOMAIN p /\ at[r] \notin SegsOf(m)
         /\ \A r \in DOMAIN rows :
              /\ rows'[r] \in Row
              /\ rows'[r].m = rows[r].m
              /\ rows'[r].seg = rows[r].seg
              /\ rows'[r].text =
                   IF rows[r].m = m /\ rows[r].seg \in DOMAIN p
                   THEN p[rows[r].seg] ELSE rows[r].text
<1>1. DOMAIN rows' = DOMAIN rows \cup fresh
  BY DEF Adds
<1>2. ASSUME NEW r \in fresh
      PROVE  /\ rows'[r] \in Row
             /\ rows'[r].m = m
             /\ rows'[r].seg = at[r]
             /\ rows'[r].text = p[at[r]]
             /\ at[r] \in DOMAIN p /\ at[r] \notin SegsOf(m)
  <2>1. at[r] \in DOMAIN p /\ at[r] \notin SegsOf(m)
    BY DEF Adds, Inserts
  <2>2. rows'[r] = [m |-> m, seg |-> at[r], text |-> p[at[r]]]
    BY DEF Adds
  <2>3. at[r] \in SegIds /\ p[at[r]] \in Texts
    BY <2>1, DeliveryIsFunction
  <2> QED
    BY <2>1, <2>2, <2>3 DEF Row
<1>3. ASSUME NEW r \in DOMAIN rows
      PROVE  /\ rows'[r] \in Row
             /\ rows'[r].m = rows[r].m
             /\ rows'[r].seg = rows[r].seg
             /\ rows'[r].text =
                  IF rows[r].m = m /\ rows[r].seg \in DOMAIN p
                  THEN p[rows[r].seg] ELSE rows[r].text
  <2>1. r \notin fresh
    BY DEF Adds
  <2>2. rows'[r] = Updated(rows[r], m, p)
    BY <2>1 DEF Adds
  <2>3. rows[r] \in Row
    BY DEF TypeOK
  <2> QED
    BY <2>2, <2>3, UpdatedRow
<1> QED
  BY <1>1, <1>2, <1>3

-----------------------------------------------------------------------------
(* Types.                                                                  *)

SubRead ==
  [pc : {"read"}, m : Meetings, seg : SegIds, text : Texts,
   engine : Engines, noEngine : BOOLEAN]

DelRead == [pc : {"read"}, m : Meetings, summary : 0..MaxSummaries]

DelLoaded ==
  [pc : {"loaded"}, m : Meetings, summary : 0..MaxSummaries, ids : SUBSET RowIds]

DelType == [pc : {"idle"}] \cup DelRead \cup DelLoaded

RowsType == DOMAIN rows \in SUBSET RowIds /\ rows \in [DOMAIN rows -> Row]

\* TypeOK with its parts named.
LEMMA TypeParts ==
  TypeOK <=>
    /\ meetings \in SUBSET Meetings
    /\ count \in [Meetings -> Nat]
    /\ engine \in [Meetings -> Engines \cup {NoEngine}]
    /\ RowsType
    /\ summary \in [Meetings -> 0..MaxSummaries]
    /\ lastSummary \in 0..MaxSummaries
    /\ sub \in [pc : {"idle"}] \cup SubRead
    /\ del \in [Deleters -> DelType]
    /\ late \in SUBSET Deleters
    /\ hit \in SUBSET Meetings
BY DEF TypeOK, RowsType, SubRead, DelType, DelRead, DelLoaded

LEMMA TypeIsInitial == Init => TypeOK
<1> SUFFICES ASSUME Init PROVE TypeOK
  OBVIOUS
<1>1. RowsType
  BY DEF Init, RowsType
<1>2. \A d \in Deleters : del[d] \in DelType
  BY DEF Init, DelType
<1>3. del \in [Deleters -> DelType]
  BY <1>2 DEF Init
<1>4. 0 \in 0..MaxSummaries /\ 0 \in Nat
  BY StoreAssumption
<1>5. /\ meetings \in SUBSET Meetings
      /\ count \in [Meetings -> Nat]
      /\ engine \in [Meetings -> Engines \cup {NoEngine}]
      /\ summary \in [Meetings -> 0..MaxSummaries]
      /\ lastSummary \in 0..MaxSummaries
      /\ sub \in [pc : {"idle"}]
      /\ late \in SUBSET Deleters /\ hit \in SUBSET Meetings
  BY <1>4 DEF Init
<1> QED
  BY <1>1, <1>3, <1>5, TypeParts

LEMMA UpsertType ==
  ASSUME TypeOK, NEW m \in Meetings, NEW p \in Deliveries, Upsert(m, p)
  PROVE  RowsType' /\ count' \in [Meetings -> Nat]
<1>1. PICK fresh, at : Adds(m, p, fresh, at)
  BY UpsertAdds
<1>2. DOMAIN rows' \in SUBSET RowIds
  <2>1. fresh \subseteq RowIds /\ DOMAIN rows' = DOMAIN rows \cup fresh
    BY <1>1 DEF Adds
  <2> QED
    BY <2>1 DEF TypeOK
<1>3. \A r \in DOMAIN rows' : rows'[r] \in Row
  BY <1>1, AddsRows
<1>4. rows' \in [DOMAIN rows' -> Row]
  <2>1. rows' = [r \in DOMAIN rows' |-> rows'[r]]
    BY <1>1 DEF Adds
  <2> QED
    BY <2>1, <1>3
<1>5. count' \in [Meetings -> Nat]
  <2>1. count' = [count EXCEPT ![m] = CountAfter(m, p)]
    BY DEF Upsert
  <2>2. CountAfter(m, p) \in Nat
    <3>1. count[m] \in Nat /\ Cardinality(Inserts(m, p)) \in Nat
      BY InsertsAreFinite DEF TypeOK
    <3> QED
      BY <3>1 DEF CountAfter
  <2> QED
    BY <2>1, <2>2 DEF TypeOK
<1>6. RowsType'
  BY <1>2, <1>4 DEF RowsType
<1> QED
  BY <1>5, <1>6

\* What the pc of a request says about the fields it has.
LEMMA RequestFields ==
  ASSUME TypeOK
  PROVE  /\ sub.pc = "read" => sub \in SubRead
         /\ \A d \in Deleters :
              /\ del[d].pc = "read" => del[d] \in DelRead
              /\ del[d].pc = "loaded" => del[d] \in DelLoaded
<1>1. sub.pc = "read" => sub \in SubRead
  <2>1. sub \in [pc : {"idle"}] => sub.pc = "idle"
    OBVIOUS
  <2> QED
    BY <2>1, TypeParts
<1>2. ASSUME NEW d \in Deleters
      PROVE  /\ del[d].pc = "read" => del[d] \in DelRead
             /\ del[d].pc = "loaded" => del[d] \in DelLoaded
  <2>1. del[d] \in [pc : {"idle"}] \cup DelRead \cup DelLoaded
    BY TypeParts DEF DelType
  <2>2. /\ del[d] \in [pc : {"idle"}] => del[d].pc = "idle"
        /\ del[d] \in DelRead => del[d].pc = "read"
        /\ del[d] \in DelLoaded => del[d].pc = "loaded"
    BY DEF DelRead, DelLoaded
  <2> QED
    BY <2>1, <2>2
<1> QED
  BY <1>1, <1>2

LEMMA TypeStep ==
  ASSUME TypeOK, [Next]_vars
  PROVE  TypeOK'
<1> DEFINE Parts ==
      /\ meetings' \in SUBSET Meetings
      /\ count' \in [Meetings -> Nat]
      /\ engine' \in [Meetings -> Engines \cup {NoEngine}]
      /\ RowsType'
      /\ summary' \in [Meetings -> 0..MaxSummaries]
      /\ lastSummary' \in 0..MaxSummaries
      /\ sub' \in [pc : {"idle"}] \cup SubRead
      /\ del' \in [Deleters -> DelType]
      /\ late' \in SUBSET Deleters
      /\ hit' \in SUBSET Meetings
<1>parts. Parts => TypeOK'
  BY DEF TypeOK, RowsType, SubRead, DelType, DelRead, DelLoaded
<1> SUFFICES Parts
  BY <1>parts
<1>types. /\ meetings \in SUBSET Meetings
          /\ count \in [Meetings -> Nat]
          /\ engine \in [Meetings -> Engines \cup {NoEngine}]
          /\ RowsType
          /\ summary \in [Meetings -> 0..MaxSummaries]
          /\ lastSummary \in 0..MaxSummaries
          /\ sub \in [pc : {"idle"}] \cup SubRead
          /\ del \in [Deleters -> DelType]
          /\ late \in SUBSET Deleters
          /\ hit \in SUBSET Meetings
  BY TypeParts
<1>idle. ASSUME NEW d \in Deleters
         PROVE  [del EXCEPT ![d] = [pc |-> "idle"]] \in [Deleters -> DelType]
  <2>1. [pc |-> "idle"] \in DelType
    BY DEF DelType
  <2> QED
    BY <2>1, <1>types
<1>1. ASSUME NEW m \in Meetings, CreateMeeting(m) PROVE Parts
  BY <1>1, <1>types DEF CreateMeeting, RowsType
<1>2. ASSUME NEW m \in Meetings, NEW p \in Deliveries, BatchUpsert(m, p)
      PROVE  Parts
  BY <1>2, <1>types, UpsertType DEF BatchUpsert
<1>3. ASSUME NEW m \in Meetings, CreateSummary(m) PROVE Parts
  <2>1. lastSummary' \in 0..MaxSummaries
    BY <1>3, <1>types, StoreAssumption DEF CreateSummary
  <2>2. summary' \in [Meetings -> 0..MaxSummaries]
    BY <1>3, <1>types, <2>1 DEF CreateSummary
  <2> QED
    BY <1>3, <1>types, <2>1, <2>2 DEF CreateSummary, RowsType
<1>4. ASSUME SubscriberReads PROVE Parts
  <2>1. PICK m \in meetings, s \in SegIds, t \in Texts, e \in Engines :
          sub' = [pc |-> "read", m |-> m, seg |-> s, text |-> t, engine |-> e,
                  noEngine |-> engine[m] = NoEngine]
    BY <1>4 DEF SubscriberReads
  <2>2. (engine[m] = NoEngine) \in BOOLEAN
    OBVIOUS
  <2>3. m \in Meetings
    BY <1>types
  <2>4. sub' \in SubRead
    BY <2>1, <2>2, <2>3 DEF SubRead
  <2> QED
    BY <1>4, <1>types, <2>4 DEF SubscriberReads, dbVars, RowsType
<1>5. ASSUME SubscriberCommits PROVE Parts
  <2>1. sub \in SubRead
    BY <1>5, RequestFields DEF SubscriberCommits
  <2>2. sub.m \in Meetings /\ sub.seg \in SegIds /\ sub.text \in Texts
        /\ sub.engine \in Engines
    BY <2>1 DEF SubRead
  <2>3. [s \in {sub.seg} |-> sub.text] \in Deliveries
    BY <2>2, OneSegmentDelivery
  <2>4. RowsType' /\ count' \in [Meetings -> Nat]
    BY <1>5, <2>2, <2>3, UpsertType DEF SubscriberCommits
  <2>5. engine' \in [Meetings -> Engines \cup {NoEngine}]
    BY <1>5, <2>2, <1>types DEF SubscriberCommits
  <2>6. sub' \in [pc : {"idle"}]
    BY <1>5 DEF SubscriberCommits
  <2> QED
    BY <1>5, <1>types, <2>4, <2>5, <2>6 DEF SubscriberCommits
<1>6. ASSUME SubscriberFails PROVE Parts
  BY <1>6, <1>types DEF SubscriberFails, dbVars, RowsType
<1>7. ASSUME NEW d \in Deleters, DeleteReads(d) PROVE Parts
  <2>1. PICK m \in meetings :
          del' = [del EXCEPT ![d] = [pc |-> "read", m |-> m, summary |-> summary[m]]]
    BY <1>7 DEF DeleteReads
  <2>2. [pc |-> "read", m |-> m, summary |-> summary[m]] \in DelType
    BY <1>types DEF DelType, DelRead
  <2>3. del' \in [Deleters -> DelType]
    BY <2>1, <2>2, <1>types
  <2> QED
    BY <1>7, <1>types, <2>3 DEF DeleteReads, dbVars, RowsType
<1>8. ASSUME NEW d \in Deleters, DeleteLoads(d) PROVE Parts
  <2>1. del[d] \in DelRead
    BY <1>8, RequestFields DEF DeleteLoads
  <2>2. RowsOf(del[d].m) \in SUBSET RowIds
    BY <1>types DEF RowsOf, RowsType
  <2>3. [pc |-> "loaded", m |-> del[d].m, summary |-> del[d].summary,
         ids |-> RowsOf(del[d].m)] \in DelType
    BY <2>1, <2>2 DEF DelType, DelRead, DelLoaded
  <2>4. del' \in [Deleters -> DelType]
    BY <1>8, <2>3, <1>types DEF DeleteLoads
  <2> QED
    BY <1>8, <1>types, <2>4 DEF DeleteLoads, dbVars, RowsType
<1>9. ASSUME NEW d \in Deleters, DeleteCommits(d) PROVE Parts
  <2>1. rows' = [r \in DOMAIN rows \ del[d].ids |-> rows[r]]
    BY <1>9 DEF DeleteCommits, RowsWithout
  <2>2. RowsType'
    BY <2>1, <1>types DEF RowsType
  <2>3. /\ count' \in [Meetings -> Nat]
        /\ engine' \in [Meetings -> Engines \cup {NoEngine}]
    BY <1>9, <1>types DEF DeleteCommits
  <2>4. summary' \in [Meetings -> 0..MaxSummaries]
    <3>1. 0 \in 0..MaxSummaries
      BY StoreAssumption
    <3> QED
      BY <1>9, <1>types, <3>1 DEF DeleteCommits
  <2>5. del' \in [Deleters -> DelType]
    BY <1>9, <1>idle DEF DeleteCommits
  <2>6. late' \in SUBSET Deleters
    BY <1>9, <1>types DEF DeleteCommits, Overtaken
  <2>7. hit' \in SUBSET Meetings
    <3>1. Losers(d) \in SUBSET Meetings
      BY <1>types DEF Losers, RowsType, Row
    <3> QED
      BY <1>9, <1>types, <3>1 DEF DeleteCommits
  <2> QED
    BY <1>9, <1>types, <2>2, <2>3, <2>4, <2>5, <2>6, <2>7 DEF DeleteCommits
<1>10. ASSUME NEW d \in Deleters, DeleteFails(d) PROVE Parts
  <2>1. del' \in [Deleters -> DelType]
    BY <1>10, <1>idle DEF DeleteFails
  <2> QED
    BY <1>10, <1>types, <2>1 DEF DeleteFails, RowsAfterFailure, RowsType
<1>11. CASE UNCHANGED vars
  BY <1>11, <1>types DEF vars, dbVars, RowsType
<1> QED
  BY <1>1, <1>2, <1>3, <1>4, <1>5, <1>6, <1>7, <1>8, <1>9, <1>10, <1>11
  DEF Next, DeleteStep

-----------------------------------------------------------------------------
(* What the keys of the database enforce.                                  *)

LEMMA StoreInvIsInitial == Init => StoreInv
<1> SUFFICES ASSUME Init PROVE StoreInv
  OBVIOUS
<1>1. TypeOK
  BY TypeIsInitial
<1>2. RowsBelongToMeetings /\ KeysAreUnique
  BY DEF Init, RowsBelongToMeetings, KeysAreUnique
<1>3. SummariesBelongToMeetings
  BY DEF Init, SummariesBelongToMeetings
<1>4. EngineAsRead
  BY DEF Init, EngineAsRead
<1> QED
  BY <1>1, <1>2, <1>3, <1>4 DEF StoreInv

\* An upsert into a meeting that exists keeps the keys.
LEMMA UpsertKeepsKeys ==
  ASSUME TypeOK, RowsBelongToMeetings, KeysAreUnique,
         NEW m \in meetings, NEW p \in Deliveries, Upsert(m, p),
         meetings' = meetings
  PROVE  RowsBelongToMeetings' /\ KeysAreUnique'
<1>m. m \in Meetings
  BY DEF TypeOK
<1>1. PICK fresh, at : Adds(m, p, fresh, at)
  BY <1>m, UpsertAdds
<1>dom. DOMAIN rows' = DOMAIN rows \cup fresh
  BY <1>1, <1>m, AddsRows
<1>at. \A r \in fresh :
         /\ rows'[r] \in Row
         /\ rows'[r].m = m
         /\ rows'[r].seg = at[r]
         /\ rows'[r].text = p[at[r]]
         /\ at[r] \in DOMAIN p /\ at[r] \notin SegsOf(m)
  BY <1>1, <1>m, AddsRows
<1>new. ASSUME NEW r \in fresh
        PROVE  /\ rows'[r].m = m /\ rows'[r].seg = at[r]
               /\ at[r] \notin SegsOf(m)
  BY <1>at
<1>old. ASSUME NEW r \in DOMAIN rows
        PROVE  rows'[r].m = rows[r].m /\ rows'[r].seg = rows[r].seg
  BY <1>1, <1>m, AddsRows
<1>2. RowsBelongToMeetings'
  <2>1. ASSUME NEW r \in DOMAIN rows' PROVE rows'[r].m \in meetings
    BY <1>dom, <1>new, <1>old DEF RowsBelongToMeetings
  <2> QED
    BY <2>1 DEF RowsBelongToMeetings
<1>mixed. ASSUME NEW r \in DOMAIN rows, NEW q \in fresh
          PROVE  ~(rows'[r].m = rows'[q].m /\ rows'[r].seg = rows'[q].seg)
  <2>1. rows[r].m = m => rows[r].seg \in SegsOf(m)
    BY DEF SegsOf, RowsOf
  <2> QED
    BY <2>1, <1>new, <1>old
<1>3. KeysAreUnique'
  <2>1. ASSUME NEW r \in DOMAIN rows', NEW q \in DOMAIN rows',
               rows'[r].m = rows'[q].m, rows'[r].seg = rows'[q].seg
        PROVE  r = q
    <3>1. CASE r \in DOMAIN rows /\ q \in DOMAIN rows
      BY <2>1, <3>1, <1>old DEF KeysAreUnique
    <3>2. CASE r \in fresh /\ q \in fresh
      BY <2>1, <3>2, <1>new, <1>1 DEF Adds
    <3> QED
      BY <2>1, <3>1, <3>2, <1>dom, <1>mixed
  <2> QED
    BY <2>1 DEF KeysAreUnique
<1> QED
  BY <1>2, <1>3

\* The rows a delete does not remove, of a meeting that stays or goes.
LEMMA DeleteKeepsKeys ==
  ASSUME TypeOK, RowsBelongToMeetings, SummariesBelongToMeetings,
         KeysAreUnique, NEW d \in Deleters, DeleteCommits(d)
  PROVE  /\ RowsBelongToMeetings' /\ SummariesBelongToMeetings'
         /\ KeysAreUnique'
<1>1. /\ rows' = [r \in DOMAIN rows \ del[d].ids |-> rows[r]]
      /\ meetings' = meetings \ {del[d].m}
      /\ summary' = [summary EXCEPT ![del[d].m] = 0]
  BY DEF DeleteCommits, RowsWithout
<1>2. RowsOf(del[d].m) \subseteq del[d].ids
  BY DEF DeleteCommits, StillReferenced
<1>3. ASSUME NEW r \in DOMAIN rows'
      PROVE  r \in DOMAIN rows /\ rows'[r] = rows[r] /\ rows[r].m # del[d].m
  BY <1>1, <1>2 DEF RowsOf
<1>4. RowsBelongToMeetings'
  BY <1>1, <1>3 DEF RowsBelongToMeetings
<1>5. KeysAreUnique'
  BY <1>1, <1>3 DEF KeysAreUnique
<1>6. SummariesBelongToMeetings'
  BY <1>1 DEF SummariesBelongToMeetings, TypeOK
<1> QED
  BY <1>4, <1>5, <1>6

LEMMA StoreInvStep ==
  ASSUME StoreInv, [Next]_vars
  PROVE  StoreInv'
<1> USE DEF StoreInv
<1>type. TypeOK'
  BY TypeStep
<1> DEFINE Rest ==
      /\ RowsBelongToMeetings'
      /\ SummariesBelongToMeetings'
      /\ KeysAreUnique'
      /\ EngineAsRead'
<1> SUFFICES Rest
  BY <1>type
<1>1. ASSUME NEW m \in Meetings, CreateMeeting(m) PROVE Rest
  BY <1>1 DEF CreateMeeting, RowsBelongToMeetings, SummariesBelongToMeetings,
    KeysAreUnique, EngineAsRead
<1>2. ASSUME NEW m \in Meetings, NEW p \in Deliveries, BatchUpsert(m, p)
      PROVE  Rest
  <2>1. RowsBelongToMeetings' /\ KeysAreUnique'
    BY <1>2, UpsertKeepsKeys DEF BatchUpsert
  <2>2. SummariesBelongToMeetings' /\ EngineAsRead'
    BY <1>2 DEF BatchUpsert, SummariesBelongToMeetings, EngineAsRead
  <2> QED
    BY <2>1, <2>2
<1>3. ASSUME NEW m \in Meetings, CreateSummary(m) PROVE Rest
  <2>1. SummariesBelongToMeetings'
    BY <1>3 DEF CreateSummary, SummariesBelongToMeetings, TypeOK
  <2> QED
    BY <1>3, <2>1 DEF CreateSummary, RowsBelongToMeetings, KeysAreUnique, EngineAsRead
<1>4. ASSUME SubscriberReads PROVE Rest
  <2>1. EngineAsRead'
    <3>1. PICK m \in meetings, s \in SegIds, t \in Texts, e \in Engines :
            sub' = [pc |-> "read", m |-> m, seg |-> s, text |-> t, engine |-> e,
                    noEngine |-> engine[m] = NoEngine]
      BY <1>4 DEF SubscriberReads
    <3>2. sub'.m = m /\ sub'.noEngine = (engine[m] = NoEngine)
      BY <3>1
    <3>3. engine' = engine
      BY <1>4 DEF SubscriberReads, dbVars
    <3> QED
      BY <3>2, <3>3 DEF EngineAsRead
  <2> QED
    BY <1>4, <2>1 DEF SubscriberReads, dbVars, RowsBelongToMeetings,
      SummariesBelongToMeetings, KeysAreUnique
<1>5. ASSUME SubscriberCommits PROVE Rest
  <2>1. sub \in SubRead
    BY <1>5, RequestFields DEF SubscriberCommits
  <2>2. [s \in {sub.seg} |-> sub.text] \in Deliveries
    BY <2>1, OneSegmentDelivery DEF SubRead
  <2>3. RowsBelongToMeetings' /\ KeysAreUnique'
    BY <1>5, <2>2, UpsertKeepsKeys DEF SubscriberCommits
  <2>4. SummariesBelongToMeetings' /\ EngineAsRead'
    BY <1>5 DEF SubscriberCommits, SummariesBelongToMeetings, EngineAsRead
  <2> QED
    BY <2>3, <2>4
<1>6. ASSUME SubscriberFails PROVE Rest
  BY <1>6 DEF SubscriberFails, dbVars, RowsBelongToMeetings,
    SummariesBelongToMeetings, KeysAreUnique, EngineAsRead
<1>7. ASSUME NEW d \in Deleters, DeleteReads(d) \/ DeleteLoads(d) \/ DeleteFails(d)
      PROVE  Rest
  BY <1>7 DEF DeleteReads, DeleteLoads, DeleteFails, RowsAfterFailure, dbVars,
    RowsBelongToMeetings, SummariesBelongToMeetings, KeysAreUnique, EngineAsRead
<1>8. ASSUME NEW d \in Deleters, DeleteCommits(d) PROVE Rest
  <2>1. EngineAsRead'
    <3>1. sub.pc = "read" => sub.m \in Meetings
      BY RequestFields DEF SubRead
    <3> QED
      BY <1>8, <3>1 DEF DeleteCommits, EngineAsRead, TypeOK
  <2> QED
    BY <1>8, <2>1, DeleteKeepsKeys
<1>9. CASE UNCHANGED vars
  BY <1>9 DEF vars, dbVars, RowsBelongToMeetings, SummariesBelongToMeetings,
    KeysAreUnique, EngineAsRead
<1> QED
  BY <1>1, <1>2, <1>3, <1>4, <1>5, <1>6, <1>7, <1>8, <1>9 DEF Next, DeleteStep

\* StoreInv is an invariant of the store, however many deletes overlap.
THEOREM StoreInvariance == Spec => []StoreInv
BY StoreInvIsInitial, StoreInvStep, PTL DEF Spec

\* The variables always have their types (models.py, the columns of each
\* table, and the local state of the handlers).
THEOREM TypeCorrect == Spec => []TypeOK
<1>1. StoreInv => TypeOK
  BY DEF StoreInv
<1> QED
  BY <1>1, StoreInvariance, PTL

\* Segments and summaries belong to meetings that exist and no segment is
\* stored twice, for any number of overlapping upserts and deletes (the
\* foreign keys that db.py switches on, and the unique constraint).
THEOREM KeysHold == Spec => []NoOrphans
<1>1. StoreInv => NoOrphans
  BY DEF StoreInv, NoOrphans, RowsBelongToMeetings, SummariesBelongToMeetings,
    KeysAreUnique
<1> QED
  BY <1>1, StoreInvariance, PTL

\* The engine of a meeting never changes once written: update_engine_metadata
\* acts on what the subscriber read, and that is still true when it writes.
THEOREM EngineIsKept == Spec => EngineIsOfFirstSegment
<1>1. ASSUME StoreInv, [Next]_vars,
             NEW m \in meetings \cap meetings', engine[m] # NoEngine
      PROVE  engine'[m] = engine[m]
  <2> USE DEF StoreInv
  <2>m. m \in Meetings
    BY <1>1 DEF TypeOK
  <2>1. CASE SubscriberCommits
    <3>1. sub.noEngine => m # sub.m
      BY <1>1, <2>1 DEF SubscriberCommits, EngineAsRead
    <3> QED
      BY <1>1, <2>1, <2>m, <3>1 DEF SubscriberCommits, WritesEngine, TypeOK
  <2>2. ASSUME NEW d \in Deleters, DeleteCommits(d)
        PROVE  engine'[m] = engine[m]
    <3>1. m # del[d].m
      BY <1>1, <2>2 DEF DeleteCommits
    <3> QED
      BY <2>2, <2>m, <3>1 DEF DeleteCommits, TypeOK
  <2>3. ~SubscriberCommits /\ (\A d \in Deleters : ~DeleteCommits(d))
          => engine' = engine
    BY <1>1 DEF Next, DeleteStep, CreateMeeting, BatchUpsert, CreateSummary,
      SubscriberReads, SubscriberFails, DeleteReads, DeleteLoads, DeleteFails,
      vars, dbVars
  <2> QED
    BY <2>1, <2>2, <2>3
<1>2. StoreInv /\ [Next]_vars =>
        [\A m \in meetings \cap meetings' :
           engine[m] # NoEngine => engine'[m] = engine[m]]_vars
  BY <1>1
<1> QED
  BY <1>2, StoreInvariance, PTL DEF Spec, EngineIsOfFirstSegment

-----------------------------------------------------------------------------
(* The counter and the rows of other meetings.                             *)

LEMMA RowsAreFinite ==
  ASSUME TypeOK, NEW m
  PROVE  /\ IsFiniteSet(RowsOf(m))
         /\ Cardinality(RowsOf(m)) \in Nat
<1>1. IsFiniteSet(RowIds)
  BY FS_Interval, StoreAssumption DEF RowIds
<1>2. RowsOf(m) \in SUBSET RowIds
  BY DEF RowsOf, TypeOK
<1>3. IsFiniteSet(RowsOf(m))
  BY <1>1, <1>2, FS_Subset
<1> QED
  BY <1>3, FS_CardinalityType

\* The rows of each meeting after an upsert into m.
LEMMA AddsToOneMeeting ==
  ASSUME TypeOK, NEW m \in Meetings, NEW p \in Deliveries,
         NEW fresh, NEW at, Adds(m, p, fresh, at)
  PROVE  /\ RowsOf(m)' = RowsOf(m) \cup fresh
         /\ \A k \in Meetings \ {m} : RowsOf(k)' = RowsOf(k)
<1>dom. DOMAIN rows' = DOMAIN rows \cup fresh
  BY AddsRows
<1>at. \A r \in fresh :
         /\ rows'[r] \in Row
         /\ rows'[r].m = m
         /\ rows'[r].seg = at[r]
         /\ rows'[r].text = p[at[r]]
         /\ at[r] \in DOMAIN p /\ at[r] \notin SegsOf(m)
  BY AddsRows
<1>new. \A r \in fresh : rows'[r].m = m
  BY <1>at
<1>old. ASSUME NEW r \in DOMAIN rows PROVE rows'[r].m = rows[r].m
  BY AddsRows
<1>1. RowsOf(m)' = RowsOf(m) \cup fresh
  BY <1>dom, <1>new, <1>old DEF RowsOf
<1>2. ASSUME NEW k \in Meetings \ {m} PROVE RowsOf(k)' = RowsOf(k)
  BY <1>dom, <1>new, <1>old DEF RowsOf
<1> QED
  BY <1>1, <1>2

LEMMA UpsertKeepsCounts ==
  ASSUME TypeOK, CountsAreExact, hit' = hit,
         NEW m \in Meetings, NEW p \in Deliveries, Upsert(m, p)
  PROVE  CountsAreExact'
<1>1. PICK fresh, at : Adds(m, p, fresh, at)
  BY UpsertAdds
<1>2. count' = [count EXCEPT ![m] = count[m] + Cardinality(Inserts(m, p))]
  BY DEF Upsert, CountAfter
<1>3. ASSUME m \notin hit PROVE count'[m] = Cardinality(RowsOf(m)')
  <2>1. RowsOf(m)' = RowsOf(m) \cup fresh
    BY <1>1, AddsToOneMeeting
  <2>2. RowsOf(m) \cap fresh = {} /\ IsFiniteSet(fresh)
    BY <1>1 DEF Adds, RowsOf
  <2>3. /\ IsFiniteSet(RowsOf(m)) /\ Cardinality(RowsOf(m)) \in Nat
        /\ Cardinality(fresh) \in Nat
    BY <2>2, RowsAreFinite, FS_CardinalityType
  <2>4. Cardinality(RowsOf(m) \cup fresh)
          = Cardinality(RowsOf(m)) + Cardinality(fresh)
              - Cardinality(RowsOf(m) \cap fresh)
    BY <2>2, <2>3, FS_Union
  <2>5. Cardinality(RowsOf(m) \cap fresh) = 0
    BY <2>2, FS_EmptySet
  <2>6. Cardinality(RowsOf(m) \cup fresh)
          = Cardinality(RowsOf(m)) + Cardinality(fresh)
    BY <2>3, <2>4, <2>5
  <2>7. Cardinality(fresh) = Cardinality(Inserts(m, p))
    BY <1>1 DEF Adds
  <2>8. count'[m] = count[m] + Cardinality(Inserts(m, p))
    BY <1>2 DEF TypeOK
  <2>9. count[m] = Cardinality(RowsOf(m))
    BY <1>3 DEF CountsAreExact
  <2> QED
    BY <2>1, <2>6, <2>7, <2>8, <2>9
<1>4. ASSUME NEW k \in Meetings \ hit, k # m
      PROVE  count'[k] = Cardinality(RowsOf(k)')
  <2>1. RowsOf(k)' = RowsOf(k)
    BY <1>1, <1>4, AddsToOneMeeting
  <2>2. count'[k] = count[k]
    BY <1>2, <1>4 DEF TypeOK
  <2> QED
    BY <2>1, <2>2 DEF CountsAreExact
<1> QED
  BY <1>3, <1>4 DEF CountsAreExact

LEMMA UpsertKeepsLoaded ==
  ASSUME TypeOK, LoadedRowsAreIts, del' = del, late' = late,
         NEW m \in Meetings, NEW p \in Deliveries, Upsert(m, p)
  PROVE  LoadedRowsAreIts'
<1>1. PICK fresh, at : Adds(m, p, fresh, at)
  BY UpsertAdds
<1>2. DOMAIN rows' = DOMAIN rows \cup fresh
  BY <1>1, AddsRows
<1>3. ASSUME NEW r \in DOMAIN rows PROVE rows'[r].m = rows[r].m
  BY <1>1, AddsRows
<1> QED
  BY <1>2, <1>3 DEF LoadedRowsAreIts

\* A delete that commits removes the rows of its meeting m; those of another one
\* only if it is late.
LEMMA DeleteRemovesItsRows ==
  ASSUME TypeOK, LoadedRowsAreIts,
         NEW d \in Deleters, NEW m, m = del[d].m, DeleteCommits(d)
  PROVE  /\ m \in Meetings
         /\ RowsOf(m)' = {}
         /\ \A k \in Meetings \ {m} : k \notin Losers(d) => RowsOf(k)' = RowsOf(k)
         /\ d \notin late => Losers(d) \subseteq {m}
         /\ \A r \in DOMAIN rows : rows[r].m \notin Losers(d) =>
              r \in DOMAIN rows' /\ rows'[r] = rows[r]
         /\ \A r \in DOMAIN rows' : r \in DOMAIN rows /\ rows'[r] = rows[r]
<1>1. rows' = [r \in DOMAIN rows \ del[d].ids |-> rows[r]]
  BY DEF DeleteCommits, RowsWithout
<1>2. RowsOf(m) \subseteq del[d].ids
  BY DEF DeleteCommits, StillReferenced
<1>3. d \notin late => Losers(d) \subseteq {m}
  BY DEF LoadedRowsAreIts, DeleteCommits, Losers
<1>4. \A r \in DOMAIN rows' : r \in DOMAIN rows /\ rows'[r] = rows[r]
  BY <1>1
<1>5. \A r \in DOMAIN rows : rows[r].m \notin Losers(d) =>
        r \in DOMAIN rows' /\ rows'[r] = rows[r]
  BY <1>1 DEF Losers
<1>6. RowsOf(m)' = {}
  <2>1. ASSUME NEW r \in DOMAIN rows' PROVE rows'[r].m # m
    BY <1>1, <1>2 DEF RowsOf
  <2> QED
    BY <2>1 DEF RowsOf
<1>7. ASSUME NEW k \in Meetings, k # m, k \notin Losers(d)
      PROVE  RowsOf(k)' = RowsOf(k)
  BY <1>4, <1>5, <1>7 DEF RowsOf
<1>8. m \in Meetings
  BY RequestFields DEF DeleteCommits, DelLoaded
<1> QED
  BY <1>3, <1>4, <1>5, <1>6, <1>7, <1>8

LEMMA RowsInvIsInitial == Init => RowsInv
<1> SUFFICES ASSUME Init PROVE RowsInv
  OBVIOUS
<1>1. ASSUME NEW m \in Meetings PROVE count[m] = Cardinality(RowsOf(m))
  <2>1. RowsOf(m) = {} /\ count[m] = 0
    BY DEF Init, RowsOf
  <2> QED
    BY <2>1, FS_EmptySet
<1>2. LoadedRowsAreIts
  BY DEF Init, LoadedRowsAreIts
<1> QED
  BY <1>1, <1>2, StoreInvIsInitial DEF RowsInv, CountsAreExact

LEMMA CountsStep ==
  ASSUME RowsInv, [Next]_vars
  PROVE  CountsAreExact'
<1> USE DEF RowsInv, StoreInv
<1>1. ASSUME NEW m \in Meetings, NEW p \in Deliveries, BatchUpsert(m, p)
      PROVE  CountsAreExact'
  BY <1>1, UpsertKeepsCounts DEF BatchUpsert
<1>2. CASE SubscriberCommits
  <2>1. sub \in SubRead
    BY <1>2, RequestFields DEF SubscriberCommits
  <2>2. [s \in {sub.seg} |-> sub.text] \in Deliveries
    BY <2>1, OneSegmentDelivery DEF SubRead
  <2>3. sub.m \in Meetings
    BY <2>1 DEF SubRead
  <2> QED
    BY <1>2, <2>2, <2>3, UpsertKeepsCounts DEF SubscriberCommits
<1>3. ASSUME NEW d \in Deleters, DeleteCommits(d)
      PROVE  CountsAreExact'
  <2> PICK m : m = del[d].m
    OBVIOUS
  <2>1. /\ m \in Meetings
        /\ RowsOf(m)' = {}
        /\ \A k \in Meetings \ {m} : k \notin Losers(d) => RowsOf(k)' = RowsOf(k)
        /\ d \notin late => Losers(d) \subseteq {m}
    BY <1>3, DeleteRemovesItsRows
  <2>2. count' = [count EXCEPT ![m] = 0]
    BY <1>3 DEF DeleteCommits
  <2>3. count'[m] = Cardinality(RowsOf(m)')
    BY <2>1, <2>2, FS_EmptySet DEF TypeOK
  <2>4. ASSUME NEW k \in Meetings \ hit', k # m
        PROVE  count'[k] = Cardinality(RowsOf(k)')
    <3>1. k \notin hit /\ k \notin Losers(d)
      BY <1>3, <2>1, <2>4 DEF DeleteCommits
    <3>2. RowsOf(k)' = RowsOf(k) /\ count'[k] = count[k]
      BY <2>1, <2>2, <2>4, <3>1 DEF TypeOK
    <3> QED
      BY <3>1, <3>2 DEF CountsAreExact
  <2> QED
    BY <2>3, <2>4 DEF CountsAreExact
<1>4. CASE UNCHANGED <<count, rows, hit>>
  BY <1>4 DEF CountsAreExact, RowsOf
<1> QED
  BY <1>1, <1>2, <1>3, <1>4
  DEF Next, DeleteStep, CreateMeeting, CreateSummary, SubscriberReads,
    SubscriberFails, DeleteReads, DeleteLoads, DeleteFails, RowsAfterFailure,
    vars, dbVars

LEMMA LoadedStep ==
  ASSUME RowsInv, [Next]_vars
  PROVE  LoadedRowsAreIts'
<1> USE DEF RowsInv, StoreInv
<1>1. ASSUME NEW m \in Meetings, NEW p \in Deliveries, BatchUpsert(m, p)
      PROVE  LoadedRowsAreIts'
  BY <1>1, UpsertKeepsLoaded DEF BatchUpsert
<1>2. CASE SubscriberCommits
  <2>1. sub \in SubRead
    BY <1>2, RequestFields DEF SubscriberCommits
  <2>2. [s \in {sub.seg} |-> sub.text] \in Deliveries
    BY <2>1, OneSegmentDelivery DEF SubRead
  <2>3. sub.m \in Meetings
    BY <2>1 DEF SubRead
  <2> QED
    BY <1>2, <2>2, <2>3, UpsertKeepsLoaded DEF SubscriberCommits
<1>3. ASSUME NEW d \in Deleters, DeleteCommits(d)
      PROVE  LoadedRowsAreIts'
  <2>1. /\ del'[d].pc # "loaded"
        /\ \A e \in Deleters \ {d} : del'[e] = del[e]
    BY <1>3 DEF DeleteCommits, TypeOK
  <2>2. ASSUME NEW e \in Deleters \ late', del'[e].pc = "loaded", NEW r \in del'[e].ids
        PROVE  r \in DOMAIN rows' /\ rows'[r].m = del'[e].m
    <3>1. e # d /\ del'[e] = del[e]
      BY <2>1, <2>2
    <3>2. e \notin late /\ e \notin Overtaken(d)
      BY <1>3, <2>2, <3>1 DEF DeleteCommits
    <3>3. r \in DOMAIN rows /\ rows[r].m = del[e].m
      BY <2>2, <3>1, <3>2 DEF LoadedRowsAreIts
    <3>4. r \notin del[d].ids
      BY <2>2, <3>1, <3>2 DEF Overtaken
    <3>5. rows' = [q \in DOMAIN rows \ del[d].ids |-> rows[q]]
      BY <1>3 DEF DeleteCommits, RowsWithout
    <3> QED
      BY <3>1, <3>3, <3>4, <3>5
  <2> QED
    BY <2>2 DEF LoadedRowsAreIts
<1>4. ASSUME NEW d \in Deleters, DeleteReads(d) \/ DeleteLoads(d) \/ DeleteFails(d)
      PROVE  LoadedRowsAreIts'
  <2>1. /\ rows' = rows /\ late' \in {late, late \ {d}}
        /\ \A e \in Deleters \ {d} : del'[e] = del[e]
    BY <1>4 DEF DeleteReads, DeleteLoads, DeleteFails, RowsAfterFailure, TypeOK, dbVars
  <2>2. del'[d].pc = "loaded" => del'[d].m = del[d].m /\ del'[d].ids = RowsOf(del[d].m)
    BY <1>4 DEF DeleteReads, DeleteLoads, DeleteFails, TypeOK
  <2>3. ASSUME NEW e \in Deleters \ late', del'[e].pc = "loaded", NEW r \in del'[e].ids
        PROVE  r \in DOMAIN rows' /\ rows'[r].m = del'[e].m
    <3>1. CASE e = d
      BY <2>1, <2>2, <2>3, <3>1 DEF RowsOf
    <3>2. CASE e # d
      BY <2>1, <2>3, <3>2 DEF LoadedRowsAreIts
    <3> QED
      BY <3>1, <3>2
  <2> QED
    BY <2>3 DEF LoadedRowsAreIts
<1>5. CASE UNCHANGED <<rows, del, late>>
  BY <1>5 DEF LoadedRowsAreIts
<1> QED
  BY <1>1, <1>2, <1>3, <1>4, <1>5
  DEF Next, DeleteStep, CreateMeeting, CreateSummary, SubscriberReads,
    SubscriberFails, vars, dbVars

\* What holds of the rows and the counters, whatever deletes overlap.
THEOREM RowsInvariance == Spec => []RowsInv
<1>1. RowsInv /\ [Next]_vars => RowsInv'
  BY StoreInvStep, CountsStep, LoadedStep DEF RowsInv
<1> QED
  BY <1>1, RowsInvIsInitial, PTL DEF Spec

\* segments_count is the number of segments of the meeting, whatever batches,
\* streamed segments and deletes interleave, unless the meeting has lost a row to
\* a late delete (add_segments_count and the count of genuine inserts that upsert
\* and upsert_batch return).
THEOREM CountsHold == Spec => []CountMatchesRows
<1>1. RowsInv => CountMatchesRows
  BY DEF RowsInv, StoreInv, CountsAreExact, CountMatchesRows, TypeOK
<1> QED
  BY <1>1, RowsInvariance, PTL

\* A stored segment or summary disappears only together with its meeting, or the
\* segment in a late delete (delete_meeting and the cascades of models.py).
THEOREM RowsAreKept == Spec => RowsGoWithTheirMeeting
<1> DEFINE Kept ==
      /\ \A r \in DOMAIN rows :
           \/ rows[r].m \notin meetings'
           \/ r \in DOMAIN rows' /\ rows'[r].m = rows[r].m
                                /\ rows'[r].seg = rows[r].seg
           \/ LateDelete
      /\ \A m \in meetings \cap meetings' :
           summary[m] # 0 => summary'[m] = summary[m]
<1>1. ASSUME RowsInv, [Next]_vars PROVE Kept
  <2> USE <1>1 DEF RowsInv, StoreInv
  <2>up. ASSUME NEW m \in Meetings, NEW p \in Deliveries, Upsert(m, p),
                summary' = summary
         PROVE  Kept
    <3>1. PICK fresh, at : Adds(m, p, fresh, at)
      BY <2>up, UpsertAdds
    <3>2. DOMAIN rows' = DOMAIN rows \cup fresh
      BY <3>1, AddsRows
    <3>3. ASSUME NEW r \in DOMAIN rows
          PROVE  rows'[r].m = rows[r].m /\ rows'[r].seg = rows[r].seg
      BY <3>1, AddsRows
    <3> QED
      BY <2>up, <3>2, <3>3
  <2>1. ASSUME NEW m \in Meetings, NEW p \in Deliveries, BatchUpsert(m, p)
        PROVE  Kept
    BY <2>1, <2>up DEF BatchUpsert
  <2>2. CASE SubscriberCommits
    <3>1. sub \in SubRead
      BY <2>2, RequestFields DEF SubscriberCommits
    <3>2. [s \in {sub.seg} |-> sub.text] \in Deliveries /\ sub.m \in Meetings
      BY <3>1, OneSegmentDelivery DEF SubRead
    <3> QED
      BY <2>2, <3>2, <2>up DEF SubscriberCommits
  <2>3. ASSUME NEW d \in Deleters, DeleteCommits(d) PROVE Kept
    <3> PICK m : m = del[d].m
      OBVIOUS
    <3>1. d \notin late => \A r \in DOMAIN rows : rows[r].m # m =>
            r \in DOMAIN rows' /\ rows'[r] = rows[r]
      BY <2>3, DeleteRemovesItsRows
    <3>2. d \in late => LateDelete
      BY <2>3 DEF LateDelete
    <3>3. meetings' = meetings \ {m} /\ summary' = [summary EXCEPT ![m] = 0]
      BY <2>3 DEF DeleteCommits
    <3> QED
      BY <3>1, <3>2, <3>3 DEF TypeOK
  <2>4. ASSUME NEW m \in Meetings, CreateSummary(m) PROVE Kept
    BY <2>4 DEF CreateSummary, TypeOK
  <2>5. CASE UNCHANGED <<rows, summary>>
    BY <2>5
  <2> HIDE DEF Kept
  <2> QED
    BY <1>1, <2>1, <2>2, <2>3, <2>4, <2>5
    DEF Next, DeleteStep, CreateMeeting, SubscriberReads, SubscriberFails,
      DeleteReads, DeleteLoads, DeleteFails, RowsAfterFailure, vars, dbVars
<1>2. RowsInv /\ [Next]_vars => [Kept]_vars
  BY <1>1
<1> QED
  BY <1>2, RowsInvariance, PTL DEF Spec, RowsGoWithTheirMeeting

-----------------------------------------------------------------------------
(* The tables implement the ledger.                                        *)

\* The key makes the CHOOSE of TextOf the only candidate.
LEMMA TextOfRow ==
  ASSUME KeysAreUnique, NEW m, NEW r \in RowsOf(m)
  PROVE  /\ rows[r].seg \in SegsOf(m)
         /\ TextOf(m, rows[r].seg) = rows[r].text
<1>1. rows[r].seg \in SegsOf(m)
  BY DEF SegsOf
<1>2. PICK q \in RowsOf(m) :
        /\ rows[q].seg = rows[r].seg
        /\ TextOf(m, rows[r].seg) = rows[q].text
  BY DEF TextOf
<1>3. q = r
  BY <1>2 DEF KeysAreUnique, RowsOf
<1> QED
  BY <1>1, <1>2, <1>3

\* Meetings whose rows did not change keep their texts.
LEMMA SameRowsSameTexts ==
  ASSUME NEW m, RowsOf(m)' = RowsOf(m),
         \A r \in RowsOf(m) :
           rows'[r].seg = rows[r].seg /\ rows'[r].text = rows[r].text,
         KeysAreUnique, KeysAreUnique'
  PROVE  TextsOf(m)' = TextsOf(m)
<1>1. SegsOf(m)' = SegsOf(m)
  BY DEF SegsOf
<1>2. ASSUME NEW s \in SegsOf(m) PROVE TextOf(m, s)' = TextOf(m, s)
  <2>1. PICK r \in RowsOf(m) : rows[r].seg = s
    BY DEF SegsOf
  <2>2. TextOf(m, s) = rows[r].text
    BY <2>1, TextOfRow
  <2>3. PICK q \in RowsOf(m) : rows'[q].seg = s /\ TextOf(m, s)' = rows'[q].text
    BY <2>1 DEF TextOf
  <2>4. q = r
    BY <2>1, <2>3 DEF KeysAreUnique, RowsOf
  <2> QED
    BY <2>2, <2>3, <2>4
<1> QED
  BY <1>1, <1>2 DEF TextsOf

\* TextOfRow of the next state.
LEMMA TextOfRowNext ==
  ASSUME KeysAreUnique', NEW m, NEW s, NEW r \in RowsOf(m)', rows'[r].seg = s
  PROVE  /\ s \in SegsOf(m)'
         /\ TextOf(m, s)' = rows'[r].text
<1>1. s \in SegsOf(m)'
  BY DEF SegsOf
<1>2. PICK q \in RowsOf(m)' :
        rows'[q].seg = s /\ TextOf(m, s)' = rows'[q].text
  BY DEF TextOf
<1>3. q = r
  BY <1>2 DEF KeysAreUnique, RowsOf
<1> QED
  BY <1>1, <1>2, <1>3

\* Every insert has its row: at is onto.
LEMMA InsertsHaveRows ==
  ASSUME NEW m \in Meetings, NEW p \in Deliveries,
         NEW fresh, NEW at, Adds(m, p, fresh, at), NEW s \in Inserts(m, p)
  PROVE  \E r \in fresh : at[r] = s
<1>1. at \in Injection(fresh, Inserts(m, p))
  BY DEF Adds, Injection, IsInjective
<1>2. IsFiniteSet(Inserts(m, p)) /\ Cardinality(fresh) = Cardinality(Inserts(m, p))
  BY InsertsAreFinite DEF Adds
<1>3. at \in Surjection(fresh, Inserts(m, p))
  BY <1>1, <1>2, FS_Injection
<1> QED
  BY <1>3 DEF Surjection

\* After an upsert, the texts of m are those before, overridden by p.
LEMMA UpsertMerges ==
  ASSUME TypeOK, KeysAreUnique, KeysAreUnique',
         NEW m \in Meetings, NEW p \in Deliveries, Upsert(m, p)
  PROVE  TextsOf(m)' = Ledger!Merged(TextsOf(m), p)
<1>1. PICK fresh, at : Adds(m, p, fresh, at)
  BY UpsertAdds
<1>2. RowsOf(m)' = RowsOf(m) \cup fresh
  BY <1>1, AddsToOneMeeting
<1>at. \A r \in fresh :
         /\ rows'[r] \in Row
         /\ rows'[r].m = m
         /\ rows'[r].seg = at[r]
         /\ rows'[r].text = p[at[r]]
         /\ at[r] \in DOMAIN p /\ at[r] \notin SegsOf(m)
  BY <1>1, AddsRows
<1>old. ASSUME NEW r \in RowsOf(m)
        PROVE  /\ rows'[r].seg = rows[r].seg
               /\ rows'[r].text = IF rows[r].seg \in DOMAIN p
                                  THEN p[rows[r].seg] ELSE rows[r].text
  <2>1. r \in DOMAIN rows /\ rows[r].m = m
    BY DEF RowsOf
  <2>2. /\ rows'[r].seg = rows[r].seg
        /\ rows'[r].text =
             IF rows[r].m = m /\ rows[r].seg \in DOMAIN p
             THEN p[rows[r].seg] ELSE rows[r].text
    BY <1>1, <2>1, AddsRows
  <2> QED
    BY <2>1, <2>2
<1>3. ASSUME NEW s \in SegsOf(m)'
      PROVE  s \in SegsOf(m) \cup DOMAIN p
  <2>1. PICK r \in RowsOf(m)' : rows'[r].seg = s
    BY DEF SegsOf
  <2>2. CASE r \in RowsOf(m)
    BY <2>1, <2>2, <1>old DEF SegsOf
  <2>3. CASE r \in fresh
    BY <2>1, <2>3, <1>at
  <2> QED
    BY <1>2, <2>2, <2>3
<1>4. ASSUME NEW s \in SegsOf(m)
      PROVE  /\ s \in SegsOf(m)'
             /\ TextOf(m, s)' = IF s \in DOMAIN p THEN p[s] ELSE TextOf(m, s)
  <2>1. PICK r \in RowsOf(m) : rows[r].seg = s
    BY DEF SegsOf
  <2>2. r \in RowsOf(m)' /\ rows'[r].seg = s
    BY <1>2, <2>1, <1>old
  <2>3. s \in SegsOf(m)' /\ TextOf(m, s)' = rows'[r].text
    BY <2>2, TextOfRowNext
  <2>4. TextOf(m, s) = rows[r].text
    BY <2>1, TextOfRow
  <2> QED
    BY <2>1, <2>3, <2>4, <1>old
<1>5. ASSUME NEW s \in DOMAIN p, s \notin SegsOf(m)
      PROVE  s \in SegsOf(m)' /\ TextOf(m, s)' = p[s]
  <2>1. s \in Inserts(m, p)
    BY <1>5 DEF Inserts
  <2>2. PICK r \in fresh : at[r] = s
    BY <1>1, <2>1, InsertsHaveRows
  <2>3. r \in RowsOf(m)' /\ rows'[r].seg = s /\ rows'[r].text = p[s]
    BY <1>2, <2>2, <1>at
  <2> QED
    BY <2>3, TextOfRowNext
<1>6. SegsOf(m)' = SegsOf(m) \cup DOMAIN p
  BY <1>3, <1>4, <1>5
<1>7. ASSUME NEW s \in SegsOf(m) \cup DOMAIN p
      PROVE  TextOf(m, s)' = IF s \in DOMAIN p THEN p[s] ELSE TextsOf(m)[s]
  BY <1>4, <1>5 DEF TextsOf
<1>8. DOMAIN TextsOf(m) = SegsOf(m)
  BY DEF TextsOf
<1>9. Ledger!Merged(TextsOf(m), p) =
        [s \in SegsOf(m) \cup DOMAIN p |->
           IF s \in DOMAIN p THEN p[s] ELSE TextsOf(m)[s]]
  BY <1>8 DEF Ledger!Merged
<1>10. TextsOf(m)' = [s \in SegsOf(m)' |-> TextOf(m, s)']
  BY DEF TextsOf
<1> QED
  BY <1>6, <1>7, <1>9, <1>10

LEMMA UpsertDelivers ==
  ASSUME TypeOK, KeysAreUnique, KeysAreUnique', meetings' = meetings,
         NEW m \in meetings, NEW p \in Deliveries, Upsert(m, p)
  PROVE  Ledger!Deliver(m, p)
<1>m. m \in Meetings
  BY DEF TypeOK
<1>1. TextsOf(m)' = Ledger!Merged(TextsOf(m), p)
  BY <1>m, UpsertMerges
<1>2. ASSUME NEW k \in meetings, k # m PROVE TextsOf(k)' = TextsOf(k)
  <2>1. PICK fresh, at : Adds(m, p, fresh, at)
    BY <1>m, UpsertAdds
  <2>2. RowsOf(k)' = RowsOf(k)
    BY <1>m, <1>2, <2>1, AddsToOneMeeting DEF TypeOK
  <2>row. \A r \in DOMAIN rows :
            /\ rows'[r] \in Row
            /\ rows'[r].m = rows[r].m
            /\ rows'[r].seg = rows[r].seg
            /\ rows'[r].text =
                 IF rows[r].m = m /\ rows[r].seg \in DOMAIN p
                 THEN p[rows[r].seg] ELSE rows[r].text
    BY <1>m, <2>1, AddsRows
  <2>3. ASSUME NEW r \in RowsOf(k)
        PROVE  rows'[r].seg = rows[r].seg /\ rows'[r].text = rows[r].text
    <3>1. r \in DOMAIN rows /\ rows[r].m # m
      BY <1>2 DEF RowsOf
    <3>2. /\ rows'[r].seg = rows[r].seg
          /\ rows'[r].text =
               IF rows[r].m = m /\ rows[r].seg \in DOMAIN p
               THEN p[rows[r].seg] ELSE rows[r].text
      BY <2>row, <3>1
    <3> QED
      BY <3>1, <3>2
  <2> QED
    BY <2>2, <2>3, SameRowsSameTexts
<1>3. Transcript' = [Transcript EXCEPT ![m] = Ledger!Merged(@, p)]
  BY <1>1, <1>2 DEF Transcript
<1> QED
  BY <1>3 DEF Ledger!Deliver, Transcript, TextsOf

LEMMA CreateCreates ==
  ASSUME TypeOK, RowsBelongToMeetings, KeysAreUnique,
         NEW m \in Meetings, CreateMeeting(m)
  PROVE  Ledger!Create(m)
<1>1. RowsOf(m) = {}
  BY DEF CreateMeeting, RowsBelongToMeetings, RowsOf
<1>2. rows' = rows /\ meetings' = meetings \cup {m} /\ m \notin meetings
  BY DEF CreateMeeting
<1>3. TextsOf(m)' = [s \in {} |-> s]
  <2>1. SegsOf(m)' = {}
    BY <1>1, <1>2 DEF SegsOf, RowsOf
  <2> QED
    BY <2>1 DEF TextsOf
<1>4. ASSUME NEW k \in meetings PROVE TextsOf(k)' = TextsOf(k)
  BY <1>2 DEF TextsOf, SegsOf, TextOf, RowsOf
<1>5. Transcript' = [k \in meetings \cup {m} |->
                       IF k = m THEN [s \in {} |-> s] ELSE TextsOf(k)]
  BY <1>2, <1>3, <1>4 DEF Transcript
<1>6. Transcript' = [k \in DOMAIN Transcript \cup {m} |->
                       IF k = m THEN [s \in {} |-> s] ELSE Transcript[k]]
  BY <1>2, <1>5 DEF Transcript
<1> QED
  BY <1>2, <1>6 DEF Ledger!Create, Transcript, TextsOf

\* A meeting whose rows stay or go, but do not change, keeps its texts or loses
\* some.
LEMMA FewerRowsFewerTexts ==
  ASSUME NEW m, RowsOf(m)' \subseteq RowsOf(m),
         \A r \in RowsOf(m)' : rows'[r] = rows[r],
         KeysAreUnique, KeysAreUnique'
  PROVE  /\ SegsOf(m)' \subseteq SegsOf(m)
         /\ \A s \in SegsOf(m)' : TextOf(m, s)' = TextOf(m, s)
<1> SUFFICES ASSUME NEW s \in SegsOf(m)'
             PROVE  s \in SegsOf(m) /\ TextOf(m, s)' = TextOf(m, s)
  OBVIOUS
<1>1. PICK r \in RowsOf(m)' : rows'[r].seg = s
  BY DEF SegsOf
<1>2. TextOf(m, s)' = rows'[r].text
  BY <1>1, TextOfRowNext
<1>3. s \in SegsOf(m) /\ TextOf(m, s) = rows[r].text
  BY <1>1, TextOfRow
<1> QED
  BY <1>1, <1>2, <1>3

\* A delete that commits removes its meeting, or finds it gone already; a late
\* one may lose segments besides.
LEMMA DeleteRemoves ==
  ASSUME TypeOK, RowsBelongToMeetings, KeysAreUnique, KeysAreUnique',
         LoadedRowsAreIts, NEW d \in Deleters, NEW m, m = del[d].m,
         DeleteCommits(d)
  PROVE  \/ Ledger!Remove(m)
         \/ Transcript' = Transcript
         \/ LateDelete /\ Ledger!Lose
<1>1. /\ m \in Meetings
      /\ RowsOf(m)' = {}
      /\ \A k \in Meetings \ {m} : k \notin Losers(d) => RowsOf(k)' = RowsOf(k)
      /\ d \notin late => Losers(d) \subseteq {m}
      /\ \A r \in DOMAIN rows' : r \in DOMAIN rows /\ rows'[r] = rows[r]
  BY DeleteRemovesItsRows
<1>2. meetings' = meetings \ {m}
  BY DEF DeleteCommits
<1>3. CASE d \in late
  <2>1. ASSUME NEW k \in meetings'
        PROVE  /\ SegsOf(k)' \subseteq SegsOf(k)
               /\ \A s \in SegsOf(k)' : TextOf(k, s)' = TextOf(k, s)
    <3>1. RowsOf(k)' \subseteq RowsOf(k) /\ \A r \in RowsOf(k)' : rows'[r] = rows[r]
      BY <1>1 DEF RowsOf
    <3> QED
      BY <3>1, FewerRowsFewerTexts
  <2>2. /\ Transcript' = [k \in meetings' |-> TextsOf(k)']
        /\ \A k \in meetings' : TextsOf(k)' = [s \in SegsOf(k)' |-> TextOf(k, s)']
    BY DEF Transcript, TextsOf
  <2>3. /\ DOMAIN Transcript = meetings /\ DOMAIN Transcript' = meetings'
        /\ \A k \in meetings' :
             /\ DOMAIN Transcript[k] = SegsOf(k) /\ DOMAIN Transcript'[k] = SegsOf(k)'
             /\ \A s \in SegsOf(k)' : Transcript'[k][s] = TextOf(k, s)'
             /\ \A s \in SegsOf(k) : Transcript[k][s] = TextOf(k, s)
    BY <1>2, <2>2 DEF Transcript, TextsOf
  <2>4. Ledger!Lose
    BY <1>2, <2>1, <2>3 DEF Ledger!Lose, Transcript, TextsOf
  <2> QED
    BY <1>3, <2>4 DEF LateDelete
<1>4. CASE d \notin late
  <2>1. ASSUME NEW k \in meetings, k # m PROVE TextsOf(k)' = TextsOf(k)
    <3>1. k \in Meetings /\ RowsOf(k)' = RowsOf(k)
      BY <1>1, <1>4, <2>1 DEF TypeOK
    <3>2. ASSUME NEW r \in RowsOf(k) PROVE rows'[r] = rows[r]
      BY <1>1, <3>1 DEF RowsOf
    <3> QED
      BY <3>1, <3>2, SameRowsSameTexts
  <2>2. Transcript' = [k \in meetings \ {m} |-> TextsOf(k)]
    BY <1>2, <2>1 DEF Transcript
  <2>3. CASE m \in meetings
    <3>1. Transcript' = [k \in DOMAIN Transcript \ {m} |-> Transcript[k]]
      BY <2>2 DEF Transcript
    <3> QED
      BY <3>1, <2>3 DEF Ledger!Remove, Transcript, TextsOf
  <2>4. CASE m \notin meetings
    <3>1. meetings \ {m} = meetings
      BY <2>4
    <3> QED
      BY <2>2, <3>1 DEF Transcript
  <2> QED
    BY <2>3, <2>4
<1> QED
  BY <1>3, <1>4

\* The tables implement the abstract ledger: every write of the service is
\* one delivery into one meeting, the creation or the removal of a meeting,
\* or leaves every transcript as it is; all that a late delete does beyond is
\* to lose segments.
THEOREM StoreImplementsLedger == Spec => ImplementsLedger
<1>1. Init => Ledger!Init
  <2> SUFFICES ASSUME Init PROVE Ledger!Init
    OBVIOUS
  <2>1. meetings = {}
    BY DEF Init
  <2> QED
    BY <2>1 DEF Ledger!Init, Transcript
<1>2. ASSUME RowsInv, RowsInv', [Next]_vars
      PROVE  [Ledger!Next \/ (LateDelete /\ Ledger!Lose)]_Transcript
  <2>inv. /\ TypeOK /\ RowsBelongToMeetings /\ KeysAreUnique /\ KeysAreUnique'
          /\ LoadedRowsAreIts
    BY <1>2 DEF RowsInv, StoreInv
  <2> USE <2>inv
  <2> DEFINE Step == \/ Ledger!Next
                     \/ LateDelete /\ Ledger!Lose
                     \/ Transcript' = Transcript
  <2>1. ASSUME NEW m \in Meetings, CreateMeeting(m) PROVE Step
    BY <2>1, CreateCreates DEF Ledger!Next
  <2>deliver. ASSUME NEW m \in meetings, NEW p \in Deliveries, Upsert(m, p),
                     meetings' = meetings
              PROVE  Step
    <3>1. m \in Meetings /\ p \in Ledger!Deliveries
      BY DEF TypeOK, Deliveries, Ledger!Deliveries
    <3>2. Ledger!Deliver(m, p)
      BY <2>deliver, UpsertDelivers
    <3> QED
      BY <3>1, <3>2 DEF Ledger!Next
  <2>2. ASSUME NEW m \in Meetings, NEW p \in Deliveries, BatchUpsert(m, p)
        PROVE  Step
    BY <2>2, <2>deliver DEF BatchUpsert
  <2>3. CASE SubscriberCommits
    <3>1. sub \in SubRead
      BY <2>3, RequestFields DEF SubscriberCommits
    <3>2. [s \in {sub.seg} |-> sub.text] \in Deliveries
      BY <3>1, OneSegmentDelivery DEF SubRead
    <3> QED
      BY <2>3, <3>2, <2>deliver DEF SubscriberCommits
  <2>4. ASSUME NEW d \in Deleters, DeleteCommits(d) PROVE Step
    <3> PICK m : m = del[d].m
      OBVIOUS
    <3>1. m \in Meetings
      BY <2>4, RequestFields DEF DeleteCommits, DelLoaded
    <3>2. \/ Ledger!Remove(m)
          \/ Transcript' = Transcript
          \/ LateDelete /\ Ledger!Lose
      BY <2>4, DeleteRemoves
    <3> QED
      BY <3>1, <3>2 DEF Ledger!Next
  <2>5. CASE UNCHANGED <<meetings, rows>>
    <3>1. ASSUME NEW k \in meetings PROVE TextsOf(k)' = TextsOf(k)
      BY <2>5 DEF TextsOf, SegsOf, TextOf, RowsOf
    <3> QED
      BY <2>5, <3>1 DEF Transcript
  <2>6. \/ \E m \in Meetings : CreateMeeting(m)
        \/ \E m \in Meetings, p \in Deliveries : BatchUpsert(m, p)
        \/ SubscriberCommits
        \/ \E d \in Deleters : DeleteCommits(d)
        \/ UNCHANGED <<meetings, rows>>
    BY <1>2
    DEF Next, DeleteStep, CreateSummary, SubscriberReads, SubscriberFails,
      DeleteReads, DeleteLoads, DeleteFails, RowsAfterFailure, vars, dbVars
  <2> QED
    BY <2>1, <2>2, <2>3, <2>4, <2>5, <2>6
<1> QED
  BY <1>1, <1>2, RowsInvariance, PTL DEF Spec, ImplementsLedger
=============================================================================
