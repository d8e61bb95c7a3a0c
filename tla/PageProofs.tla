----------------------------- MODULE PageProofs -----------------------------
(***************************************************************************)
(* Theorems about what the page shows: BoardFloors, for all finite sets of *)
(* boards and ids, every retention and window and every value of the       *)
(* bounds, and RoleLocation, for locations of any size.                    *)
(***************************************************************************)
EXTENDS BoardFloors, RoleLocation, Folding

(* Rows are past, and none that is yet to be parsed was fetched before its *)
(* board's first success; a posting was in a fetch that succeeded.         *)
RowsOK ==
    /\ \A r \in raw : r.at <= time
    /\ \A r \in raw : r.payload # Failed => firstGood[r.board] # 0 /\ firstGood[r.board] <= r.at
    /\ \A b \in Boards : firstGood[b] <= time
    /\ \A k \in Keys : HasRow(k) => firstGood[k[1]] # 0

FloorsInv == FloorsTypeOK /\ RowsOK

-----------------------------------------------------------------------------
(* A set of numbers that is not empty has a least element, and Min is it.  *)
LEMMA MinOfNats ==
    ASSUME NEW S \in SUBSET Nat, S # {}
    PROVE  Min(S) \in S /\ \A y \in S : Min(S) <= y
<1>1. PICK x \in S : \A y \in S : ~ (<<y, x>> \in OpToRel(<, Nat))
  BY WFMin, NatLessThanWellFounded
<1>2. ASSUME NEW y \in S PROVE x <= y
  <2>1. y < x => <<y, x>> \in OpToRel(<, Nat)
    BY DEF OpToRel
  <2>2. y \in Nat /\ x \in Nat /\ ~ (y < x)
    BY <1>1, <2>1
  <2> QED BY <2>2
<1> QED BY <1>2 DEF Min

LEMMA RowTypes ==
    ASSUME FloorsTypeOK, NEW r \in raw
    PROVE  r.board \in Boards /\ r.at \in Nat /\ r.payload \in (SUBSET Ids) \cup {Failed}
BY HorizonAssumption DEF FloorsTypeOK, Row

LEMMA PostingTypes ==
    ASSUME FloorsTypeOK, NEW k \in Keys
    PROVE  /\ k[1] \in Boards /\ k[2] \in Ids /\ postings[k].first \in Nat
           /\ postings[k] \in [first : 0..MaxTime, open : BOOLEAN, closed : BOOLEAN]
BY HorizonAssumption DEF FloorsTypeOK, Keys

(* Applying a row dates a posting that had none with the row, and no other. *)
LEMMA AppliedPosting ==
    ASSUME NEW p \in [first : 0..MaxTime, open : BOOLEAN, closed : BOOLEAN],
           NEW r \in Row, NEW i \in Ids
    PROVE  /\ Applied(p, r, i) \in [first : 0..MaxTime, open : BOOLEAN, closed : BOOLEAN]
           /\ p.first # 0 => Applied(p, r, i).first = p.first
           /\ Applied(p, r, i).first \in {p.first, r.at}
<1>1. r.at \in 0..MaxTime
  BY HorizonAssumption DEF Row
<1>2. CASE i \in r.payload
  <2> DEFINE f == IF p.first = 0 THEN r.at ELSE p.first
  <2>1. Applied(p, r, i) = [p EXCEPT !.first = f, !.open = TRUE]
    BY <1>2 DEF Applied
  <2>2. f \in 0..MaxTime /\ f \in {p.first, r.at}
    BY <1>1
  <2> HIDE DEF f
  <2>3. /\ Applied(p, r, i).first = f
        /\ Applied(p, r, i) \in [first : 0..MaxTime, open : BOOLEAN, closed : BOOLEAN]
    BY <2>1, <2>2
  <2> QED BY <2>2, <2>3 DEF f
<1>3. CASE i \notin r.payload
  BY <1>3 DEF Applied
<1> QED BY <1>2, <1>3

-----------------------------------------------------------------------------
LEMMA FloorsStart == FloorsInit => FloorsInv
BY HorizonAssumption DEF FloorsInit, FloorsInv, FloorsTypeOK, RowsOK, NoPosting, HasRow

LEMMA IngestStep ==
    ASSUME FloorsInv, NEW b \in Boards, NEW p \in (SUBSET Ids) \cup {Failed}, Ingest(b, p)
    PROVE  FloorsInv'
<1> DEFINE new == [board |-> b, at |-> time, payload |-> p, parsed |-> FALSE]
<1>1. new \in Row
  BY DEF FloorsInv, FloorsTypeOK, Row
<1>2. raw' = raw \cup {new} /\ raw' \subseteq Row
  BY <1>1 DEF Ingest, FloorsInv, FloorsTypeOK
<1>3. \A c \in Boards : /\ firstGood'[c] \in 1..time \cup {0}
                        /\ firstGood[c] # 0 => firstGood'[c] = firstGood[c]
                        /\ c = b /\ p # Failed => firstGood'[c] # 0
  BY HorizonAssumption DEF Ingest, FloorsInv, FloorsTypeOK, RowsOK
<1>4. FloorsTypeOK'
  BY <1>2, <1>3, HorizonAssumption, PostingTypes
     DEF Ingest, FloorsInv, FloorsTypeOK, RowsOK, HasRow
<1>5. RowsOK'
  BY <1>2, <1>3, RowTypes, PostingTypes, HorizonAssumption
     DEF Ingest, FloorsInv, FloorsTypeOK, RowsOK, HasRow
<1> QED BY <1>4, <1>5 DEF FloorsInv

LEMMA ParseStep ==
    ASSUME FloorsInv, NEW r \in raw, ParseRow(r)
    PROVE  FloorsInv'
<1> DEFINE done == [r EXCEPT !.parsed = TRUE, !.payload = Failed]
<1>1. r \in Row /\ done \in Row /\ done.payload = Failed /\ done.at = r.at /\ done.board = r.board
  BY DEF FloorsInv, FloorsTypeOK, Row
<1>2. raw' = (raw \ {r}) \cup {done} /\ raw' \subseteq Row
  BY <1>1 DEF ParseRow, FloorsInv, FloorsTypeOK
<1>3. ASSUME NEW k \in Keys
      PROVE  /\ postings'[k] \in [first : 0..MaxTime, open : BOOLEAN, closed : BOOLEAN]
             /\ postings[k].first # 0 => postings'[k].first = postings[k].first
             /\ postings'[k].first # postings[k].first =>
                   k[1] = r.board /\ r.payload # Failed /\ postings'[k].first = r.at
  BY <1>1, PostingTypes, AppliedPosting DEF ParseRow, FloorsInv
<1>4. postings' \in [Keys -> [first : 0..MaxTime, open : BOOLEAN, closed : BOOLEAN]]
  BY <1>3 DEF ParseRow, FloorsInv, FloorsTypeOK
<1>5. FloorsTypeOK'
  BY <1>2, <1>3, <1>4, RowTypes, PostingTypes, HorizonAssumption
     DEF ParseRow, FloorsInv, FloorsTypeOK, RowsOK, HasRow
<1>6. RowsOK'
  BY <1>1, <1>2, <1>3, RowTypes, PostingTypes DEF ParseRow, FloorsInv, RowsOK, HasRow
<1> QED BY <1>5, <1>6 DEF FloorsInv

LEMMA FloorsInvStep == FloorsInv /\ [FloorsNext]_tableVars => FloorsInv'
<1> SUFFICES ASSUME FloorsInv, [FloorsNext]_tableVars PROVE FloorsInv'
  OBVIOUS
<1>1. CASE UNCHANGED tableVars
  BY <1>1 DEF tableVars, FloorsInv, FloorsTypeOK, RowsOK, HasRow
<1>2. CASE NextDay
  <2>1. \A k \in Keys : HasRow(k)' <=> HasRow(k)
    BY <1>2 DEF NextDay, HasRow
  <2> QED BY <1>2, <2>1, HorizonAssumption, RowTypes, PostingTypes
          DEF NextDay, FloorsInv, FloorsTypeOK, RowsOK
<1>3. CASE Sweep
  BY <1>3 DEF Sweep, FloorsInv, FloorsTypeOK, RowsOK, HasRow
<1> QED BY <1>1, <1>2, <1>3, IngestStep, ParseStep DEF FloorsNext

LEMMA FloorsInvariant == FloorsSpec => []FloorsInv
BY FloorsStart, FloorsInvStep, PTL DEF FloorsSpec

(* The tables keep their types, and a posting is first seen in a fetch of  *)
(* its board that succeeded, no earlier than the first one that did.       *)
THEOREM FloorsTypeCorrect == FloorsSpec => []FloorsTypeOK
<1>1. FloorsInv => FloorsTypeOK  BY DEF FloorsInv
<1> QED BY FloorsInvariant, <1>1, PTL

-----------------------------------------------------------------------------
(* The start of a board that has a posting is one of its observations, and *)
(* none is earlier.                                                        *)
LEMMA StartOfBoard ==
    ASSUME FloorsTypeOK, NEW k \in Keys, HasRow(k)
    PROVE  /\ BoardStart(k[1]) \in Observations(k[1])
           /\ BoardStart(k[1]) \in Nat
           /\ \A o \in Observations(k[1]) : BoardStart(k[1]) <= o
           /\ postings[k].first \in Observations(k[1])
<1> DEFINE S == Observations(k[1])
<1>1. S \in SUBSET Nat
  BY RowTypes, PostingTypes DEF Observations
<1>2. postings[k].first \in S
  BY DEF Observations
<1> HIDE DEF S
<1>3. Min(S) \in S /\ \A o \in S : Min(S) <= o
  BY <1>1, <1>2, MinOfNats
<1> QED BY <1>1, <1>2, <1>3 DEF S, BoardStart

(* A posting first seen by its board's first successful fetch is labelled  *)
(* a floor for ever, as long as no earlier fetch of the board that is a    *)
(* whole floor window older is left: retention cannot turn it into news.   *)
THEOREM FloorsStayFloors == FloorsSpec => []UnknownAgesAreFloors
<1>1. ASSUME FloorsInv PROVE UnknownAgesAreFloors
  <2> SUFFICES ASSUME NEW k \in Keys, HasRow(k), postings[k].first = firstGood[k[1]],
                      LookedAtOnce(k[1])
               PROVE  IsFloor(k)
    BY DEF UnknownAgesAreFloors, LiveAtFirstSight
  <2>1. FloorsTypeOK
    BY <1>1 DEF FloorsInv
  <2>2. postings[k].first \in Nat /\ FloorWindow \in Nat /\ FloorWindow > 0
    BY <2>1, PostingTypes, WindowsAssumption
  <2>3. ASSUME NEW r \in raw, r.board = k[1] PROVE postings[k].first < r.at + FloorWindow
    BY <2>3 DEF LookedAtOnce
  <2>4. ASSUME NEW l \in Keys, l[1] = k[1], HasRow(l)
        PROVE  postings[k].first < postings[l].first + FloorWindow
    <3>1. postings[l].first \in firstGood[l[1]]..time
      BY <2>1, <2>4 DEF FloorsTypeOK
    <3>2. postings[k].first <= postings[l].first /\ postings[l].first \in Nat
      BY <2>1, <2>4, <3>1, PostingTypes
    <3> QED BY <2>2, <3>2
  <2>5. \A o \in Observations(k[1]) : postings[k].first < o + FloorWindow
    BY <2>3, <2>4 DEF Observations
  <2> QED BY <2>1, <2>5, StartOfBoard DEF IsFloor
<1> QED BY FloorsInvariant, <1>1, PTL

-----------------------------------------------------------------------------
(* A step keeps every first_seen_at, and observes nothing of a board that  *)
(* is earlier than its start.                                              *)
LEMMA NothingEarlierIsSeen ==
    ASSUME FloorsInv, [FloorsNext]_tableVars, NEW k \in Keys, HasRow(k)
    PROVE  /\ time' \in Nat /\ time <= time'
           /\ postings'[k].first = postings[k].first
           /\ \A o \in Observations(k[1])' : BoardStart(k[1]) <= o
<1> DEFINE start == BoardStart(k[1])
<1>1. FloorsTypeOK /\ time \in Nat
  BY HorizonAssumption DEF FloorsInv, FloorsTypeOK
<1>2. /\ start \in Nat /\ start <= postings[k].first
      /\ \A r \in raw : r.board = k[1] => start <= r.at
      /\ \A l \in Keys : l[1] = k[1] /\ HasRow(l) => start <= postings[l].first
  <2>1. /\ start \in Nat /\ \A o \in Observations(k[1]) : start <= o
        /\ postings[k].first \in Observations(k[1])
    BY <1>1, StartOfBoard
  <2> HIDE DEF start
  <2>2. /\ \A r \in raw : r.board = k[1] => r.at \in Observations(k[1])
        /\ \A l \in Keys : l[1] = k[1] /\ HasRow(l) => postings[l].first \in Observations(k[1])
    BY DEF Observations
  <2> QED BY <2>1, <2>2
<1>3. postings[k].first \in Nat /\ postings[k].first <= time
  BY <1>1, PostingTypes, HorizonAssumption DEF FloorsTypeOK
<1> HIDE DEF start
<1>4. SUFFICES /\ time' \in Nat /\ time <= time'
               /\ postings'[k].first = postings[k].first
               /\ \A r \in raw' : r.board = k[1] => start <= r.at
               /\ \A l \in Keys : l[1] = k[1] /\ postings'[l].first # 0 => start <= postings'[l].first
  BY DEF Observations, HasRow, start
<1>5. CASE UNCHANGED tableVars
  BY <1>1, <1>2, <1>5 DEF tableVars, HasRow
<1>6. CASE NextDay
  BY <1>1, <1>2, <1>6 DEF NextDay, HasRow
<1>7. CASE Sweep
  BY <1>1, <1>2, <1>7 DEF Sweep, HasRow
<1>8. ASSUME NEW b \in Boards, NEW p \in (SUBSET Ids) \cup {Failed}, Ingest(b, p)
      PROVE  /\ time' = time /\ postings' = postings
             /\ \A r \in raw' : r.board = k[1] => start <= r.at
  BY <1>1, <1>2, <1>3, <1>8 DEF Ingest
<1>9. ASSUME NEW r \in raw, ParseRow(r)
      PROVE  /\ time' = time
             /\ postings'[k].first = postings[k].first
             /\ \A q \in raw' : q.board = k[1] => start <= q.at
             /\ \A l \in Keys : l[1] = k[1] /\ postings'[l].first # 0 => start <= postings'[l].first
  <2>1. /\ raw' = (raw \ {r}) \cup {[r EXCEPT !.parsed = TRUE, !.payload = Failed]}
        /\ time' = time /\ r \in Row
    BY <1>1, <1>9 DEF ParseRow, FloorsTypeOK
  <2>2. \A q \in raw' : q.board = k[1] => start <= q.at
    BY <1>2, <2>1 DEF Row
  <2>3. ASSUME NEW l \in Keys
        PROVE  \/ postings'[l].first = postings[l].first
               \/ postings[l].first = 0 /\ l[1] = r.board /\ postings'[l].first = r.at
    BY <1>1, <1>9, <2>1, PostingTypes, AppliedPosting DEF ParseRow
  <2> QED BY <1>2, <2>1, <2>2, <2>3 DEF HasRow
<1> QED BY <1>1, <1>2, <1>5, <1>6, <1>7, <1>8, <1>9 DEF FloorsNext, HasRow

(* The page never makes a posting younger: whatever is inserted, parsed or *)
(* swept, a floor stays one and no posting moves to a fresher group.       *)
THEOREM PostingsOnlyAge == FloorsSpec => AgesOnlyGrow
<1>1. ASSUME FloorsInv, FloorsInv', [FloorsNext]_tableVars, NEW k \in Keys, HasRow(k)
      PROVE  (IsFloor(k) => IsFloor(k)') /\ FreshnessGroup(k)' >= FreshnessGroup(k)
  <2>1. /\ time' \in Nat /\ time <= time' /\ postings'[k].first = postings[k].first
        /\ \A o \in Observations(k[1])' : BoardStart(k[1]) <= o
    BY <1>1, NothingEarlierIsSeen
  <2>2. /\ postings[k].first \in Nat /\ time \in Nat /\ BoardStart(k[1]) \in Nat
        /\ postings[k].first <= time
    BY <1>1, PostingTypes, StartOfBoard, HorizonAssumption DEF FloorsInv, FloorsTypeOK
  <2>3. HasRow(k)' /\ FloorsTypeOK'
    BY <1>1, <2>1 DEF HasRow, FloorsInv
  <2>4. BoardStart(k[1])' \in Observations(k[1])' /\ BoardStart(k[1])' \in Nat
    <3> DEFINE S == Observations(k[1])'
    <3>1. S \in SUBSET Nat
      BY <2>3, HorizonAssumption DEF Observations, FloorsTypeOK, Row, HasRow
    <3>2. postings'[k].first \in S
      BY <2>3 DEF Observations
    <3>3. BoardStart(k[1])' = Min(S)
      BY DEF BoardStart
    <3> HIDE DEF S
    <3> QED BY <3>1, <3>2, <3>3, MinOfNats DEF S
  <2>5. BoardStart(k[1]) <= BoardStart(k[1])'
    BY <2>1, <2>4
  <2>6. IsFloor(k) => IsFloor(k)'
    BY <2>1, <2>2, <2>4, <2>5, WindowsAssumption DEF IsFloor
  <2>7. DaysOpen(k) \in Nat /\ DaysOpen(k)' \in Nat /\ DaysOpen(k) <= DaysOpen(k)'
    BY <2>1, <2>2 DEF DaysOpen
  <2>8. FreshnessGroup(k)' >= FreshnessGroup(k)
    BY <2>6, <2>7, WindowsAssumption DEF FreshnessGroup
  <2> QED BY <2>6, <2>8
<1>2. FloorsInv /\ FloorsInv' /\ [FloorsNext]_tableVars
      => [\A k \in Keys : HasRow(k) =>
            /\ IsFloor(k) => IsFloor(k)'
            /\ FreshnessGroup(k)' >= FreshnessGroup(k)]_tableVars
  BY <1>1
<1> QED BY FloorsInvariant, <1>2, PTL DEF FloorsSpec, AgesOnlyGrow

-----------------------------------------------------------------------------
(* The arrivals chart.                                                     *)

SumOver(chart, D) == MapThenSumSet(LAMBDA d : chart[d], D)

(* What is counted day by day, summed over the days.                       *)
LEMMA SumOfDays ==
    ASSUME NEW D, IsFiniteSet(D), NEW S, IsFiniteSet(S), NEW at \in [S -> D],
           NEW chart, \A d \in D : chart[d] = Cardinality({k \in S : at[k] = d})
    PROVE  SumOver(chart, D) = Cardinality(S)
<1> DEFINE Pick(s) == CHOOSE x \in s : TRUE
           Eq(g) == g = [s \in SUBSET D |-> IF s = {} THEN 0 ELSE chart[Pick(s)] + g[s \ {Pick(s)}]]
           pick == [s \in SUBSET D |-> Pick(s)]
           step == [d \in D |-> [a \in Nat |-> chart[d] + a]]
<1>1. \A P \in SUBSET S : IsFiniteSet(P) /\ Cardinality(P) \in Nat
    BY FS_Subset, FS_CardinalityType
<1>2. \A d \in D : chart[d] \in Nat
    BY <1>1
<1>3. \A s \in SUBSET D : s # {} => Pick(s) \in s /\ pick[s] = Pick(s)
    OBVIOUS
<1>4. PICK g \in [SUBSET D -> Nat] : FoldsBy(g, D, 0, pick, step)
  <2>1. /\ 0 \in Nat /\ \A s \in SUBSET D : s # {} => pick[s] \in s
        /\ \A d \in D, a \in Nat : step[d][a] \in Nat
    BY <1>2, <1>3
  <2> HIDE DEF pick, step
  <2> QED
    BY <2>1, FoldExists
<1>5. Eq(g)
  <2>1. \A s \in SUBSET D : s # {} =>
           step[pick[s]][g[s \ {pick[s]}]] = chart[Pick(s)] + g[s \ {Pick(s)}]
    BY <1>3, <1>4
  <2> HIDE DEF Pick, pick, step
  <2> QED
    BY <1>4, <2>1 DEF FoldsBy
<1>6. PICK it : Eq(it) /\ SumOver(chart, D) = it[D]
  <2>1. Eq(CHOOSE h : Eq(h))
    BY <1>5
  <2>2. SumOver(chart, D) = (CHOOSE h : Eq(h))[D]
    BY DEF SumOver, MapThenSumSet, MapThenFoldSet
  <2> QED
    BY <2>1, <2>2
<1> DEFINE In(s) == {k \in S : at[k] \in s}
           T == {n \in Nat : \A s \in SUBSET D : Cardinality(s) = n => it[s] = Cardinality(In(s))}
<1>7. \A s \in SUBSET D : IsFiniteSet(s) /\ Cardinality(s) \in Nat /\ (Cardinality(s) = 0 <=> s = {})
    BY FS_Subset, FS_CardinalityType, FS_EmptySet
<1>8. 0 \in T
  <2>1. it[{}] = 0 /\ In({}) = {} /\ Cardinality({}) = 0
    BY <1>6, FS_EmptySet
  <2> QED
    BY <1>7, <2>1
<1>9. ASSUME NEW n \in Nat, n \in T PROVE n + 1 \in T
  <2> SUFFICES ASSUME NEW s \in SUBSET D, Cardinality(s) = n + 1
               PROVE  it[s] = Cardinality(In(s))
    OBVIOUS
  <2> DEFINE x == Pick(s)
             rest == s \ {x}
  <2>1. s # {} /\ x \in s /\ x \in D
    BY <1>3, <1>7
  <2>2. rest \in SUBSET D /\ Cardinality(rest) = n
    <3>1. IsFiniteSet(s) /\ rest \in SUBSET D
        BY <1>7
    <3>2. Cardinality(rest) = Cardinality(s) - 1
        BY <2>1, <3>1, FS_RemoveElement
    <3> QED
        BY <3>1, <3>2
  <2>3. it[s] = chart[x] + it[rest]
    BY <1>6, <2>1
  <2> HIDE DEF x
  <2>4. it[rest] = Cardinality(In(rest)) /\ chart[x] = Cardinality({k \in S : at[k] = x})
    BY <1>9, <2>1, <2>2
  <2>5. /\ In(s) = In(rest) \cup {k \in S : at[k] = x}
        /\ In(rest) \cap {k \in S : at[k] = x} = {}
    BY <2>1
  <2>6. /\ IsFiniteSet(In(rest)) /\ IsFiniteSet({k \in S : at[k] = x})
        /\ Cardinality(In(rest)) \in Nat /\ Cardinality({k \in S : at[k] = x}) \in Nat
    BY <1>1
  <2> HIDE DEF In, rest
  <2>7. Cardinality(In(s)) = Cardinality(In(rest)) + Cardinality({k \in S : at[k] = x})
    <3> DEFINE A == In(rest)
               B == {k \in S : at[k] = x}
    <3>1. /\ IsFiniteSet(A) /\ IsFiniteSet(B) /\ A \cap B = {} /\ In(s) = A \cup B
          /\ Cardinality(A) \in Nat /\ Cardinality(B) \in Nat
        BY <2>5, <2>6
    <3> HIDE DEF A, B
    <3>2. Cardinality(A \cup B) = Cardinality(A) + Cardinality(B) - Cardinality(A \cap B)
        BY <3>1, FS_Union
    <3>3. Cardinality(In(s)) = Cardinality(A) + Cardinality(B)
      <4>1. Cardinality(A \cap B) = 0
          BY <3>1, FS_EmptySet
      <4> QED
          BY <3>1, <3>2, <4>1
    <3> QED
        BY <3>3 DEF A, B
  <2> QED
    BY <2>3, <2>4, <2>6, <2>7
<1>10. Cardinality(D) \in T
  <2> HIDE DEF T
  <2>1. Nat \subseteq T
    BY <1>8, <1>9, NatSets
  <2> QED
    BY <1>7, <2>1
<1>11. it[D] = Cardinality(In(D)) /\ In(D) = S
    BY <1>10
<1> QED
    BY <1>6, <1>11

(* The listed postings whose age is known.                                 *)
KnownAges == {k \in Keys : k[2] \in UkEarly /\ HasRow(k) /\ ~IsFloor(k)}

LEMMA KnownAgesAreCharted ==
    ASSUME FloorsTypeOK
    PROVE  /\ IsFiniteSet(KnownAges)
           /\ \A k \in KnownAges : CollectingSince # 0 /\ postings[k].first \in CollectingSince..time
           /\ CollectingSince \in Nat /\ time \in Nat
<1> DEFINE firsts == {postings[k].first : k \in {l \in Keys : HasRow(l)}}
<1>1. IsFiniteSet(KnownAges)
  <2>1. IsFiniteSet(Keys)
    BY KeysAssumption, FS_Product DEF Keys
  <2> QED
    BY <2>1, FS_Subset DEF KnownAges
<1>2. firsts \in SUBSET Nat /\ 0 \notin firsts
    BY PostingTypes DEF HasRow
<1>3. CollectingSince = IF firsts = {} THEN 0 ELSE Min(firsts)
    BY DEF CollectingSince
<1>4. \A k \in KnownAges : postings[k].first \in firsts /\ postings[k].first <= time
    BY PostingTypes, HorizonAssumption DEF FloorsTypeOK, KnownAges
<1>5. time \in Nat
    BY HorizonAssumption DEF FloorsTypeOK
<1> HIDE DEF firsts
<1>6. firsts # {} => Min(firsts) \in firsts /\ \A y \in firsts : Min(firsts) <= y
    BY <1>2, MinOfNats
<1>7. ASSUME NEW k \in KnownAges
      PROVE  CollectingSince # 0 /\ postings[k].first \in CollectingSince..time
  <2>1. postings[k].first \in firsts /\ firsts # {} /\ postings[k].first <= time
    BY <1>4
  <2>2. CollectingSince \in firsts /\ CollectingSince <= postings[k].first
    BY <1>3, <1>6, <2>1
  <2>3. CollectingSince \in Nat /\ CollectingSince # 0 /\ postings[k].first \in Nat
    BY <1>2, <2>1, <2>2
  <2> QED
    BY <1>5, <2>1, <2>2, <2>3
<1> QED
    BY <1>1, <1>2, <1>3, <1>5, <1>6, <1>7

LEMMA ChartIsOfKnownAges == FloorsTypeOK => ChartMatchesLabels
<1> SUFFICES ASSUME FloorsTypeOK PROVE ArrivalsShown = Cardinality(KnownAges)
    BY DEF ChartMatchesLabels, KnownAges
<1> DEFINE D == IF CollectingSince = 0 THEN {} ELSE CollectingSince..time
           at == [k \in KnownAges |-> postings[k].first]
<1>1. IsFiniteSet(D) /\ IsFiniteSet(KnownAges) /\ at \in [KnownAges -> D]
  <2>1. IsFiniteSet(D)
    <3>1. CollectingSince \in Int /\ time \in Int
        BY KnownAgesAreCharted
    <3> QED
        BY <3>1, FS_Interval, FS_EmptySet
  <2> QED
    BY <2>1, KnownAgesAreCharted
<1>2. DOMAIN Chart = D
    BY DEF Chart
<1>3. ASSUME NEW d \in D PROVE Chart[d] = Cardinality({k \in KnownAges : at[k] = d})
  <2>1. Chart[d] = ArrivedOn(d)
    BY <1>3 DEF Chart
  <2>2. \A k \in Keys : HasRow(k) => (IsArrival(k) <=> ~IsFloor(k))
    <3>1. \A k \in Keys : HasRow(k) => /\ postings[k].first \in Nat /\ BoardStart(k[1]) \in Nat
        BY PostingTypes, StartOfBoard
    <3> QED
        BY <3>1, WindowsAssumption DEF IsArrival, IsFloor
  <2>3. {k \in Keys : k[2] \in UkEarly /\ HasRow(k) /\ IsArrival(k) /\ postings[k].first = d}
           = {k \in KnownAges : at[k] = d}
    BY <2>2 DEF KnownAges
  <2> QED
    BY <2>1, <2>3 DEF ArrivedOn
<1> HIDE DEF D, at
<1>4. SumOver(Chart, D) = Cardinality(KnownAges)
    BY <1>1, <1>3, SumOfDays
<1> QED
  <2>1. ArrivalsShown = SumOver(Chart, DOMAIN Chart)
    BY DEF ArrivalsShown, SumOver, MapThenSumSet, MapThenFoldSet
  <2> QED
    BY <1>2, <1>4, <2>1

(* build_arrivals and derive_role: the chart and the age labels agree,     *)
(* however the tables have aged.                                           *)
THEOREM ChartsMatchLabels == FloorsSpec => []ChartMatchesLabels
<1>1. FloorsInv => ChartMatchesLabels
    BY ChartIsOfKnownAges DEF FloorsInv
<1> QED
    BY FloorsInvariant, <1>1, PTL

-----------------------------------------------------------------------------
(* What a role's location shows.                                           *)

Entries == Seq(Fragments)

LEMMA LocationsAreSequences == Locations \subseteq Seq(Entries)
<1>1. \A S : \A m \in Nat : [1..m -> S] \subseteq Seq(S)
    OBVIOUS
<1>2. \A S, n : \A x \in SeqsUpTo(S, n) : x \in Seq(S)
  <2> SUFFICES ASSUME NEW S, NEW n, NEW x \in SeqsUpTo(S, n) PROVE x \in Seq(S)
    OBVIOUS
  <2>1. PICK m \in 0..n : x \in [1..m -> S]
    BY DEF SeqsUpTo
  <2> QED
    BY <1>1, <2>1
<1> QED
    BY <1>2 DEF Locations, Entries

(* The first element of a sequence in a set of places that is not empty.   *)
LEMMA FirstPlace ==
    ASSUME NEW n \in Nat, NEW I \in SUBSET (1..n), I # {}
    PROVE  Min(I) \in I /\ Min(I) # 0
<1>1. I \in SUBSET Nat /\ 0 \notin I
    OBVIOUS
<1> QED
    BY <1>1, MinOfNats

(* An entry that is UK beside others is UK by itself, where fewer regions  *)
(* are taken for American.                                                 *)
LEMMA UkByItself ==
    ASSUME NEW loc \in Seq(Entries), NEW e \in ToSet(loc),
           EntryVerdict(e, NorthAmerican(loc)) = "uk"
    PROVE  e \in Entries /\ e # <<>> /\ IsUkPart(e)
<1>1. e \in Entries
    BY DEF ToSet
<1>2. <<e>> \in Seq(Entries) /\ ToSet(<<e>>) = {e} /\ Len(<<e>>) = 1 /\ <<e>>[1] = e /\ <<e>> # <<>>
    BY <1>1 DEF ToSet
<1>3. NorthAmerican(<<e>>) => NorthAmerican(loc)
    BY <1>2 DEF NorthAmerican
<1>4. EntryVerdict(e, NorthAmerican(<<e>>)) = "uk"
  <2>1. HasUkCity(e, NorthAmerican(loc)) => HasUkCity(e, NorthAmerican(<<e>>))
    BY <1>3 DEF HasUkCity, Qualifies
  <2> QED
    BY <2>1 DEF EntryVerdict
<1>5. e # <<>>
  <2>1. e = <<>> => ~ \E f \in ToSet(e) : IsUkMarker(f)
    BY DEF ToSet
  <2> QED
    BY <2>1 DEF EntryVerdict
<1>6. ClassifyLocation(<<e>>) = "uk"
  <2> DEFINE I == {n \in 1..Len(<<e>>) : EntryVerdict(<<e>>[n], NorthAmerican(<<e>>)) # "no"}
             decided == IF I # {} THEN Min(I) ELSE 0
  <2>1. 1 \in I /\ I \in SUBSET (1..1)
    BY <1>2, <1>4
  <2>2. decided = 1
    <3> HIDE DEF I
    <3>1. 1 \in Nat /\ I # {}
        BY <2>1
    <3>2. Min(I) \in I
        BY <2>1, <3>1, FirstPlace
    <3>3. \A x \in I : x = 1
        BY <2>1
    <3>4. Min(I) = 1
        BY <3>2, <3>3
    <3> QED
        BY <3>1, <3>4
  <2> QED
    BY <1>2, <1>4, <2>2 DEF ClassifyLocation, SelectInSeq
<1> QED
    BY <1>1, <1>5, <1>6 DEF IsUkPart

(* Entries are kept one by one, unless one that reads alike is kept.       *)
KeepsEntry(kept, e) ==
    IF e = <<>> \/ \E k \in ToSet(kept) : Normalised(k) = Normalised(e) THEN kept ELSE Append(kept, e)

LEMMA SegmentsRun ==
    ASSUME NEW loc \in Seq(Entries)
    PROVE  \E kept : /\ kept[0] = <<>> /\ Segments(loc) = kept[Len(loc)]
                     /\ \A m \in 1..Len(loc) : kept[m] = KeepsEntry(kept[m - 1], loc[m])
<1> DEFINE n == Len(loc)
           Eq(g) == g = [s \in SUBSET (1..n) |->
                            IF s = {} THEN <<>> ELSE KeepsEntry(g[s \ {Max(s)}], loc[Max(s)])]
           step == [m \in 1..n |-> [kept \in Seq(Entries) |-> KeepsEntry(kept, loc[m])]]
<1>1. n \in Nat /\ DOMAIN loc = 1..n /\ \A m \in 1..n : loc[m] \in Entries
    OBVIOUS
<1>2. PICK g \in [SUBSET (1..n) -> Seq(Entries)] : FoldsBy(g, 1..n, <<>>, LastOf(n), step)
  <2>1. <<>> \in Seq(Entries) /\ \A m \in 1..n, kept \in Seq(Entries) : step[m][kept] \in Seq(Entries)
    BY <1>1 DEF KeepsEntry
  <2> HIDE DEF step
  <2> QED
    BY <1>1, <2>1, LeftFoldExists
<1>3. Eq(g)
  <2>1. \A s \in SUBSET (1..n) : s # {} => Max(s) \in 1..n /\ LastOf(n)[s] = Max(s)
    BY <1>1, MaxIsElement DEF LastOf
  <2>2. \A s \in SUBSET (1..n) : s # {} =>
           step[LastOf(n)[s]][g[s \ {LastOf(n)[s]}]] = KeepsEntry(g[s \ {Max(s)}], loc[Max(s)])
    BY <1>2, <2>1
  <2> QED
    BY <1>2, <2>2 DEF FoldsBy
<1>4. PICK it : Eq(it) /\ Segments(loc) = it[1..n]
  <2>1. Eq(CHOOSE h : Eq(h))
    BY <1>3
  <2>2. Segments(loc) = (CHOOSE h : Eq(h))[1..n]
    BY <1>1 DEF Segments, FoldLeft, MapThenFoldSet, KeepsEntry
  <2> QED
    BY <2>1, <2>2
<1> DEFINE kept == [m \in 0..n |-> it[1..m]]
<1>5. kept[0] = <<>> /\ kept[n] = it[1..n]
  <2>1. it[{}] = <<>> /\ 1..0 = {}
    BY <1>4
  <2> QED
    BY <1>1, <2>1
<1>6. ASSUME NEW m \in 1..n
      PROVE  kept[m] = KeepsEntry(kept[m - 1], loc[m])
  <2>1. Max(1..m) = m /\ (1..m) \ {m} = 1..(m - 1) /\ 1..m # {} /\ 1..m \in SUBSET (1..n)
    BY <1>1, MaxOfFirst
  <2>2. it[1..m] = KeepsEntry(it[1..(m - 1)], loc[m])
    BY <1>4, <2>1
  <2>3. kept[m] = it[1..m] /\ kept[m - 1] = it[1..(m - 1)]
    BY <1>1
  <2> QED
    BY <2>2, <2>3
<1> QED
    BY <1>4, <1>5, <1>6

(* Where no two entries read alike, each that is not empty is a segment.   *)
LEMMA SegmentsOfEntries ==
    ASSUME NEW loc \in Seq(Entries), ~ ReadAlike(loc)
    PROVE  /\ Segments(loc) \in Seq(Entries)
           /\ \A e \in ToSet(loc) : e # <<>> => e \in ToSet(Segments(loc))
<1>1. PICK kept : /\ kept[0] = <<>> /\ Segments(loc) = kept[Len(loc)]
                  /\ \A m \in 1..Len(loc) : kept[m] = KeepsEntry(kept[m - 1], loc[m])
    BY SegmentsRun
<1> DEFINE Read(m) == {loc[q] : q \in {p \in 1..m : loc[p] # <<>>}}
           Kept(m) == kept[m] \in Seq(Entries) /\ ToSet(kept[m]) = Read(m)
           T == {m \in 0..Len(loc) : Kept(m)}
<1>2. Len(loc) \in Nat /\ DOMAIN loc = 1..Len(loc) /\ \A m \in 1..Len(loc) : loc[m] \in Entries
    OBVIOUS
<1>3. 0 \in T
  <2>1. <<>> \in Seq(Entries) /\ ToSet(<<>>) = {} /\ Read(0) = {}
    BY DEF ToSet
  <2>2. Kept(0)
    BY <1>1, <2>1
  <2> QED
    BY <1>2, <2>2
<1>4. ASSUME NEW m \in 1..Len(loc), m - 1 \in T PROVE m \in T
  <2> DEFINE old == kept[m - 1]
             e == loc[m]
  <2>1. Kept(m - 1) /\ e \in Entries /\ kept[m] = KeepsEntry(old, e)
    BY <1>1, <1>2, <1>4
  <2>2. CASE e = <<>>
    <3>1. Read(m) = Read(m - 1)
        BY <1>2, <2>2
    <3>2. kept[m] = old
        BY <2>1, <2>2 DEF KeepsEntry
    <3> HIDE DEF Read
    <3>3. Kept(m)
        BY <2>1, <3>1, <3>2
    <3> QED
        BY <1>2, <3>3
  <2>3. CASE e # <<>>
    <3>1. Read(m) = Read(m - 1) \cup {e}
        BY <1>2, <2>3
    <3>2. \A k \in Read(m - 1) : Normalised(k) # Normalised(e)
      <4> SUFFICES ASSUME NEW q \in 1..(m - 1), Normalised(loc[q]) = Normalised(loc[m])
                   PROVE  FALSE
        OBVIOUS
      <4>1. q \in DOMAIN loc /\ m \in DOMAIN loc /\ q # m
        BY <1>2
      <4> QED
        BY <4>1 DEF ReadAlike
    <3>3. kept[m] = Append(old, e)
      <4>1. \A k \in ToSet(old) : Normalised(k) # Normalised(e)
        BY <2>1, <3>2
      <4> HIDE DEF old, e
      <4> QED
        BY <2>1, <2>3, <4>1 DEF KeepsEntry
    <3>4. Append(old, e) \in Seq(Entries) /\ ToSet(Append(old, e)) = ToSet(old) \cup {e}
      <4>1. old \in Seq(Entries) /\ e \in Entries
        BY <2>1
      <4> HIDE DEF old, e
      <4> DEFINE more == Append(old, e)
      <4>2. /\ more \in Seq(Entries) /\ Len(old) \in Nat /\ DOMAIN old = 1..Len(old)
            /\ DOMAIN more = 1..(Len(old) + 1) /\ more[Len(old) + 1] = e
            /\ \A q \in 1..Len(old) : more[q] = old[q]
        BY <4>1
      <4> HIDE DEF more
      <4>3. ToSet(more) = ToSet(old) \cup {e}
        BY <4>2 DEF ToSet
      <4> QED
        BY <4>2, <4>3 DEF more
    <3> HIDE DEF Read
    <3>5. Kept(m)
        BY <2>1, <3>1, <3>3, <3>4
    <3> QED
        BY <1>2, <3>5
  <2> QED
    BY <2>2, <2>3
<1>5. Kept(Len(loc))
  <2> HIDE DEF T
  <2>1. 0..Len(loc) \subseteq T
    BY <1>2, <1>3, <1>4, RangeSets
  <2>2. Len(loc) \in T
    BY <1>2, <2>1
  <2> QED
    BY <2>2 DEF T
<1>6. \A e \in ToSet(loc) : e # <<>> => e \in Read(Len(loc))
    BY <1>2 DEF ToSet
<1> QED
    BY <1>1, <1>5, <1>6

LEMMA UkPlacesAreShown ==
    ASSUME NEW loc \in Seq(Entries), ~ ReadAlike(loc), NEW e \in ToSet(loc),
           e # <<>>, IsUkPart(e), ~ IsQualifier(e)
    PROVE  IsUkPart(Shown(loc))
<1> DEFINE segments == Segments(loc)
           I == {n \in 1..Len(segments) : ~IsQualifier(segments[n]) /\ IsUkPart(segments[n])}
<1>1. segments \in Seq(Entries) /\ e \in ToSet(segments)
    BY SegmentsOfEntries
<1>2. PICK n \in 1..Len(segments) : segments[n] = e
    BY <1>1 DEF ToSet
<1>3. Len(segments) \in Nat /\ n \in I /\ I \in SUBSET (1..Len(segments)) /\ I # {}
    BY <1>1, <1>2
<1>4. Min(I) \in I /\ Min(I) # 0
  <2> HIDE DEF I, segments
  <2> QED
    BY <1>3, FirstPlace
<1>5. Shown(loc) = segments[Min(I)]
    BY <1>3, <1>4 DEF Shown, SelectInSeq
<1> QED
    BY <1>4, <1>5

LEMMA LocationsShown == location \in Seq(Entries) => ListedRolesShowUkPlaces
<1> SUFFICES ASSUME location \in Seq(Entries), NEW e \in ToSet(location), ListedFor(e)
             PROVE  /\ ~IsQualifier(e) /\ ~ReadAlike(location) => IsUkPart(Shown(location))
                    /\ "city" \in ToSet(e) => "city" \in FiledUnder(location)
    BY DEF ListedRolesShowUkPlaces
<1>1. e # <<>> /\ IsUkPart(e)
    BY UkByItself DEF ListedFor
<1>2. ~IsQualifier(e) /\ ~ReadAlike(location) => IsUkPart(Shown(location))
    BY <1>1, UkPlacesAreShown
<1>3. "city" \in ToSet(e) => "city" \in FiledUnder(location)
    BY <1>1 DEF FiledUnder
<1> QED
    BY <1>2, <1>3

(* display_location and derive_cities: a role listed for a UK place shows  *)
(* one, and is found under its city, for locations of any size.            *)
THEOREM ListedRolesStayUk == LocationSpec => []ListedRolesShowUkPlaces
<1>1. LocationInit => location \in Seq(Entries)
    BY DEF LocationInit
<1>2. location \in Seq(Entries) /\ [Look]_location => (location \in Seq(Entries))'
    BY LocationsAreSequences DEF Look
<1> QED
    BY <1>1, <1>2, LocationsShown, PTL DEF LocationSpec
=============================================================================
