--------------------------- MODULE CollectProofs ---------------------------
(***************************************************************************)
(* Theorems about a pass over the boards (Ingest, BoardFetch) and about    *)
(* the tools beside it: the results file of TokenDiscovery and labels.csv  *)
(* of Labelling, for any number of boards, tokens, runs, urls and files.   *)
(***************************************************************************)
EXTENDS Ingest, TokenDiscovery, Labelling, BoardFetchProofs

-----------------------------------------------------------------------------
(* The circuit breaker.                                                    *)

(* Rows of a pass, one for each of its first boards, in order.             *)
Rows ==
    {rs \in Seq([job : Nat, status : Statuses, asked : BOOLEAN]) :
        Len(rs) <= Len(Jobs) /\ \A n \in 1..Len(rs) : rs[n].job = n}

AskedOf(rs, k, first) == {n \in first..Len(rs) : rs[n].asked /\ Jobs[n] = k}

(* A counter counts the trailing asked boards of its source: all of them   *)
(* answered 429, and the asked one before them, if any, did not.           *)
StreakIs(rs, k, c) ==
    \E first \in 1..(Len(rs) + 1) :
        /\ Cardinality(AskedOf(rs, k, first)) = c
        /\ \A n \in AskedOf(rs, k, first) : rs[n].status = "429"
        /\ first = 1 \/ /\ rs[first - 1].asked /\ Jobs[first - 1] = k
                        /\ rs[first - 1].status # "429"

(* What BreakerIsExact says of one row, of the rows before it.             *)
Exhausted(rs, k) ==
    \E first \in 1..(Len(rs) + 1) :
        /\ Cardinality(AskedOf(rs, k, first)) >= Threshold
        /\ \A n \in AskedOf(rs, k, first) : rs[n].status = "429"

BreakerInv ==
    /\ rows \in Rows
    /\ consecutive429s \in [Kinds -> Nat]
    /\ tripped = {k \in Kinds : consecutive429s[k] >= Threshold}
    /\ \A k \in Kinds : StreakIs(rows, k, consecutive429s[k])
    /\ stage \in {"next", "fetching"} => i = Len(rows) + 1 /\ i <= Len(Jobs)
    /\ stage = "fetching" => Source \notin tripped

PassInv == FetchInv /\ BreakerInv /\ BreakerIsExact

LEMMA RowsAreRows ==
    /\ <<>> \in Rows
    /\ \A rs \in Rows : Len(rs) \in Nat /\ DOMAIN rs = 1..Len(rs) /\ Len(rs) <= Len(Jobs)
    /\ \A rs \in Rows : \A n \in 1..Len(rs) : rs[n].job = n /\ rs[n].asked \in BOOLEAN
<1>1. Len(Jobs) \in Nat /\ Len(<<>>) = 0
    BY IngestAssumption
<1>2. <<>> \in Rows
    BY <1>1 DEF Rows
<1>3. ASSUME NEW rs \in Rows
      PROVE  /\ Len(rs) \in Nat /\ DOMAIN rs = 1..Len(rs) /\ Len(rs) <= Len(Jobs)
             /\ \A n \in 1..Len(rs) : rs[n].job = n /\ rs[n].asked \in BOOLEAN
  <2> DEFINE RowSet == [job : Nat, status : Statuses, asked : BOOLEAN]
  <2>1. rs \in Seq(RowSet) /\ \A row \in RowSet : row.asked \in BOOLEAN
    BY DEF Rows
  <2> HIDE DEF RowSet
  <2>2. Len(rs) \in Nat /\ DOMAIN rs = 1..Len(rs) /\ \A n \in 1..Len(rs) : rs[n] \in RowSet
    BY <2>1
  <2> QED
    BY <2>1, <2>2 DEF Rows
<1> QED
    BY <1>2, <1>3

LEMMA RowsGrow ==
    ASSUME NEW rs \in Rows, Len(rs) + 1 <= Len(Jobs), NEW s \in Statuses, NEW a \in BOOLEAN
    PROVE  LET row == [job |-> Len(rs) + 1, status |-> s, asked |-> a] IN
           /\ Append(rs, row) \in Rows /\ Len(Append(rs, row)) = Len(rs) + 1
           /\ Append(rs, row)[Len(rs) + 1] = row
           /\ \A n \in 1..Len(rs) : Append(rs, row)[n] = rs[n]
<1> DEFINE row == [job |-> Len(rs) + 1, status |-> s, asked |-> a]
<1> DEFINE RowSet == [job : Nat, status : Statuses, asked : BOOLEAN]
<1>1. rs \in Seq(RowSet) /\ Len(rs) \in Nat /\ row \in RowSet /\ row.job = Len(rs) + 1
    BY DEF Rows
<1> HIDE DEF row
<1>2. \A n \in 1..Len(rs) : rs[n].job = n
    BY DEF Rows
<1> HIDE DEF RowSet
<1>3. /\ Append(rs, row) \in Seq(RowSet) /\ Len(Append(rs, row)) = Len(rs) + 1
      /\ Append(rs, row)[Len(rs) + 1] = row
      /\ \A n \in 1..Len(rs) : Append(rs, row)[n] = rs[n]
    BY <1>1
<1>4. \A n \in 1..Len(Append(rs, row)) : Append(rs, row)[n].job = n
  <2>1. \A n \in 1..(Len(rs) + 1) : n = Len(rs) + 1 \/ n \in 1..Len(rs)
    BY <1>1
  <2> QED
    BY <1>1, <1>2, <1>3, <2>1
<1> QED
    BY <1>3, <1>4 DEF Rows, RowSet, row

LEMMA AskedAreFinite ==
    ASSUME NEW rs \in Rows, NEW k, NEW first \in 1..(Len(rs) + 1)
    PROVE  IsFiniteSet(AskedOf(rs, k, first)) /\ Cardinality(AskedOf(rs, k, first)) \in Nat
<1>1. Len(rs) \in Int /\ first \in Int
    BY RowsAreRows
<1>2. IsFiniteSet(first..Len(rs))
    BY <1>1, FS_Interval
<1>3. AskedOf(rs, k, first) \in SUBSET (first..Len(rs))
    BY DEF AskedOf
<1>4. IsFiniteSet(AskedOf(rs, k, first))
    BY <1>2, <1>3, FS_Subset
<1> QED
    BY <1>4, FS_CardinalityType

(* A counter at the threshold is a source that is to be left alone.        *)
LEMMA StreakTellsExhausted ==
    ASSUME NEW rs \in Rows, NEW k \in Kinds, NEW c \in Nat, StreakIs(rs, k, c)
    PROVE  Exhausted(rs, k) <=> c >= Threshold
<1>1. PICK first \in 1..(Len(rs) + 1) :
          /\ Cardinality(AskedOf(rs, k, first)) = c
          /\ \A n \in AskedOf(rs, k, first) : rs[n].status = "429"
          /\ first = 1 \/ /\ rs[first - 1].asked /\ Jobs[first - 1] = k
                          /\ rs[first - 1].status # "429"
    BY DEF StreakIs
<1>2. ASSUME Exhausted(rs, k)
      PROVE  c >= Threshold
  <2>1. PICK other \in 1..(Len(rs) + 1) :
            /\ Cardinality(AskedOf(rs, k, other)) >= Threshold
            /\ \A n \in AskedOf(rs, k, other) : rs[n].status = "429"
    BY <1>2 DEF Exhausted
  <2>2. Len(rs) \in Nat
    BY RowsAreRows
  <2>3. first <= other
    <3> SUFFICES ASSUME other < first PROVE FALSE
        BY <2>2
    <3>1. first - 1 \in other..Len(rs) /\ first # 1
        BY <2>2
    <3>2. first - 1 \in AskedOf(rs, k, other)
        BY <1>1, <3>1 DEF AskedOf
    <3> QED
        BY <1>1, <2>1, <3>1, <3>2
  <2>4. AskedOf(rs, k, other) \in SUBSET AskedOf(rs, k, first)
    BY <2>2, <2>3 DEF AskedOf
  <2>5. Cardinality(AskedOf(rs, k, other)) <= Cardinality(AskedOf(rs, k, first))
    BY <2>4, AskedAreFinite, FS_Subset
  <2> QED
    BY <1>1, <2>1, <2>5, AskedAreFinite, IngestAssumption
<1> QED
    BY <1>1, <1>2 DEF Exhausted

(* A board that is not asked, or is of another source, leaves a streak.    *)
LEMMA StreakStays ==
    ASSUME NEW rs \in Rows, NEW new \in Rows, Len(new) = Len(rs) + 1,
           \A n \in 1..Len(rs) : new[n] = rs[n],
           NEW k \in Kinds, NEW c \in Nat, StreakIs(rs, k, c),
           ~new[Len(new)].asked \/ Jobs[Len(new)] # k
    PROVE  StreakIs(new, k, c)
<1>1. PICK first \in 1..(Len(rs) + 1) :
          /\ Cardinality(AskedOf(rs, k, first)) = c
          /\ \A n \in AskedOf(rs, k, first) : rs[n].status = "429"
          /\ first = 1 \/ /\ rs[first - 1].asked /\ Jobs[first - 1] = k
                          /\ rs[first - 1].status # "429"
    BY DEF StreakIs
<1>2. Len(rs) \in Nat
    BY RowsAreRows
<1>3. AskedOf(new, k, first) = AskedOf(rs, k, first)
  <2>1. ASSUME NEW n
        PROVE  n \in AskedOf(new, k, first) <=> n \in AskedOf(rs, k, first)
    BY <1>2 DEF AskedOf
  <2> QED
    BY <2>1
<1>4. AskedOf(rs, k, first) \subseteq 1..Len(rs)
    BY <1>2 DEF AskedOf
<1>5. first \in 1..(Len(new) + 1) /\ (first # 1 => first - 1 \in 1..Len(rs))
    BY <1>2
<1> QED
    BY <1>1, <1>3, <1>4, <1>5 DEF StreakIs

LEMMA StreakGoesOn ==
    ASSUME NEW rs \in Rows, NEW new \in Rows, Len(new) = Len(rs) + 1,
           \A n \in 1..Len(rs) : new[n] = rs[n],
           NEW k \in Kinds, NEW c \in Nat, StreakIs(rs, k, c),
           new[Len(new)].asked, Jobs[Len(new)] = k, new[Len(new)].status = "429"
    PROVE  StreakIs(new, k, c + 1)
<1>1. PICK first \in 1..(Len(rs) + 1) :
          /\ Cardinality(AskedOf(rs, k, first)) = c
          /\ \A n \in AskedOf(rs, k, first) : rs[n].status = "429"
          /\ first = 1 \/ /\ rs[first - 1].asked /\ Jobs[first - 1] = k
                          /\ rs[first - 1].status # "429"
    BY DEF StreakIs
<1>2. Len(rs) \in Nat
    BY RowsAreRows
<1>3. AskedOf(new, k, first) = AskedOf(rs, k, first) \cup {Len(new)}
  <2>1. ASSUME NEW n
        PROVE  n \in AskedOf(new, k, first) <=> n \in AskedOf(rs, k, first) \cup {Len(new)}
    BY <1>2 DEF AskedOf
  <2> QED
    BY <2>1
<1>4. AskedOf(rs, k, first) \subseteq 1..Len(rs) /\ Len(new) \notin AskedOf(rs, k, first)
    BY <1>2 DEF AskedOf
<1>5. Cardinality(AskedOf(new, k, first)) = c + 1
    BY <1>1, <1>3, <1>4, AskedAreFinite, FS_AddElement
<1>6. first \in 1..(Len(new) + 1) /\ (first # 1 => first - 1 \in 1..Len(rs))
    BY <1>2
<1>7. \A n \in AskedOf(new, k, first) : new[n].status = "429"
    BY <1>1, <1>3, <1>4
<1>8. first = 1 \/ /\ new[first - 1].asked /\ Jobs[first - 1] = k
                   /\ new[first - 1].status # "429"
    BY <1>1, <1>6
<1> QED
    BY <1>5, <1>6, <1>7, <1>8 DEF StreakIs

LEMMA StreakEnds ==
    ASSUME NEW new \in Rows, Len(new) >= 1, NEW k \in Kinds,
           new[Len(new)].asked, Jobs[Len(new)] = k, new[Len(new)].status # "429"
    PROVE  StreakIs(new, k, 0)
<1>1. Len(new) \in Nat
    BY RowsAreRows
<1>2. AskedOf(new, k, Len(new) + 1) = {}
    BY <1>1 DEF AskedOf
<1>3. Len(new) + 1 \in 1..(Len(new) + 1) /\ Len(new) + 1 - 1 = Len(new)
    BY <1>1
<1>4. Cardinality(AskedOf(new, k, Len(new) + 1)) = 0
    BY <1>2, FS_EmptySet
<1>5. /\ new[(Len(new) + 1) - 1].asked /\ Jobs[(Len(new) + 1) - 1] = k
      /\ new[(Len(new) + 1) - 1].status # "429"
    BY <1>3
<1> QED
    BY <1>2, <1>3, <1>4, <1>5 DEF StreakIs

(* Adding a row leaves what BreakerIsExact says of the earlier ones, and   *)
(* of the new one it says that it is asked unless its source is exhausted. *)
AskedBefore(rs, first, j) ==
    {n \in first..(j - 1) : rs[n].asked /\ Jobs[rs[n].job] = Jobs[rs[j].job]}

ExactAt(rs, j) ==
    ~rs[j].asked <=>
        \E first \in 1..j :
            /\ Cardinality(AskedBefore(rs, first, j)) >= Threshold
            /\ \A n \in AskedBefore(rs, first, j) : rs[n].status = "429"

LEMMA ExactRowByRow == BreakerIsExact <=> \A j \in DOMAIN rows : ExactAt(rows, j)
BY DEF BreakerIsExact, Asked, AskedBefore, ExactAt

LEMMA ExactRowByRowNext == BreakerIsExact' <=> \A j \in DOMAIN rows' : ExactAt(rows', j)
BY DEF BreakerIsExact, Asked, AskedBefore, ExactAt

LEMMA ExactWhileRowsStay ==
    ASSUME BreakerIsExact, rows' = rows
    PROVE  BreakerIsExact'
BY ExactRowByRow, ExactRowByRowNext

LEMMA ExactStays ==
    ASSUME NEW rs \in Rows, NEW new \in Rows, Len(new) = Len(rs) + 1,
           \A n \in 1..Len(rs) : new[n] = rs[n],
           NEW j \in 1..Len(rs), ExactAt(rs, j)
    PROVE  ExactAt(new, j)
<1>1. Len(rs) \in Nat /\ new[j] = rs[j]
    BY RowsAreRows
<1>2. ASSUME NEW first \in 1..j
      PROVE  /\ AskedBefore(new, first, j) = AskedBefore(rs, first, j)
             /\ \A n \in AskedBefore(rs, first, j) : new[n] = rs[n]
  <2>1. \A n \in first..(j - 1) : n \in 1..Len(rs)
    BY <1>1
  <2> QED
    BY <1>1, <2>1 DEF AskedBefore
<1> QED
    BY <1>1, <1>2 DEF ExactAt

LEMMA ExactNew ==
    ASSUME NEW rs \in Rows, NEW new \in Rows, Len(new) = Len(rs) + 1,
           \A n \in 1..Len(rs) : new[n] = rs[n],
           ~new[Len(new)].asked <=> Exhausted(rs, Jobs[Len(new)])
    PROVE  ExactAt(new, Len(new))
<1> DEFINE j == Len(new)
<1>1. Len(rs) \in Nat /\ j = Len(rs) + 1 /\ j \in 1..j /\ j - 1 = Len(rs)
    BY RowsAreRows
<1>2. ASSUME NEW first \in 1..j
      PROVE  /\ AskedBefore(new, first, j) = AskedOf(rs, Jobs[j], first)
             /\ \A n \in AskedOf(rs, Jobs[j], first) : new[n] = rs[n]
  <2>1. \A n \in first..Len(rs) : n \in 1..Len(rs) /\ n \in 1..Len(new)
    BY <1>1
  <2>2. \A n \in first..Len(rs) : new[n] = rs[n] /\ new[n].job = n
    BY <2>1, RowsAreRows
  <2>3. new[j].job = j
    BY <1>1, RowsAreRows
  <2> QED
    BY <1>1, <2>2, <2>3 DEF AskedOf, AskedBefore
<1> QED
    BY <1>1, <1>2 DEF ExactAt, Exhausted

LEMMA PassInit == FetchInit /\ IngestInit => PassInv
<1> SUFFICES ASSUME FetchInit, IngestInit PROVE PassInv
    OBVIOUS
<1>1. rows = <<>> /\ tripped = {} /\ consecutive429s = [k \in Kinds |-> 0] /\ stage # "fetching"
    BY DEF IngestInit
<1>2. <<>> \in Rows /\ Len(<<>>) = 0 /\ DOMAIN <<>> = {}
    BY RowsAreRows
<1>3. ASSUME NEW k
      PROVE  StreakIs(<<>>, k, 0)
  <2>1. AskedOf(<<>>, k, 1) = {}
    BY <1>2 DEF AskedOf
  <2>2. 1 \in 1..(0 + 1)
    OBVIOUS
  <2> QED
    BY <1>2, <2>1, <2>2, FS_EmptySet DEF StreakIs
<1>4. stage = "next" => i = 1 /\ Len(Jobs) \in Nat /\ 1 <= Len(Jobs)
  <2>1. Jobs \in Seq(Kinds) /\ (stage = "next" => Jobs # <<>> /\ i = 1)
    BY IngestAssumption DEF IngestInit
  <2>2. \A s \in Seq(Kinds) : s # <<>> => Len(s) \in Nat /\ 1 <= Len(s)
    OBVIOUS
  <2> QED
    BY <2>1, <2>2
<1>5. tripped = {k \in Kinds : consecutive429s[k] >= Threshold}
  <2>1. \A k \in Kinds : ~ (consecutive429s[k] >= Threshold)
    BY <1>1, IngestAssumption
  <2> QED
    BY <1>1, <2>1
<1>6. BreakerInv
    BY <1>1, <1>2, <1>3, <1>4, <1>5 DEF BreakerInv
<1>7. BreakerIsExact
    BY <1>1, <1>2 DEF BreakerIsExact
<1> QED
    BY <1>6, <1>7, FetchBeginsIdle DEF PassInv

(* A row of the board at hand: the counter of its source moves with it.    *)
LEMMA AddingRow ==
    ASSUME BreakerInv, BreakerIsExact, stage \in {"next", "fetching"},
           NEW STATE s, s \in Statuses, NEW STATE a, a \in BOOLEAN,
           ~a <=> Source \in tripped
    PROVE  LET new == Append(rows, Row(s, a)) IN
           /\ new \in Rows /\ Source \in Kinds
           /\ NextJob => (stage' \in {"next", "fetching"} => i' = Len(new) + 1 /\ i' <= Len(Jobs))
           /\ \A j \in DOMAIN new : ExactAt(new, j)
           /\ \A k \in Kinds : ~a \/ k # Source => StreakIs(new, k, consecutive429s[k])
           /\ a /\ s = "429" => StreakIs(new, Source, consecutive429s[Source] + 1)
           /\ a /\ s # "429" => StreakIs(new, Source, 0)
<1> DEFINE new == Append(rows, Row(s, a))
<1>1. /\ rows \in Rows /\ i = Len(rows) + 1 /\ i <= Len(Jobs) /\ Len(rows) \in Nat
      /\ consecutive429s \in [Kinds -> Nat] /\ \A k \in Kinds : StreakIs(rows, k, consecutive429s[k])
    BY RowsAreRows DEF BreakerInv
<1>2. Source \in Kinds /\ Source = Jobs[i]
  <2>1. i \in 1..Len(Jobs) /\ Jobs \in Seq(Kinds)
    BY <1>1, IngestAssumption
  <2> QED
    BY <2>1 DEF Source
<1>3. /\ new \in Rows /\ Len(new) = Len(rows) + 1 /\ \A n \in 1..Len(rows) : new[n] = rows[n]
      /\ new[Len(new)].asked = a /\ new[Len(new)].status = s /\ Len(new) = i
  <2>1. \A rs \in Rows : Len(rs) + 1 <= Len(Jobs) =>
            LET row == [job |-> Len(rs) + 1, status |-> s, asked |-> a] IN
            /\ Append(rs, row) \in Rows /\ Len(Append(rs, row)) = Len(rs) + 1
            /\ Append(rs, row)[Len(rs) + 1] = row
            /\ \A n \in 1..Len(rs) : Append(rs, row)[n] = rs[n]
    BY RowsGrow
  <2>2. Row(s, a) = [job |-> Len(rows) + 1, status |-> s, asked |-> a]
    BY <1>1 DEF Row
  <2>3. Row(s, a).asked = a /\ Row(s, a).status = s
    BY DEF Row
  <2> QED
    BY <1>1, <2>1, <2>2, <2>3
<1> HIDE DEF new
<1>4. Source \in tripped <=> Exhausted(rows, Source)
    BY <1>1, <1>2, StreakTellsExhausted DEF BreakerInv
<1>5. ExactAt(new, Len(new))
    BY <1>1, <1>2, <1>3, <1>4, ExactNew
<1>6. ASSUME NEW j \in DOMAIN new
      PROVE  ExactAt(new, j)
  <2>1. j \in 1..Len(new) /\ Len(new) \in Nat
    BY <1>3, RowsAreRows
  <2>2. j = Len(new) \/ j \in 1..Len(rows)
    BY <1>1, <1>3, <2>1
  <2>3. \A n \in 1..Len(rows) : ExactAt(rows, n)
    BY <1>1, ExactRowByRow, RowsAreRows
  <2> QED
    BY <1>1, <1>3, <1>5, <2>2, <2>3, ExactStays
<1>7. ASSUME NEW k \in Kinds, ~a \/ k # Source
      PROVE  StreakIs(new, k, consecutive429s[k])
    BY <1>1, <1>2, <1>3, <1>7, StreakStays
<1>8. a /\ s = "429" => StreakIs(new, Source, consecutive429s[Source] + 1)
    BY <1>1, <1>2, <1>3, StreakGoesOn
<1>9. a /\ s # "429" => StreakIs(new, Source, 0)
  <2>1. Len(new) >= 1
    BY <1>1, <1>3
  <2> QED
    BY <1>1, <1>2, <1>3, <2>1, StreakEnds
<1>10. NextJob => (stage' \in {"next", "fetching"} => i' = Len(new) + 1 /\ i' <= Len(Jobs))
  <2>1. Len(Jobs) \in Nat
    BY IngestAssumption
  <2> QED
    BY <1>1, <1>3, <2>1 DEF NextJob
<1> QED
    BY <1>2, <1>3, <1>6, <1>7, <1>8, <1>9, <1>10 DEF new

LEMMA PassStep == PassInv /\ [IngestStep]_collectVars => PassInv'
<1> SUFFICES ASSUME PassInv, [IngestStep]_collectVars PROVE PassInv'
    OBVIOUS
<1> USE DEF PassInv
<1>1. ASSUME SkipTripped
      PROVE  PassInv'
  <2>1. /\ stage = "next" /\ Source \in tripped /\ rows' = rows \o <<Row("none", FALSE)>>
        /\ NextJob /\ UNCHANGED <<consecutive429s, tripped, fetchVars>>
    BY <1>1 DEF SkipTripped, RowOfSkipped
  <2> DEFINE new == Append(rows, Row("none", FALSE))
  <2>2. rows' = new
    <3>1. rows \in Seq([job : Nat, status : Statuses, asked : BOOLEAN])
        BY DEF BreakerInv, Rows
    <3>2. \A S : \A q \in Seq(S) : \A e : q \o <<e>> = Append(q, e)
        OBVIOUS
    <3> QED
        BY <2>1, <3>1, <3>2
  <2>3. /\ new \in Rows /\ \A j \in DOMAIN new : ExactAt(new, j)
        /\ stage' \in {"next", "fetching"} => i' = Len(new) + 1 /\ i' <= Len(Jobs)
        /\ \A k \in Kinds : StreakIs(new, k, consecutive429s[k])
    BY <2>1, AddingRow DEF Statuses
  <2> HIDE DEF new
  <2>4. stage' # "fetching"
    BY <2>1 DEF NextJob
  <2>5. BreakerInv'
    BY <2>1, <2>2, <2>3, <2>4 DEF BreakerInv
  <2>6. BreakerIsExact'
    BY <2>2, <2>3, ExactRowByRowNext
  <2>7. FetchInv'
    BY <2>1 DEF fetchVars, callVars, boardVars, FetchInv, FetchTypeOK
  <2> QED
    BY <2>5, <2>6, <2>7
<1>2. ASSUME Record
      PROVE  PassInv'
  <2>1. /\ stage = "fetching" /\ Source \notin tripped /\ NextJob
        /\ rows' = Append(rows, Row(status, TRUE)) /\ status \in Statuses
        /\ consecutive429s' = [consecutive429s EXCEPT ![Source] = Streak]
        /\ tripped' = tripped \cup (IF Streak >= Threshold THEN {Source} ELSE {})
        /\ UNCHANGED fetchVars
    BY <1>2 DEF Record, BreakerInv, FetchInv, FetchTypeOK
  <2> DEFINE new == Append(rows, Row(status, TRUE))
  <2>2. /\ new \in Rows /\ Source \in Kinds /\ \A j \in DOMAIN new : ExactAt(new, j)
        /\ stage' \in {"next", "fetching"} => i' = Len(new) + 1 /\ i' <= Len(Jobs)
        /\ \A k \in Kinds : k # Source => StreakIs(new, k, consecutive429s[k])
        /\ status = "429" => StreakIs(new, Source, consecutive429s[Source] + 1)
        /\ status # "429" => StreakIs(new, Source, 0)
    BY <2>1, AddingRow
  <2>3. rows' = new
    BY <2>1
  <2> HIDE DEF new
  <2>4. /\ consecutive429s \in [Kinds -> Nat] /\ Streak \in Nat
        /\ tripped = {k \in Kinds : consecutive429s[k] >= Threshold}
    BY <2>2 DEF BreakerInv, Streak
  <2>5. /\ consecutive429s' \in [Kinds -> Nat]
        /\ \A k \in Kinds : consecutive429s'[k] = IF k = Source THEN Streak ELSE consecutive429s[k]
    BY <2>1, <2>2, <2>4
  <2>6. \A k \in Kinds : StreakIs(new, k, consecutive429s'[k])
    BY <2>2, <2>5 DEF Streak
  <2>7. tripped' = {k \in Kinds : consecutive429s'[k] >= Threshold}
    BY <2>1, <2>2, <2>4, <2>5
  <2>8. stage' # "fetching"
    BY <2>1 DEF NextJob
  <2>9. BreakerInv'
    BY <2>2, <2>3, <2>5, <2>6, <2>7, <2>8 DEF BreakerInv
  <2>10. BreakerIsExact'
    BY <2>2, <2>3, ExactRowByRowNext
  <2>11. FetchInv'
    BY <2>1 DEF fetchVars, callVars, boardVars, FetchInv, FetchTypeOK
  <2> QED
    BY <2>9, <2>10, <2>11
<1>3. ASSUME Fetch
      PROVE  PassInv'
  <2>1. /\ stage = "next" /\ Source \notin tripped /\ StartFetch(Source)
        /\ stage' = "fetching" /\ UNCHANGED <<i, rows, consecutive429s, tripped>>
    BY <1>3 DEF Fetch
  <2>2. Source \in Kinds
    <3>1. i = Len(rows) + 1 /\ i <= Len(Jobs) /\ Len(rows) \in Nat
        BY <2>1, RowsAreRows DEF BreakerInv
    <3>2. i \in 1..Len(Jobs) /\ Jobs \in Seq(Kinds)
        BY <3>1, IngestAssumption
    <3> QED
        BY <3>2 DEF Source
  <2>3. FetchInv'
    BY <2>1, <2>2, FetchBegins
  <2>4. BreakerInv' /\ BreakerIsExact'
    BY <2>1, ExactWhileRowsStay DEF BreakerInv, Source
  <2> QED
    BY <2>3, <2>4
<1>4. ASSUME Fetching
      PROVE  PassInv'
  <2>1. FetchInv'
    BY <1>4, FetchingStep DEF Fetching
  <2>2. BreakerInv' /\ BreakerIsExact'
    BY <1>4, ExactWhileRowsStay DEF Fetching, ingestVars, BreakerInv, Source
  <2> QED
    BY <2>1, <2>2
<1>5. ASSUME Abort
      PROVE  PassInv'
  <2>1. BreakerInv' /\ BreakerIsExact'
    BY <1>5, ExactWhileRowsStay DEF Abort, BreakerInv
  <2>2. FetchInv'
    BY <1>5 DEF Abort, fetchVars, callVars, boardVars, FetchInv, FetchTypeOK
  <2> QED
    BY <2>1, <2>2
<1>6. CASE UNCHANGED collectVars
  <2>1. BreakerInv' /\ BreakerIsExact'
    BY <1>6, ExactWhileRowsStay DEF collectVars, ingestVars, BreakerInv, Source
  <2>2. FetchInv'
    BY <1>6 DEF collectVars, fetchVars, callVars, boardVars, FetchInv, FetchTypeOK
  <2> QED
    BY <2>1, <2>2
<1> QED
    BY <1>1, <1>2, <1>3, <1>4, <1>5, <1>6 DEF IngestStep

(* A pass that is done has gone through its boards.                        *)
WholePass == stage = "done" => Len(rows) = Len(Jobs)

LEMMA WholePassStep == PassInv /\ WholePass /\ [IngestStep]_collectVars => WholePass'
<1> SUFFICES ASSUME PassInv, WholePass, [IngestStep]_collectVars PROVE WholePass'
    OBVIOUS
<1>1. rows \in Seq([job : Nat, status : Statuses, asked : BOOLEAN]) /\ Len(rows) \in Nat
    BY RowsAreRows DEF PassInv, BreakerInv, Rows
<1>2. ASSUME NEW r, rows' = Append(rows, r), NextJob, stage \in {"next", "fetching"}
      PROVE  WholePass'
  <2>1. Len(rows') = Len(rows) + 1
    BY <1>1, <1>2
  <2>2. i = Len(rows) + 1 /\ (stage' = "done" => i = Len(Jobs))
    BY <1>2 DEF PassInv, BreakerInv, NextJob
  <2> QED
    BY <2>1, <2>2 DEF WholePass
<1>3. ASSUME SkipTripped
      PROVE  WholePass'
  <2>1. \A S : \A q \in Seq(S) : \A e : q \o <<e>> = Append(q, e)
    OBVIOUS
  <2>2. rows' = Append(rows, Row("none", FALSE))
    BY <1>1, <1>3, <2>1 DEF SkipTripped, RowOfSkipped
  <2> QED
    BY <1>2, <1>3, <2>2 DEF SkipTripped
<1>4. ASSUME Record
      PROVE  WholePass'
    BY <1>2, <1>4 DEF Record
<1>5. CASE stage' = stage /\ rows' = rows
    BY <1>5 DEF WholePass
<1>6. CASE stage' # "done"
    BY <1>6 DEF WholePass
<1> QED
    BY <1>3, <1>4, <1>5, <1>6 DEF IngestStep, Fetch, Fetching, Abort, collectVars, ingestVars

(* ingest.run: whatever the servers answered, a pass that is done has left *)
(* a row for every configured board (that it gets done is TLC's part).     *)
THEOREM FinishedPassIsWhole ==
    IngestSpec => [](stage = "done" => \A j \in 1..Len(Jobs) : \E r \in ToSet(rows) : r.job = j)
<1>1. FetchInit /\ IngestInit => PassInv /\ WholePass
  <2>1. Jobs = <<>> => Len(<<>>) = Len(Jobs)
    OBVIOUS
  <2> QED
    BY <2>1, PassInit DEF IngestInit, WholePass
<1>2. PassInv /\ WholePass /\ [IngestStep]_collectVars => PassInv' /\ WholePass'
    BY PassStep, WholePassStep
<1>3. PassInv /\ WholePass =>
         (stage = "done" => \A j \in 1..Len(Jobs) : \E r \in ToSet(rows) : r.job = j)
    BY RowsAreRows DEF PassInv, BreakerInv, WholePass, ToSet
<1> QED
    BY <1>1, <1>2, <1>3, PTL DEF IngestSpec

(* What a fetch lacks of its board, over the steps of a pass.              *)
LEMMA TornPassStep == PassInv /\ TornInv /\ [IngestStep]_collectVars => TornInv'
<1> SUFFICES ASSUME PassInv, TornInv, [IngestStep]_collectVars PROVE TornInv'
    OBVIOUS
<1>1. ASSUME UNCHANGED fetchVars
      PROVE  TornInv'
    BY <1>1, TornStays
<1>2. ASSUME Fetch
      PROVE  TornInv'
  <2>1. stage = "next" /\ StartFetch(Source)
    BY <1>2 DEF Fetch
  <2>2. Source \in Kinds
    <3>1. i = Len(rows) + 1 /\ i <= Len(Jobs) /\ Len(rows) \in Nat
        BY <2>1, RowsAreRows DEF PassInv, BreakerInv
    <3>2. i \in 1..Len(Jobs) /\ Jobs \in Seq(Kinds)
        BY <3>1, IngestAssumption
    <3> QED
        BY <3>2 DEF Source
  <2> QED
    BY <2>1, <2>2, TornBegins
<1>3. ASSUME Fetching
      PROVE  TornInv'
    BY <1>3, TornStep DEF Fetching
<1> QED
    BY <1>1, <1>2, <1>3 DEF IngestStep, SkipTripped, Record, Abort, collectVars

LEMMA TornPass == IngestSpec => []TornInv
<1>1. FetchInit /\ IngestInit => PassInv /\ TornInv
    BY PassInit, TornInit
<1>2. PassInv /\ TornInv /\ [IngestStep]_collectVars => PassInv' /\ TornInv'
    BY PassStep, TornPassStep
<1> QED
    BY <1>1, <1>2, PTL DEF IngestSpec

(* fetch of each source: a board that stays as it is while it is read is   *)
(* archived whole or not at all, however many pages it has.                *)
THEOREM StillBoardsAreFetchedWhole == IngestSpec => []StillBoardIsFetchedWhole
<1>1. TornInv => StillBoardIsFetchedWhole
    BY DEF TornInv
<1> QED
    BY <1>1, TornPass, PTL

(* The page loops of Lever and Workday: what a board that changes between  *)
(* two pages can cost, for boards, pages and changes of any number.        *)
THEOREM TornFetchesLoseLittle == IngestSpec => []TornFetchLosesLittle
<1>1. TornInv => TornFetchLosesLittle
    BY DEF TornInv
<1> QED
    BY <1>1, TornPass, PTL

(* _request_with_retries and the page loops of sources/: whatever a server *)
(* answers, a request is sent MAX_RETRIES + 1 times at most and at most    *)
(* MAX_PAGES pages are read, on boards of any size.                        *)
THEOREM FetchesAreBounded == IngestSpec => []FetchTypeOK
<1>1. PassInv => FetchTypeOK
    BY DEF PassInv, FetchInv
<1> QED
    BY <1>1, PassInit, PassStep, PTL DEF IngestSpec

(* consecutive_429s in ingest.run: the breaker leaves out the boards it    *)
(* should and no others, whatever the sources answer in whatever order.    *)
THEOREM BreakerStaysExact == IngestSpec => []BreakerIsExact
<1>1. PassInv => BreakerIsExact
    BY DEF PassInv
<1> QED
    BY <1>1, PassInit, PassStep, PTL DEF IngestSpec

-----------------------------------------------------------------------------
(* The results file.                                                       *)

IsLine(r) == r = Line(r.code, r.status, r.count)

(* During a run, existing is what the file held when it began, read with a *)
(* status for every row, with this run's answers over it.                  *)
LoadedRow(row) == Line(row.code, RecordedStatus(row), row.count)

RunInMemory ==
    /\ \A t \in DOMAIN results : IsLine(results[t])
    /\ \A t \in DOMAIN answers : IsLine(answers[t]) /\ answers[t].status # ""
    /\ probe # "idle" =>
          /\ DOMAIN existing = DOMAIN results \cup DOMAIN answers
          /\ \A t \in DOMAIN existing :
                existing[t] = IF t \in DOMAIN answers THEN answers[t] ELSE LoadedRow(results[t])

ResultsInv == RunInMemory /\ ResultsFileIsFaithful

LEMMA LinesHaveFields ==
    ASSUME NEW c, NEW s, NEW n
    PROVE  /\ IsLine(Line(c, s, n)) /\ Line(c, s, n).code = c
           /\ Line(c, s, n).status = s /\ Line(c, s, n).count = n
BY DEF IsLine, Line

LEMMA LineOf ==
    ASSUME NEW r, NEW c, NEW s, NEW n, r = Line(c, s, n)
    PROVE  IsLine(r) /\ r.code = c /\ r.status = s /\ r.count = n
BY LinesHaveFields

(* A status that is there is kept, and reading a row gives it one.         *)
LEMMA StatusIsRead ==
    ASSUME NEW r
    PROVE  RecordedStatus(r) # "" /\ (r.status # "" => RecordedStatus(r) = r.status)
BY DEF RecordedStatus

LEMMA LoadedRows ==
    ASSUME NEW t \in DOMAIN results, IsLine(results[t])
    PROVE  /\ t \in DOMAIN Loaded /\ Loaded[t] = LoadedRow(results[t])
           /\ IsLine(LoadedRow(results[t])) /\ LoadedRow(results[t]).code = results[t].code
           /\ RecordedStatus(LoadedRow(results[t])) = RecordedStatus(results[t])
<1>1. [results[t] EXCEPT !.status = RecordedStatus(results[t])] = LoadedRow(results[t])
    BY DEF IsLine, Line, LoadedRow
<1>2. LoadedRow(results[t]).status = RecordedStatus(results[t])
    BY DEF LoadedRow, Line
<1>3. IsLine(LoadedRow(results[t])) /\ LoadedRow(results[t]).code = results[t].code
    BY LinesHaveFields DEF LoadedRow
<1>4. RecordedStatus(results[t]) # ""
    BY StatusIsRead
<1>5. RecordedStatus(LoadedRow(results[t])) = LoadedRow(results[t]).status
    BY <1>2, <1>4, StatusIsRead
<1>6. t \in DOMAIN Loaded /\ Loaded[t] = [results[t] EXCEPT !.status = RecordedStatus(results[t])]
    BY DEF Loaded
<1> QED
    BY <1>1, <1>2, <1>3, <1>5, <1>6

LEMMA AnswersHaveStatus == IsLine(LineOfResult) /\ LineOfResult.status # ""
<1>1. ResultStatus # ""
    BY DEF ResultStatus
<1>2. PICK c, n : LineOfResult = Line(c, ResultStatus, n)
    BY DEF LineOfResult
<1> QED
    BY <1>1, <1>2 DEF Line, IsLine

(* A row of the old version reads as what it recorded.                     *)
LEMMA OldRowsAreRead ==
    ASSUME NEW answer \in {Line("200", "working", "n"), Line("200", "empty", "0"),
                           Line("200", "failed", ""), Line("429", "failed", "")},
           NEW row, row = Line(answer.code, "", answer.count)
    PROVE  IsLine(row) /\ row.code = answer.code /\ RecordedStatus(row) = answer.status
<1>1. /\ answer.code \in {"200", "429"}
      /\ \/ answer.code = "200" /\ answer.status = "working" /\ answer.count = "n"
         \/ answer.code = "200" /\ answer.status = "empty" /\ answer.count = "0"
         \/ answer.status = "failed" /\ answer.count = ""
    BY LineOf
<1>2. IsLine(row) /\ row.code = answer.code /\ row.status = "" /\ row.count = answer.count
  <2>1. row.code = answer.code /\ row.status = "" /\ row.count = answer.count
    BY DEF Line
  <2> QED
    BY <2>1 DEF IsLine
<1> QED
    BY <1>1, <1>2 DEF RecordedStatus

LEMMA ResultsInit == DiscoveryInit => ResultsInv
BY DEF DiscoveryInit, ResultsInv, RunInMemory, ResultsFileIsFaithful, NoRows

LEMMA ResultsStep ==
    ASSUME ResultsInv, [DiscoveryStep]_<<discoveryVars, fetchVars>>
    PROVE  ResultsInv'
<1> USE DEF ResultsInv
<1>1. ASSUME OldFile
      PROVE  ResultsInv'
  <2>1. DOMAIN results' = DOMAIN answered' /\ UNCHANGED <<probe, existing, answers>> /\ probe = "idle"
    BY <1>1 DEF OldFile
  <2>2. ASSUME NEW t \in DOMAIN results'
        PROVE  /\ IsLine(results'[t]) /\ results'[t].code = answered'[t].code
               /\ RecordedStatus(results'[t]) = answered'[t].status
    <3>1. answered'[t] \in {Line("200", "working", "n"), Line("200", "empty", "0"),
                            Line("200", "failed", ""), Line("429", "failed", "")}
        BY <1>1, <2>2 DEF OldFile
    <3>2. results'[t] = Line(answered'[t].code, "", answered'[t].count)
        BY <1>1, <2>2 DEF OldFile
    <3> QED
        BY <3>1, <3>2, OldRowsAreRead
  <2> QED
    BY <2>1, <2>2 DEF RunInMemory, ResultsFileIsFaithful
<1>2. ASSUME NEW tokens, Begin(tokens)
      PROVE  ResultsInv'
  <2>1. /\ existing' = Loaded /\ answers' = NoRows /\ UNCHANGED <<results, answered, torn>>
    BY <1>2 DEF Begin
  <2>2. DOMAIN existing' = DOMAIN results /\ DOMAIN answers' = {}
    BY <2>1 DEF Loaded, NoRows
  <2>3. \A t \in DOMAIN existing' : existing'[t] = LoadedRow(results[t])
    BY <2>1, <2>2, LoadedRows DEF RunInMemory
  <2> QED
    BY <2>1, <2>2, <2>3 DEF RunInMemory, ResultsFileIsFaithful
<1>3. ASSUME Note
      PROVE  ResultsInv'
  <2> DEFINE answer == [t \in {Head(candidates)} |-> LineOfResult]
  <2>1. /\ existing' = Merged(existing, answer) /\ answers' = Merged(answers, answer)
        /\ probe = "fetching" /\ UNCHANGED <<results, answered, torn>>
    BY <1>3 DEF Note
  <2>2. IsLine(LineOfResult) /\ LineOfResult.status # ""
    BY AnswersHaveStatus
  <2>3. /\ \A t \in DOMAIN answers' : IsLine(answers'[t]) /\ answers'[t].status # ""
        /\ DOMAIN existing' = DOMAIN results \cup DOMAIN answers'
        /\ \A t \in DOMAIN existing' :
              existing'[t] = IF t \in DOMAIN answers' THEN answers'[t] ELSE LoadedRow(results[t])
    BY <2>1, <2>2 DEF Merged, RunInMemory
  <2> QED
    BY <2>1, <2>3 DEF RunInMemory, ResultsFileIsFaithful
<1>4. ASSUME SaveResults
      PROVE  ResultsInv'
  <2>1. /\ results' = existing /\ answered' = Merged(answered, answers) /\ probe = "save"
        /\ answers' = NoRows /\ probe' = "idle" /\ UNCHANGED torn
    BY <1>4 DEF SaveResults, SavedRows
  <2>2. ASSUME NEW t \in DOMAIN existing
        PROVE  /\ IsLine(existing[t])
               /\ ~torn => /\ t \in DOMAIN answered \cup DOMAIN answers
                           /\ existing[t].code = answered'[t].code
                           /\ RecordedStatus(existing[t]) = answered'[t].status
    <3>1. CASE t \in DOMAIN answers
        BY <2>1, <3>1, StatusIsRead DEF RunInMemory, Merged
    <3>2. CASE t \notin DOMAIN answers
      <4>1. t \in DOMAIN results /\ existing[t] = LoadedRow(results[t])
        BY <2>1, <3>2 DEF RunInMemory
      <4>2. ~torn => t \in DOMAIN answered /\ answered'[t] = answered[t]
        BY <2>1, <3>2, <4>1 DEF Merged, ResultsFileIsFaithful
      <4> QED
        BY <4>1, <4>2, LoadedRows DEF RunInMemory, ResultsFileIsFaithful
    <3> QED
        BY <3>1, <3>2
  <2>3. ~torn => DOMAIN existing = DOMAIN answered'
    BY <2>1 DEF Merged, RunInMemory, ResultsFileIsFaithful
  <2> QED
    BY <2>1, <2>2, <2>3 DEF RunInMemory, ResultsFileIsFaithful, NoRows
<1>5. ASSUME Abandon
      PROVE  ResultsInv'
  <2>1. probe' = "idle" /\ answers' = NoRows /\ UNCHANGED answered /\ probe # "idle"
    BY <1>5 DEF Abandon
  <2>2. CASE UNCHANGED <<results, torn>>
    BY <2>1, <2>2 DEF RunInMemory, ResultsFileIsFaithful, NoRows
  <2>3. ASSUME torn', NEW kept \in SUBSET DOMAIN existing,
               results' = [t \in kept |-> existing[t]]
        PROVE  ResultsInv'
    <3>1. ASSUME NEW t \in DOMAIN existing
          PROVE  IsLine(existing[t])
      <4>1. CASE t \in DOMAIN answers
        BY <2>1, <4>1 DEF RunInMemory
      <4>2. CASE t \notin DOMAIN answers
        BY <2>1, <4>2, LoadedRows DEF RunInMemory
      <4> QED
        BY <4>1, <4>2
    <3> QED
        BY <2>1, <2>3, <3>1 DEF RunInMemory, ResultsFileIsFaithful, NoRows
  <2> QED
    BY <1>5, <2>2, <2>3 DEF Abandon
<1>6. ASSUME ProbeNext \/ Probing \/ UNCHANGED <<discoveryVars, fetchVars>>
      PROVE  ResultsInv'
    BY <1>6 DEF ProbeNext, Probing, discoveryVars, RunInMemory, ResultsFileIsFaithful
<1> QED
    BY <1>1, <1>2, <1>3, <1>4, <1>5, <1>6 DEF DiscoveryStep, ProbeAll, Retest

(* main and load_results of check_tokens.py: whatever is probed, retested  *)
(* or killed, and whatever the boards answer, the file keeps the last      *)
(* saved answer of every token, unless a run was killed while writing it.  *)
THEOREM ResultsStayFaithful == DiscoverySpec => []ResultsFileIsFaithful
<1>1. ResultsInv => ResultsFileIsFaithful
    BY DEF ResultsInv
<1> QED
    BY <1>1, ResultsInit, ResultsStep, PTL DEF DiscoverySpec

-----------------------------------------------------------------------------
(* The labels.                                                             *)

SheetRow == [url : ToSet(Urls), label : Labels \cup {""}]

(* What a working file says was said by the user.                          *)
SaysGiven(rs) == \A n \in DOMAIN rs : IsLabelled(rs[n]) => <<rs[n].url, rs[n].label>> \in given

(* A session works on its file as it is on disk, and between two saves     *)
(* everything labelled in it is in labels.csv: Open exports what earlier   *)
(* sessions left, SyncRow what this one adds.                              *)
SessionOK ==
    /\ saved \in BOOLEAN /\ (saved => file # "")
    /\ file # "" =>
          /\ file \in Files /\ sheet = files[file]
          /\ DOMAIN visit = 1..Len(visit) /\ Len(visit) \in Nat
          /\ \A n \in DOMAIN visit : visit[n] \in DOMAIN sheet
          /\ position \in DOMAIN visit
          /\ ~saved => LabelledIn(sheet) \subseteq DOMAIN labels

LabelInv ==
    /\ files \in [Files -> Seq(SheetRow)]
    /\ \A f \in Files : SaysGiven(files[f])
    /\ SessionOK
    /\ LabelsAreKept

LEMMA MaxOfNats ==
    ASSUME NEW S \in SUBSET Nat, S # {}, NEW b \in Nat, \A x \in S : x <= b
    PROVE  Max(S) \in S /\ \A x \in S : x <= Max(S)
<1> DEFINE below == {b - x : x \in S}
<1>1. below \subseteq Nat /\ below # {}
  <2>1. \A x \in S : b - x \in Nat
    OBVIOUS
  <2> QED
    BY <2>1
<1>2. PICK d \in below : \A e \in below : ~ (<<e, d>> \in OpToRel(<, Nat))
    BY <1>1, WFMin, NatLessThanWellFounded
<1>3. PICK m \in S : d = b - m
    OBVIOUS
<1>4. ASSUME NEW x \in S
      PROVE  m >= x
  <2>1. b - x \in below /\ b - x \in Nat /\ d \in Nat
    OBVIOUS
  <2>2. ~ (b - x < d)
    BY <1>2, <2>1 DEF OpToRel
  <2> QED
    BY <1>3, <2>2
<1> QED
    BY <1>4 DEF Max

(* The label a file gives a url is the label of a row of that url.         *)
LEMMA LabelIsOfRow ==
    ASSUME NEW rs \in Seq(SheetRow), NEW u \in LabelledIn(rs)
    PROVE  \E n \in DOMAIN rs : IsLabelled(rs[n]) /\ rs[n].url = u /\ LabelOf(rs, u) = rs[n].label
<1> DEFINE found == {n \in 1..Len(rs) : rs[n].url = u /\ IsLabelled(rs[n])}
<1>1. DOMAIN rs = 1..Len(rs) /\ Len(rs) \in Nat
    OBVIOUS
<1>2. found # {}
    BY <1>1 DEF LabelledIn, ToSet
<1>3. Max(found) \in found
  <2>1. found \subseteq Nat /\ \A n \in found : n <= Len(rs)
    OBVIOUS
  <2> QED
    BY <1>1, <1>2, <2>1, MaxOfNats
<1>4. LabelOf(rs, u) = rs[Max(found)].label
    BY <1>2 DEF LabelOf, SelectLastInSeq
<1> QED
    BY <1>1, <1>3, <1>4

LEMMA RowsOfSheet ==
    ASSUME NEW rs \in Seq(SheetRow), NEW u
    PROVE  u \in LabelledIn(rs) <=> \E n \in DOMAIN rs : IsLabelled(rs[n]) /\ rs[n].url = u
BY DEF LabelledIn, ToSet

LEMMA SheetsAreSequences ==
    /\ <<>> \in Seq(SheetRow)
    /\ \A rs \in Seq(SheetRow) : DOMAIN rs = 1..Len(rs) /\ Len(rs) \in Nat
    /\ \A n \in Nat : \A rs \in [1..n -> SheetRow] : rs \in Seq(SheetRow)
OBVIOUS

LEMMA IntervalIsFinite ==
    ASSUME NEW n \in Nat
    PROVE  IsFiniteSet(1..n)
BY FS_Interval

LEMMA PartsOfFilesAreFinite ==
    /\ \A S \in SUBSET ToSet(Urls) : Cardinality(S) \in Nat
    /\ \A rs \in Seq(SheetRow) : \A S \in SUBSET DOMAIN rs : Cardinality(S) \in Nat
<1>1. IsFiniteSet(ToSet(Urls))
  <2>1. DOMAIN Urls = 1..Len(Urls) /\ Len(Urls) \in Nat /\ Urls \in [DOMAIN Urls -> ToSet(Urls)]
    BY UrlsAssumption
  <2>2. IsFiniteSet(DOMAIN Urls)
    <3>1. IsFiniteSet(1..Len(Urls))
        BY <2>1, IntervalIsFinite
    <3> QED
        BY <2>1, <3>1
  <2>3. \A u \in ToSet(Urls) : \E n \in DOMAIN Urls : Urls[n] = u
    BY DEF ToSet
  <2>4. Urls \in Surjection(DOMAIN Urls, ToSet(Urls))
    BY <2>1, <2>3 DEF Surjection
  <2> QED
    BY <2>2, <2>4, FS_Surjection
<1>2. \A rs \in Seq(SheetRow) : IsFiniteSet(DOMAIN rs)
    BY FS_Interval
<1> QED
    BY <1>1, <1>2, FS_Subset, FS_CardinalityType

(* Merging a sheet into labels.csv adds what the sheet labels, and says    *)
(* nothing but what was given.                                             *)
LEMMA SyncingMerges ==
    ASSUME LabelInv, NEW rs \in Seq(SheetRow), SaysGiven(rs)
    PROVE  /\ DOMAIN Synced(rs) = DOMAIN labels \cup LabelledIn(rs)
           /\ \A u \in DOMAIN Synced(rs) : <<u, Synced(rs)[u]>> \in given
<1>1. DOMAIN Synced(rs) = DOMAIN labels \cup LabelledIn(rs)
    BY DEF Synced
<1>2. ASSUME NEW u \in DOMAIN Synced(rs)
      PROVE  <<u, Synced(rs)[u]>> \in given
  <2>1. CASE u \in LabelledIn(rs)
    <3>1. Synced(rs)[u] = LabelOf(rs, u)
        BY <2>1 DEF Synced
    <3>2. PICK n \in DOMAIN rs :
              IsLabelled(rs[n]) /\ rs[n].url = u /\ LabelOf(rs, u) = rs[n].label
        BY <2>1, LabelIsOfRow
    <3> QED
        BY <3>1, <3>2 DEF SaysGiven
  <2>2. CASE u \notin LabelledIn(rs)
    BY <1>1, <1>2, <2>2 DEF Synced, LabelInv, LabelsAreKept
  <2> QED
    BY <2>1, <2>2
<1> QED
    BY <1>1, <1>2

(* What a step leaves alone: nothing is said that was not given, and what  *)
(* was given stays where it was.                                           *)
KeptBy(fs, ls, gone) ==
    /\ \A g \in given : \/ g[1] \in DOMAIN ls \cup gone
                        \/ \E f \in Files : g[1] \in LabelledIn(fs[f])
    /\ \A u \in DOMAIN ls : <<u, ls[u]>> \in given

LEMMA TearingKeeps ==
    ASSUME LabelInv, NEW rs \in Seq(SheetRow), SaysGiven(rs), SyncLabels(rs) \/ TearLabels(rs)
    PROVE  KeptBy(files, labels', lost')
<1>1. /\ DOMAIN Synced(rs) = DOMAIN labels \cup LabelledIn(rs)
      /\ \A u \in DOMAIN Synced(rs) : <<u, Synced(rs)[u]>> \in given
    BY SyncingMerges
<1>2. LabelsAreKept
    BY DEF LabelInv
<1>3. CASE SyncLabels(rs)
    BY <1>1, <1>2, <1>3 DEF SyncLabels, LabelsAreKept, KeptBy
<1>4. CASE TearLabels(rs)
  <2>1. PICK kept \in SUBSET DOMAIN Synced(rs) :
            /\ labels' = [u \in kept |-> Synced(rs)[u]]
            /\ lost' = lost \cup (DOMAIN Synced(rs) \ kept)
    BY <1>4 DEF TearLabels
  <2> QED
    BY <1>1, <1>2, <2>1 DEF LabelsAreKept, KeptBy
<1> QED
    BY <1>3, <1>4

LEMMA LabelsInit == LabellingInit => LabelInv
<1> SUFFICES ASSUME LabellingInit PROVE LabelInv
    OBVIOUS
<1>1. files \in [Files -> Seq(SheetRow)] /\ \A f \in Files : files[f] = <<>>
    BY SheetsAreSequences DEF LabellingInit
<1>2. \A f \in Files : SaysGiven(files[f])
    BY <1>1 DEF SaysGiven
<1>3. SessionOK /\ LabelsAreKept
    BY DEF LabellingInit, SessionOK, LabelsAreKept, NoLabels
<1> QED
    BY <1>1, <1>2, <1>3 DEF LabelInv

LEMMA SampleStep ==
    ASSUME LabelInv, NEW f \in Files, NEW STATE excluded, SampleTo(f, excluded)
    PROVE  LabelInv'
<1>a. PICK S \in SUBSET ToSet(Urls) : \E sampled \in Shuffled(S) :
          files' = [files EXCEPT ![f] = [n \in DOMAIN sampled |-> [url |-> sampled[n], label |-> ""]]]
    BY DEF SampleTo
<1>1. PICK sampled \in Shuffled(S) :
          files' = [files EXCEPT ![f] = [n \in DOMAIN sampled |-> [url |-> sampled[n], label |-> ""]]]
    BY <1>a
<1> DEFINE fresh == [n \in DOMAIN sampled |-> [url |-> sampled[n], label |-> ""]]
<1>2. /\ UNCHANGED <<labels, file, saved, given>> /\ file = ""
      /\ lost' = lost \cup (LabelledIn(files[f]) \ DOMAIN labels)
    BY DEF SampleTo, sessionVars
<1>3. fresh \in Seq(SheetRow)
  <2>1. Cardinality(S) \in Nat /\ sampled \in [1..Cardinality(S) -> ToSet(Urls)]
    BY PartsOfFilesAreFinite DEF Shuffled
  <2>2. \A n \in 1..Cardinality(S) : [url |-> sampled[n], label |-> ""] \in SheetRow
    BY <2>1 DEF SheetRow
  <2>3. fresh \in [1..Cardinality(S) -> SheetRow]
    BY <2>1, <2>2
  <2> HIDE DEF fresh
  <2> QED
    BY <2>1, <2>3, SheetsAreSequences
<1>4. \A n \in DOMAIN fresh : ~IsLabelled(fresh[n])
    BY DEF IsLabelled
<1>5. /\ files \in [Files -> Seq(SheetRow)] /\ files' = [files EXCEPT ![f] = fresh]
    BY <1>1 DEF LabelInv
<1> HIDE DEF fresh
<1>6. files' \in [Files -> Seq(SheetRow)]
    BY <1>3, <1>5
<1>7. \A e \in Files : files'[e] = IF e = f THEN fresh ELSE files[e]
    BY <1>5
<1>8. ASSUME NEW e \in Files
      PROVE  SaysGiven(files[e])'
    BY <1>2, <1>4, <1>7 DEF SaysGiven, LabelInv
<1>9. SessionOK'
    BY <1>2 DEF SessionOK, LabelInv
<1>10. LabelsAreKept'
    BY <1>2, <1>7 DEF LabelsAreKept, LabelInv
<1> QED
    BY <1>6, <1>8, <1>9, <1>10 DEF LabelInv

LEMMA OpenStep ==
    ASSUME LabelInv, NEW f \in Files, Open(f)
    PROVE  LabelInv'
<1>1. /\ file = "" /\ ~saved /\ UNCHANGED <<files, given>>
      /\ files[f] \in Seq(SheetRow) /\ SaysGiven(files[f])
      /\ SyncLabels(files[f]) \/ TearLabels(files[f])
    BY DEF Open, LabelInv, SessionOK
<1>2. LabelsAreKept'
    BY <1>1, TearingKeeps DEF KeptBy, LabelsAreKept
<1>3. \A e \in Files : SaysGiven(files[e])'
    BY <1>1 DEF LabelInv, SaysGiven
<1>4. SessionOK'
  <2>1. CASE UNCHANGED sessionVars
    BY <1>1, <2>1 DEF sessionVars, SessionOK, LabelInv
  <2>2. CASE /\ SyncLabels(files[f]) /\ Unlabelled(files[f]) # {}
             /\ file' = f /\ sheet' = files[f] /\ visit' \in InOrder(Unlabelled(files[f]))
             /\ position' = 1 /\ saved' = FALSE
    <3> DEFINE todo == Unlabelled(files[f])
    <3>1. todo \subseteq DOMAIN files[f] /\ Cardinality(todo) \in Nat
        BY <1>1, PartsOfFilesAreFinite DEF Unlabelled
    <3>2. visit' \in [1..Cardinality(todo) -> todo]
        BY <2>2 DEF InOrder
    <3>3. Cardinality(todo) > 0
      <4>1. IsFiniteSet(todo)
        <5>1. DOMAIN files[f] = 1..Len(files[f]) /\ Len(files[f]) \in Nat
            BY <1>1, SheetsAreSequences
        <5>2. IsFiniteSet(DOMAIN files[f])
            BY <5>1, IntervalIsFinite
        <5> QED
            BY <3>1, <5>2, FS_Subset
      <4> QED
        BY <2>2, <3>1, <4>1, FS_EmptySet
    <3>4. LabelledIn(files[f]) \subseteq DOMAIN labels'
        BY <1>1, <2>2, SyncingMerges DEF SyncLabels
    <3>5. /\ DOMAIN visit' = 1..Len(visit') /\ Len(visit') \in Nat /\ 1 \in DOMAIN visit'
          /\ \A n \in DOMAIN visit' : visit'[n] \in DOMAIN files[f]
        BY <3>1, <3>2, <3>3
    <3> QED
        BY <1>1, <2>2, <3>4, <3>5, FilesAssumption DEF SessionOK
  <2> QED
    BY <2>1, <2>2 DEF Open
<1> QED
    BY <1>1, <1>2, <1>3, <1>4 DEF LabelInv

LEMMA LabelRowStep ==
    ASSUME LabelInv, LabelRow
    PROVE  LabelInv'
<1> DEFINE v == visit[position]
<1>1. /\ file \in Files /\ sheet = files[file] /\ sheet \in Seq(SheetRow)
      /\ v \in DOMAIN sheet /\ files \in [Files -> Seq(SheetRow)]
  <2>1. files \in [Files -> Seq(SheetRow)] /\ SessionOK /\ file # ""
    BY DEF LabelRow, LabelInv
  <2>2. file \in Files /\ sheet = files[file] /\ visit[position] \in DOMAIN sheet
    BY <2>1 DEF SessionOK
  <2> QED
    BY <2>1, <2>2
<1>2. PICK l \in Labels : sheet' = [sheet EXCEPT ![v].label = l]
    BY DEF LabelRow
<1>3. /\ files' = [files EXCEPT ![file] = sheet'] /\ saved' = TRUE
      /\ given' = given \cup {<<sheet'[v].url, sheet'[v].label>>}
      /\ UNCHANGED <<file, visit, position, labels, lost>>
    BY DEF LabelRow
<1>4. l # ""
    BY LabelsAssumption
<1>5. sheet[v] \in SheetRow
    BY <1>1
<1> DEFINE row == [sheet[v] EXCEPT !.label = l]
<1>6. row \in SheetRow /\ row.url = sheet[v].url /\ row.label = l
    BY <1>5 DEF SheetRow
<1>a. sheet' = [sheet EXCEPT ![v] = row]
    BY <1>2
<1> HIDE DEF row, v
<1>7. /\ sheet' \in Seq(SheetRow) /\ DOMAIN sheet' = DOMAIN sheet
      /\ sheet'[v].url = sheet[v].url /\ sheet'[v].label = l
      /\ \A n \in DOMAIN sheet : n # v => sheet'[n] = sheet[n]
    BY <1>1, <1>6, <1>a
<1>8. /\ files' \in [Files -> Seq(SheetRow)]
      /\ \A f \in Files : files'[f] = IF f = file THEN sheet' ELSE files[f]
    BY <1>1, <1>3, <1>7
<1>9. SaysGiven(sheet)' 
    BY <1>1, <1>3, <1>7 DEF SaysGiven, LabelInv
<1>10. \A f \in Files : SaysGiven(files[f])'
    BY <1>3, <1>8, <1>9 DEF SaysGiven, LabelInv
<1>11. SessionOK'
    BY <1>1, <1>3, <1>7, <1>8 DEF SessionOK, LabelInv, LabelRow
<1>12. LabelledIn(sheet) \subseteq LabelledIn(sheet') /\ sheet'[v].url \in LabelledIn(sheet')
  <2>1. /\ \A u : u \in LabelledIn(sheet) <=>
                     \E n \in DOMAIN sheet : IsLabelled(sheet[n]) /\ sheet[n].url = u
        /\ \A u : u \in LabelledIn(sheet') <=>
                     \E n \in DOMAIN sheet' : IsLabelled(sheet'[n]) /\ sheet'[n].url = u
    BY <1>1, <1>7 DEF LabelledIn, ToSet
  <2>2. IsLabelled(sheet'[v])
    BY <1>4, <1>7 DEF IsLabelled
  <2> QED
    BY <1>1, <1>7, <2>1, <2>2
<1>13. LabelsAreKept'
  <2>1. ASSUME NEW g \in given'
        PROVE  g[1] \in DOMAIN labels \cup lost \/ \E f \in Files : g[1] \in LabelledIn(files'[f])
    <3>1. CASE g = <<sheet'[v].url, sheet'[v].label>>
        BY <1>1, <1>8, <1>12, <3>1
    <3>2. CASE g \in given
        BY <1>1, <1>8, <1>12, <3>2 DEF LabelInv, LabelsAreKept
    <3> QED
        BY <1>3, <2>1, <3>1, <3>2
  <2> QED
    BY <1>3, <2>1 DEF LabelInv, LabelsAreKept
<1> QED
    BY <1>8, <1>10, <1>11, <1>13 DEF LabelInv

LEMMA SyncRowStep ==
    ASSUME LabelInv, SyncRow \/ KilledWhileSyncing
    PROVE  LabelInv'
<1>1. /\ saved /\ file \in Files /\ sheet = files[file] /\ sheet \in Seq(SheetRow)
      /\ SaysGiven(sheet)
      /\ SyncLabels(sheet) \/ TearLabels(sheet)
      /\ UNCHANGED <<files, given>>
    BY DEF SyncRow, KilledWhileSyncing, LabelInv, SessionOK
<1>2. LabelsAreKept'
    BY <1>1, TearingKeeps DEF KeptBy, LabelsAreKept
<1>3. \A f \in Files : SaysGiven(files[f])'
    BY <1>1 DEF LabelInv, SaysGiven
<1>4. SessionOK'
  <2>1. CASE End
    BY <2>1 DEF End, SessionOK
  <2>2. CASE /\ SyncLabels(sheet) /\ position # Len(visit) /\ position' = position + 1
             /\ saved' = FALSE /\ UNCHANGED <<file, sheet, visit>>
    <3>1. LabelledIn(sheet) \subseteq DOMAIN labels'
        BY <1>1, <2>2, SyncingMerges DEF SyncLabels
    <3>2. position \in DOMAIN visit /\ DOMAIN visit = 1..Len(visit) /\ Len(visit) \in Nat
        BY <1>1 DEF LabelInv, SessionOK
    <3>3. position + 1 \in DOMAIN visit
        BY <2>2, <3>2
    <3> QED
        BY <1>1, <2>2, <3>1, <3>3 DEF LabelInv, SessionOK
  <2> QED
    BY <2>1, <2>2 DEF SyncRow, KilledWhileSyncing
<1> QED
    BY <1>1, <1>2, <1>3, <1>4 DEF LabelInv

LEMMA SavingStep ==
    ASSUME LabelInv, KilledWhileSaving
    PROVE  LabelInv'
<1>1. /\ file \in Files /\ sheet = files[file] /\ sheet \in Seq(SheetRow)
      /\ LabelledIn(sheet) \subseteq DOMAIN labels /\ SaysGiven(sheet)
      /\ UNCHANGED <<labels, given, lost>> /\ files \in [Files -> Seq(SheetRow)]
    BY DEF KilledWhileSaving, LabelInv, SessionOK
<1>2. PICK n \in 0..(Len(sheet) - 1) : files' = [files EXCEPT ![file] = SubSeq(sheet, 1, n)]
    BY DEF KilledWhileSaving
<1> DEFINE cut == SubSeq(sheet, 1, n)
<1>3. cut \in Seq(SheetRow) /\ DOMAIN cut \subseteq DOMAIN sheet /\ \A k \in DOMAIN cut : cut[k] = sheet[k]
    BY <1>1, <1>2
<1>4. /\ files' \in [Files -> Seq(SheetRow)]
      /\ \A f \in Files : files'[f] = IF f = file THEN cut ELSE files[f]
    BY <1>1, <1>2, <1>3
<1>5. \A f \in Files : SaysGiven(files[f])'
    BY <1>1, <1>3, <1>4 DEF SaysGiven, LabelInv
<1>6. SessionOK'
    BY DEF KilledWhileSaving, End, SessionOK
<1>7. LabelsAreKept'
    BY <1>1, <1>4 DEF LabelsAreKept, LabelInv
<1> QED
    BY <1>4, <1>5, <1>6, <1>7 DEF LabelInv

LEMMA LabelsStep == LabelInv /\ [LabellingStep \/ Count]_labelVars => LabelInv'
<1> SUFFICES ASSUME LabelInv, [LabellingStep \/ Count]_labelVars PROVE LabelInv'
    OBVIOUS
<1>1. ASSUME NEW f \in Files, SampleTo(f, {}) \/ \E e \in Files : SampleTo(f, LabelledIn(files[e]))
      PROVE  LabelInv'
    BY <1>1, SampleStep
<1>2. ASSUME NEW f \in Files, Open(f)
      PROVE  LabelInv'
    BY <1>2, OpenStep
<1>3. ASSUME LabelRow \/ SyncRow \/ KilledWhileSyncing \/ KilledWhileSaving
      PROVE  LabelInv'
    BY <1>3, LabelRowStep, SyncRowStep, SavingStep
<1>4. ASSUME Back
      PROVE  LabelInv'
  <2>1. /\ ~saved /\ file # "" /\ position > 1 /\ position' = position - 1
        /\ UNCHANGED <<files, labels, file, sheet, visit, saved, given, lost>>
    BY <1>4 DEF Back
  <2>2. position \in 1..Len(visit) /\ Len(visit) \in Nat /\ DOMAIN visit = 1..Len(visit)
    BY <2>1 DEF LabelInv, SessionOK
  <2>3. position' \in DOMAIN visit'
    <3>1. \A n \in Nat : \A p \in 1..n : p > 1 => p - 1 \in 1..n
        OBVIOUS
    <3> QED
        BY <2>1, <2>2, <3>1
  <2>4. SessionOK'
    BY <2>1, <2>3 DEF LabelInv, SessionOK, LabelledIn
  <2> QED
    BY <2>1, <2>4 DEF LabelInv, SaysGiven, LabelsAreKept
<1>5. ASSUME Quit
      PROVE  LabelInv'
    BY <1>5 DEF Quit, End, LabelInv, SaysGiven, SessionOK, LabelsAreKept
<1>6. CASE UNCHANGED labelVars \/ Count
  <2>1. UNCHANGED <<files, labels, file, sheet, visit, position, saved, given, lost>>
    BY <1>6 DEF labelVars, Count, sessionVars
  <2> QED
    BY <2>1 DEF LabelInv, SaysGiven, SessionOK, LabelsAreKept
<1> QED
    BY <1>1, <1>2, <1>3, <1>4, <1>5, <1>6 DEF LabellingStep, Sample

(* sync_labels_file and main of label.py: labels.csv accumulates, however  *)
(* files are sampled, labelled, resumed and left half written.             *)
THEOREM LabelsStayKept == LabellingSpec => []LabelsAreKept
<1>1. LabelInv => LabelsAreKept
    BY DEF LabelInv
<1> QED
    BY <1>1, LabelsInit, LabelsStep, PTL DEF LabellingSpec
-----------------------------------------------------------------------------
(* The stratified sample.                                                  *)

LEMMA FourCells ==
    ASSUME NEW cells \in [1..4 -> Nat]
    PROVE  cells \in Seq(Nat) /\ Len(cells) = 4 /\ DOMAIN cells = 1..4
<1>1. cells \in Seq(Nat)
  <2>1. 4 \in Nat /\ \A n \in Nat : \A rs \in [1..n -> Nat] : rs \in Seq(Nat)
    OBVIOUS
  <2> QED
    BY <2>1
<1>2. DOMAIN cells = 1..Len(cells) /\ Len(cells) \in Nat /\ DOMAIN cells = 1..4
  <2>1. \A rs \in Seq(Nat) : DOMAIN rs = 1..Len(rs) /\ Len(rs) \in Nat
    OBVIOUS
  <2>2. DOMAIN cells = 1..4
    OBVIOUS
  <2> QED
    BY <1>1, <2>1, <2>2
<1>3. \A n \in Nat : 1..n = 1..4 => n = 4
  <2> SUFFICES ASSUME NEW n \in Nat, 1..n = 1..4 PROVE n = 4
    OBVIOUS
  <2>1. 4 \in 1..n /\ n + 1 \notin 1..n
    OBVIOUS
  <2>2. n + 1 \notin 1..4
    BY <2>1
  <2> QED
    BY <2>1, <2>2
<1> QED
    BY <1>1, <1>2, <1>3

(* The m-th offer goes to one cell, which it is one more offer for.        *)
LEMMA DivMod ==
    ASSUME NEW m \in Nat, m >= 1
    PROVE  LET c == ((m - 1) % 4) + 1
           IN  /\ c \in 1..4
               /\ \A d \in 1..4 :
                     (m + 4 - d) \div 4 = (m - 1 + 4 - d) \div 4 + (IF d = c THEN 1 ELSE 0)
OBVIOUS

LEMMA TotalOfFour ==
    ASSUME NEW t \in [1..4 -> Nat]
    PROVE  Total(t) = t[1] + t[2] + t[3] + t[4]
<1> DEFINE Eq(g) == g = [s \in SUBSET (1..4) |->
                            IF s = {} THEN 0 ELSE g[s \ {Max(s)}] + t[Max(s)]]
           step == [m \in 1..4 |-> [a \in Nat |-> a + t[m]]]
<1>1. PICK g \in [SUBSET (1..4) -> Nat] : FoldsBy(g, 1..4, 0, LastOf(4), step)
  <2>1. 4 \in Nat /\ 0 \in Nat /\ \A m \in 1..4, a \in Nat : step[m][a] \in Nat
    OBVIOUS
  <2> HIDE DEF step
  <2> QED
    BY <2>1, LeftFoldExists
<1>2. Eq(g)
  <2>1. \A s \in SUBSET (1..4) : s # {} => Max(s) \in 1..4 /\ LastOf(4)[s] = Max(s)
    BY MaxIsElement DEF LastOf
  <2>2. \A s \in SUBSET (1..4) : s # {} =>
           step[LastOf(4)[s]][g[s \ {LastOf(4)[s]}]] = g[s \ {Max(s)}] + t[Max(s)]
    BY <2>1
  <2> QED
    BY <1>1, <2>2 DEF FoldsBy
<1>3. PICK it : Eq(it) /\ Total(t) = it[1..4]
  <2>1. Eq(CHOOSE h : Eq(h))
    BY <1>2
  <2>2. Total(t) = (CHOOSE h : Eq(h))[1..4]
    <3>1. DOMAIN t = 1..4
        OBVIOUS
    <3> QED
        BY <3>1 DEF Total, FoldLeft, MapThenFoldSet
  <2> QED
    BY <2>1, <2>2
<1>4. ASSUME NEW m \in 1..4
      PROVE  it[1..m] = it[1..(m - 1)] + t[m]
  <2>1. Max(1..m) = m /\ (1..m) \ {m} = 1..(m - 1) /\ 1..m # {} /\ 1..m \in SUBSET (1..4)
    BY MaxOfFirst
  <2> QED
    BY <1>3, <2>1
<1>5. it[1..0] = 0
  <2>1. it[{}] = 0 /\ 1..0 = {}
    BY <1>3
  <2> QED
    BY <2>1
<1>6. /\ it[1..1] = it[1..0] + t[1] /\ it[1..2] = it[1..1] + t[2]
      /\ it[1..3] = it[1..2] + t[3] /\ it[1..4] = it[1..3] + t[4]
  <2>1. 1 - 1 = 0 /\ 2 - 1 = 1 /\ 3 - 1 = 2 /\ 4 - 1 = 3
    OBVIOUS
  <2> QED
    BY <1>4, <2>1
<1> QED
  <2>1. t[1] \in Nat /\ t[2] \in Nat /\ t[3] \in Nat /\ t[4] \in Nat
    OBVIOUS
  <2> QED
    BY <1>3, <1>5, <1>6, <2>1

(* One posting more of cell c, if it has one left and one is wanted.       *)
Gives(cells, wanted, taken, c) ==
    IF Total(taken) < wanted /\ taken[c] < cells[c] THEN [taken EXCEPT ![c] = @ + 1] ELSE taken

CellAt(m) == ((m - 1) % 4) + 1

Least(a, b) == IF a < b THEN a ELSE b

(* What a cell has given after m offers if that is not enough yet: its     *)
(* share, and one of each round that has come to it.                       *)
Level(cells, wanted, m) == [c \in 1..4 |-> Least(cells[c], (wanted \div 4) + ((m + 4 - c) \div 4))]

LEMMA SamplingRuns ==
    ASSUME NEW cells \in [1..4 -> Nat], NEW wanted \in Nat
    PROVE  \E run : /\ run[0] = Level(cells, wanted, 0)
                    /\ StratifiedSample(cells, wanted) = run[4 * wanted]
                    /\ \A m \in 1..(4 * wanted) : run[m] = Gives(cells, wanted, run[m - 1], CellAt(m))
<1> DEFINE n == 4 * wanted
           base == Level(cells, wanted, 0)
           T == [1..4 -> Nat]
           Eq(g) == g = [s \in SUBSET (1..n) |->
                            IF s = {} THEN base
                            ELSE Gives(cells, wanted, g[s \ {Max(s)}], CellAt(Max(s)))]
           step == [m \in 1..n |-> [taken \in T |-> Gives(cells, wanted, taken, CellAt(m))]]
<1>1. n \in Nat /\ \A m \in 1..n : CellAt(m) \in 1..4
    BY DEF CellAt
<1>2. base \in T
  <2>1. wanted \div 4 \in Nat /\ \A c \in 1..4 : (0 + 4 - c) \div 4 = 0
    OBVIOUS
  <2> QED
    BY <2>1 DEF Level, Least
<1>3. PICK g \in [SUBSET (1..n) -> T] : FoldsBy(g, 1..n, base, LastOf(n), step)
  <2>1. \A m \in 1..n, taken \in T : step[m][taken] \in T
    BY <1>1 DEF Gives
  <2> HIDE DEF n, base, T, step
  <2> QED
    BY <1>1, <1>2, <2>1, LeftFoldExists
<1>4. Eq(g)
  <2>1. \A s \in SUBSET (1..n) : s # {} => Max(s) \in 1..n /\ LastOf(n)[s] = Max(s)
    BY <1>1, MaxIsElement DEF LastOf
  <2>2. \A s \in SUBSET (1..n) : s # {} =>
           step[LastOf(n)[s]][g[s \ {LastOf(n)[s]}]]
              = Gives(cells, wanted, g[s \ {Max(s)}], CellAt(Max(s)))
    BY <1>3, <2>1
  <2> HIDE DEF n, base, T, step
  <2> QED
    BY <1>3, <2>2 DEF FoldsBy
<1>5. PICK it : Eq(it) /\ StratifiedSample(cells, wanted) = it[1..n]
  <2>1. Eq(CHOOSE h : Eq(h))
    BY <1>4
  <2>2. StratifiedSample(cells, wanted) = (CHOOSE h : Eq(h))[1..n]
    <3>1. Len(cells) = 4 /\ DOMAIN cells = 1..4
        BY FourCells
    <3> DEFINE rounds == [k \in 1..(wanted * 4) |-> ((k - 1) % 4) + 1]
               even == [c \in 1..4 |-> IF cells[c] < wanted \div 4 THEN cells[c] ELSE wanted \div 4]
    <3>2. StratifiedSample(cells, wanted) =
             FoldLeft(LAMBDA taken, c : IF Total(taken) < wanted /\ taken[c] < cells[c]
                                   THEN [taken EXCEPT ![c] = @ + 1] ELSE taken,
                 even, rounds)
        BY <3>1 DEF StratifiedSample
    <3>3. even = base
      <4>1. \A c \in 1..4 : (0 + 4 - c) \div 4 = 0 /\ (wanted \div 4) + 0 = wanted \div 4
        OBVIOUS
      <4> QED
        BY <4>1 DEF Level, Least
    <3>4. DOMAIN rounds = 1..n /\ \A k \in 1..n : rounds[k] = CellAt(k)
        BY DEF CellAt
    <3>5. \A s \in SUBSET (1..n) : s # {} => Max(s) \in 1..n
        BY <1>1, MaxIsElement
    <3> DEFINE Rq(g2) == g2 = [s \in SUBSET (1..n) |->
                            IF s = {} THEN even
                            ELSE Gives(cells, wanted, g2[s \ {Max(s)}], rounds[Max(s)])]
    <3>6. StratifiedSample(cells, wanted) = (CHOOSE h : Rq(h))[1..n]
        BY <3>2, <3>4 DEF FoldLeft, MapThenFoldSet, Gives
    <3>7. \A h : Rq(h) <=> Eq(h)
      <4>1. \A s \in SUBSET (1..n) : s # {} => rounds[Max(s)] = CellAt(Max(s))
        BY <3>4, <3>5
      <4> HIDE DEF even, rounds, base, n
      <4> QED
        BY <3>3, <4>1
    <3>8. (CHOOSE h : Rq(h)) = (CHOOSE h : Eq(h))
      <4> HIDE DEF Rq, Eq
      <4> QED
        BY <3>7
    <3> QED
        BY <3>6, <3>8
  <2> QED
    BY <2>1, <2>2
<1> DEFINE run == [m \in 0..n |-> it[1..m]]
<1>6. run[0] = base /\ run[n] = it[1..n]
  <2>1. it[{}] = base /\ 1..0 = {}
    BY <1>5
  <2> QED
    BY <1>1, <2>1
<1>7. ASSUME NEW m \in 1..n
      PROVE  run[m] = Gives(cells, wanted, run[m - 1], CellAt(m))
  <2>1. Max(1..m) = m /\ (1..m) \ {m} = 1..(m - 1) /\ 1..m # {} /\ 1..m \in SUBSET (1..n)
    BY <1>1, MaxOfFirst
  <2> HIDE DEF base
  <2>2. it[1..m] = Gives(cells, wanted, it[1..(m - 1)], CellAt(m))
    BY <1>5, <2>1
  <2>3. run[m] = it[1..m] /\ run[m - 1] = it[1..(m - 1)]
    BY <1>1
  <2> QED
    BY <2>2, <2>3
<1> QED
    BY <1>5, <1>6, <1>7

(* No cell that has some left gave less than another, but for one.         *)
EvenlyTaken(cells, taken) ==
    \A c, d \in 1..4 : taken[c] <= cells[c] /\ (taken[c] < cells[c] => taken[c] + 1 >= taken[d])

LEMMA LevelsAreEven ==
    ASSUME NEW cells \in [1..4 -> Nat], NEW wanted \in Nat, NEW m \in Nat
    PROVE  /\ Level(cells, wanted, m) \in [1..4 -> Nat]
           /\ EvenlyTaken(cells, Level(cells, wanted, m))
<1>1. wanted \div 4 \in Nat /\ \A c \in 1..4 : (m + 4 - c) \div 4 \in Nat
    OBVIOUS
<1>2. \A c, d \in 1..4 : (m + 4 - c) \div 4 <= (m + 4 - d) \div 4 + 1
    OBVIOUS
<1>3. PICK e \in [1..4 -> Nat] : /\ \A c \in 1..4 : Level(cells, wanted, m)[c] = Least(cells[c], e[c])
                                 /\ \A c, d \in 1..4 : e[c] <= e[d] + 1
  <2> DEFINE e == [c \in 1..4 |-> (wanted \div 4) + ((m + 4 - c) \div 4)]
  <2>1. e \in [1..4 -> Nat] /\ \A c, d \in 1..4 : e[c] <= e[d] + 1
    BY <1>1, <1>2
  <2>2. \A c \in 1..4 : Level(cells, wanted, m)[c] = Least(cells[c], e[c])
    BY DEF Level
  <2> QED
    BY <2>1, <2>2
<1>4. Level(cells, wanted, m) = [c \in 1..4 |-> Level(cells, wanted, m)[c]]
    BY DEF Level
<1>5. \A c \in 1..4 : Level(cells, wanted, m)[c] \in Nat
    BY <1>3 DEF Least
<1> QED
    BY <1>3, <1>4, <1>5 DEF EvenlyTaken, Least

LEMMA OneMore ==
    ASSUME NEW taken \in [1..4 -> Nat], NEW c \in 1..4
    PROVE  /\ [taken EXCEPT ![c] = @ + 1] \in [1..4 -> Nat]
           /\ Total([taken EXCEPT ![c] = @ + 1]) = Total(taken) + 1
<1> DEFINE more == [taken EXCEPT ![c] = @ + 1]
<1>1. more \in [1..4 -> Nat] /\ \A d \in 1..4 : more[d] = IF d = c THEN taken[d] + 1 ELSE taken[d]
    OBVIOUS
<1> HIDE DEF more
<1>2. /\ Total(taken) = taken[1] + taken[2] + taken[3] + taken[4]
      /\ Total(more) = more[1] + more[2] + more[3] + more[4]
    BY <1>1, TotalOfFour
<1>3. \A d \in 1..4 : taken[d] \in Nat
    OBVIOUS
<1>4. /\ c = 1 \/ c = 2 \/ c = 3 \/ c = 4
      /\ 1 \in 1..4 /\ 2 \in 1..4 /\ 3 \in 1..4 /\ 4 \in 1..4
    OBVIOUS
<1>5. Total(more) = Total(taken) + 1
    BY <1>1, <1>2, <1>3, <1>4
<1> QED
    BY <1>1, <1>5 DEF more

(* After m offers, all that is wanted is taken, as evenly as can be, or    *)
(* every cell has given what it could.                                     *)
LEMMA SampleIsAsLevel ==
    ASSUME NEW cells \in [1..4 -> Nat], NEW wanted \in Nat, NEW m \in 1..(4 * wanted),
           NEW taken, \/ taken = Level(cells, wanted, m - 1) /\ Total(taken) < wanted
                      \/ /\ taken \in [1..4 -> Nat] /\ Total(taken) = wanted
                         /\ EvenlyTaken(cells, taken)
    PROVE  LET next == Gives(cells, wanted, taken, CellAt(m))
           IN  \/ next = Level(cells, wanted, m) /\ Total(next) < wanted
               \/ next \in [1..4 -> Nat] /\ Total(next) = wanted /\ EvenlyTaken(cells, next)
<1> DEFINE c == CellAt(m)
           next == Gives(cells, wanted, taken, c)
<1>1. CASE Total(taken) = wanted /\ taken \in [1..4 -> Nat] /\ EvenlyTaken(cells, taken)
  <2>1. ~ (Total(taken) < wanted)
    BY <1>1
  <2> QED
    BY <1>1, <2>1 DEF Gives
<1>2. CASE taken = Level(cells, wanted, m - 1) /\ Total(taken) < wanted
  <2>1. m \in Nat /\ m >= 1 /\ m - 1 \in Nat
    OBVIOUS
  <2>2. taken \in [1..4 -> Nat] /\ Level(cells, wanted, m) \in [1..4 -> Nat]
        /\ EvenlyTaken(cells, Level(cells, wanted, m))
    BY <1>2, <2>1, LevelsAreEven
  <2>3. /\ c \in 1..4
        /\ \A d \in 1..4 : (m + 4 - d) \div 4 = (m - 1 + 4 - d) \div 4 + (IF d = c THEN 1 ELSE 0)
    BY <2>1, DivMod DEF CellAt
  <2>4. next = Level(cells, wanted, m)
    <3>1. wanted \div 4 \in Nat /\ \A d \in 1..4 : (m - 1 + 4 - d) \div 4 \in Nat
        BY <2>1
    <3>2. next \in [1..4 -> Nat]
        BY <2>2, <2>3 DEF Gives
    <3>3. \A d \in 1..4 : /\ taken[d] = Least(cells[d], (wanted \div 4) + ((m - 1 + 4 - d) \div 4))
                          /\ Level(cells, wanted, m)[d] = Least(cells[d], (wanted \div 4) + ((m + 4 - d) \div 4))
        BY <1>2 DEF Level
    <3>4. ASSUME NEW d \in 1..4 PROVE next[d] = Level(cells, wanted, m)[d]
      <4> DEFINE e == (wanted \div 4) + ((m - 1 + 4 - d) \div 4)
      <4>1. e \in Nat /\ (wanted \div 4) + ((m + 4 - d) \div 4) = e + (IF d = c THEN 1 ELSE 0)
          BY <2>3, <3>1
      <4>2. taken[d] = Least(cells[d], e)
            /\ Level(cells, wanted, m)[d] = Least(cells[d], e + (IF d = c THEN 1 ELSE 0))
          BY <3>3, <4>1
      <4>3. next[d] = IF d = c /\ taken[d] < cells[d] THEN taken[d] + 1 ELSE taken[d]
          BY <1>2, <2>2, <2>3 DEF Gives
      <4>4. cells[d] \in Nat
          OBVIOUS
      <4> HIDE DEF e, next, c
      <4> QED
          BY <4>1, <4>2, <4>3, <4>4 DEF Least
    <3> HIDE DEF next
    <3> QED
        BY <2>2, <3>2, <3>4
  <2>5. Total(next) <= wanted /\ Total(next) \in Nat
    <3>1. Total(taken) \in Nat
        BY <2>2, TotalOfFour
    <3>2. next = taken \/ Total(next) = Total(taken) + 1
        BY <2>2, <2>3, OneMore DEF Gives
    <3> HIDE DEF next
    <3> QED
        BY <1>2, <3>1, <3>2
  <2> HIDE DEF next
  <2>6. Total(next) < wanted \/ Total(next) = wanted
    BY <2>5
  <2>7. next \in [1..4 -> Nat] /\ EvenlyTaken(cells, next)
    BY <2>2, <2>4
  <2> QED
    BY <2>4, <2>6, <2>7 DEF next
<1> QED
    BY <1>1, <1>2

(* What is taken in the end is as much as there is or is wanted.           *)
LEMMA SamplesAreEven ==
    ASSUME NEW cells \in [1..4 -> Nat], NEW wanted \in Nat
    PROVE  /\ StratifiedSample(cells, wanted) \in [1..4 -> Nat]
           /\ EvenlyTaken(cells, StratifiedSample(cells, wanted))
           /\ Total(StratifiedSample(cells, wanted)) =
                 IF Total(cells) < wanted THEN Total(cells) ELSE wanted
<1> DEFINE n == 4 * wanted
           Right(m, taken) == \/ taken = Level(cells, wanted, m) /\ Total(taken) < wanted
                              \/ /\ taken \in [1..4 -> Nat] /\ Total(taken) = wanted
                                 /\ EvenlyTaken(cells, taken)
<1>1. PICK run : /\ run[0] = Level(cells, wanted, 0)
                 /\ StratifiedSample(cells, wanted) = run[n]
                 /\ \A m \in 1..n : run[m] = Gives(cells, wanted, run[m - 1], CellAt(m))
    BY SamplingRuns
<1>2. Right(0, run[0])
  <2> DEFINE even == Level(cells, wanted, 0)
  <2>1. even \in [1..4 -> Nat] /\ EvenlyTaken(cells, even)
    BY LevelsAreEven
  <2>2. Total(even) = even[1] + even[2] + even[3] + even[4]
    BY <2>1, TotalOfFour
  <2>3. wanted \div 4 \in Nat /\ 4 * (wanted \div 4) <= wanted
    OBVIOUS
  <2>4. \A c \in 1..4 : even[c] \in Nat /\ even[c] <= wanted \div 4
    <3>1. \A c \in 1..4 : (0 + 4 - c) \div 4 = 0 /\ (wanted \div 4) + 0 = wanted \div 4
        BY <2>3
    <3>2. \A c \in 1..4 : even[c] = Least(cells[c], wanted \div 4)
        BY <3>1 DEF Level
    <3>3. \A c \in 1..4 : cells[c] \in Nat
        OBVIOUS
    <3> HIDE DEF even
    <3> QED
        BY <2>3, <3>2, <3>3 DEF Least
  <2> HIDE DEF even
  <2>5. Total(even) <= wanted /\ Total(even) \in Nat
    <3>1. 1 \in 1..4 /\ 2 \in 1..4 /\ 3 \in 1..4 /\ 4 \in 1..4
        OBVIOUS
    <3> QED
        BY <2>2, <2>3, <2>4, <3>1
  <2>6. Total(even) < wanted \/ Total(even) = wanted
    BY <2>5
  <2>7. run[0] = even
    BY <1>1 DEF even
  <2>8. even = Level(cells, wanted, 0)
    BY DEF even
  <2> QED
    BY <2>1, <2>6, <2>7, <2>8
<1> DEFINE T == {m \in 0..n : Right(m, run[m])}
<1>3. n \in Nat
    OBVIOUS
<1>4. 0 \in T
    BY <1>2, <1>3
<1>5. ASSUME NEW m \in 1..n, m - 1 \in T PROVE m \in T
  <2>1. Right(m - 1, run[m - 1]) /\ run[m] = Gives(cells, wanted, run[m - 1], CellAt(m))
    BY <1>1, <1>5
  <2>2. Right(m, run[m])
    BY <2>1, SampleIsAsLevel
  <2> QED
    BY <1>3, <2>2
<1>6. Right(n, run[n])
  <2> HIDE DEF T
  <2>1. 0..n \subseteq T
    BY <1>3, <1>4, <1>5, RangeSets
  <2>2. n \in T
    BY <1>3, <2>1
  <2> QED
    BY <2>2 DEF T
<1> DEFINE taken == StratifiedSample(cells, wanted)
<1>7. taken \in [1..4 -> Nat] /\ EvenlyTaken(cells, taken)
    BY <1>1, <1>3, <1>6, LevelsAreEven
<1>8. Right(n, taken)
    BY <1>1, <1>6
<1> HIDE DEF taken
<1>9. /\ Total(taken) = taken[1] + taken[2] + taken[3] + taken[4]
      /\ Total(cells) = cells[1] + cells[2] + cells[3] + cells[4]
    BY <1>7, TotalOfFour
<1>10. /\ 1 \in 1..4 /\ 2 \in 1..4 /\ 3 \in 1..4 /\ 4 \in 1..4
       /\ \A c \in 1..4 : taken[c] \in Nat /\ cells[c] \in Nat
    BY <1>7
<1>11. \A c \in 1..4 : taken[c] <= cells[c]
    BY <1>7 DEF EvenlyTaken
<1>12. Total(taken) <= Total(cells)
    BY <1>9, <1>10, <1>11
<1>13. CASE Total(taken) = wanted
  <2>1. ~ (Total(cells) < wanted)
    BY <1>9, <1>10, <1>12, <1>13
  <2> QED
    BY <1>7, <1>13, <2>1 DEF taken
<1>14. CASE taken = Level(cells, wanted, n) /\ Total(taken) < wanted
  <2>1. ASSUME NEW c \in 1..4 PROVE taken[c] = cells[c]
    <3>1. (n + 4 - c) \div 4 = wanted /\ wanted \div 4 \in Nat
        OBVIOUS
    <3>2. taken[c] = Least(cells[c], (wanted \div 4) + wanted)
        BY <1>14, <3>1 DEF Level
    <3>3. taken[c] < wanted
        BY <1>9, <1>10, <1>14
    <3> QED
        BY <1>10, <3>1, <3>2, <3>3 DEF Least
  <2>2. Total(taken) = Total(cells)
    BY <1>9, <1>10, <2>1
  <2> QED
    BY <1>7, <1>14, <2>2 DEF taken
<1> QED
    BY <1>8, <1>13, <1>14

(* The cells and the size of a sample, once one is counted.                *)
PoolsInv == pools # <<>> => \E cells \in [1..4 -> Nat], wanted \in Nat : pools = <<cells, wanted>>

LEMMA PoolsInit == LabellingInit => PoolsInv
BY DEF LabellingInit, PoolsInv

LEMMA PoolsStep == PoolsInv /\ [LabellingStep \/ Count]_labelVars => PoolsInv'
<1> SUFFICES ASSUME PoolsInv, [LabellingStep \/ Count]_labelVars PROVE PoolsInv'
    OBVIOUS
<1>1. ASSUME Count
      PROVE  PoolsInv'
  <2>1. PICK cells \in [1..4 -> 0..MaxPool], wanted \in 0..MaxTotal : pools' = <<cells, wanted>>
    BY <1>1 DEF Count
  <2>2. cells \in [1..4 -> Nat] /\ wanted \in Nat
    BY PoolsAssumption
  <2> QED
    BY <2>1, <2>2 DEF PoolsInv
<1>2. CASE UNCHANGED pools
    BY <1>2 DEF PoolsInv
<1> QED
    BY <1>1, <1>2 DEF LabellingStep, Sample, SampleTo, Open, LabelRow, SyncRow, Back, Quit,
                      KilledWhileSaving, KilledWhileSyncing, labelVars

LEMMA EvenPools == PoolsInv => SampleIsEven
<1> SUFFICES ASSUME PoolsInv, pools # <<>>
             PROVE  LET cells  == pools[1]
                        wanted == pools[2]
                        taken  == StratifiedSample(cells, wanted)
                    IN  /\ Total(taken) = IF Total(cells) < wanted THEN Total(cells) ELSE wanted
                        /\ \A c, d \in DOMAIN cells :
                              taken[c] <= cells[c] /\ (taken[c] < cells[c] => taken[c] + 1 >= taken[d])
    BY DEF SampleIsEven
<1>1. PICK cells \in [1..4 -> Nat], wanted \in Nat : pools = <<cells, wanted>>
    BY DEF PoolsInv
<1>2. pools[1] = cells /\ pools[2] = wanted /\ DOMAIN cells = 1..4
    BY <1>1
<1> QED
    BY <1>2, SamplesAreEven DEF EvenlyTaken

(* stratified_sample: a sample is as large as asked for, or everything     *)
(* there is, and as even as the cells allow, for cells of any size.        *)
THEOREM SamplesStayEven == LabellingSpec => []SampleIsEven
BY PoolsInit, PoolsStep, EvenPools, PTL DEF LabellingSpec
=============================================================================
