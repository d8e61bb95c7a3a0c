-------------------------- MODULE BoardFetchProofs --------------------------
(***************************************************************************)
(* Lemmas about one fetch of a board, for boards of any size, any size of  *)
(* page and any number of changes between two pages: what is asked for,    *)
(* what is read, and what a payload may lack of its board.  The theorems   *)
(* they serve are about the passes that fetch (CollectProofs).             *)
(***************************************************************************)
EXTENDS BoardFetch, Folding

Ids == 1..(MaxPostings + MaxChanges)

(* Pages are only asked for below the cap; a board never holds more ids    *)
(* than it began with and changes brought, nor does what is read of it.    *)
FetchInv ==
    /\ FetchTypeOK
    /\ fetching => pages < MaxPages
    /\ changes \in 0..MaxChanges
    /\ board \in Seq(Ids) /\ got \in Seq(Ids)

LEMMA MinOfTwo ==
    ASSUME NEW a \in Nat, NEW b \in Nat
    PROVE  Min({a, b}) = IF a <= b THEN a ELSE b
<1>1. CASE a <= b
  <2>1. a \in {a, b} /\ \A y \in {a, b} : a <= y
    BY <1>1
  <2>2. \A x \in {a, b} : (\A y \in {a, b} : x <= y) => x = a
    BY <1>1
  <2>3. Min({a, b}) = a
    BY <2>1, <2>2 DEF Min
  <2> QED
    BY <1>1, <2>3
<1>2. CASE ~ (a <= b)
  <2>1. b \in {a, b} /\ \A y \in {a, b} : b <= y
    BY <1>2
  <2>2. \A x \in {a, b} : (\A y \in {a, b} : x <= y) => x = b
    BY <1>2
  <2>3. Min({a, b}) = b
    BY <2>1, <2>2 DEF Min
  <2> QED
    BY <1>2, <2>3
<1> QED
    BY <1>1, <1>2

LEMMA Concatenation ==
    ASSUME NEW S, NEW s \in Seq(S), NEW t \in Seq(S)
    PROVE  /\ s \o t \in Seq(S) /\ Len(s \o t) = Len(s) + Len(t)
           /\ \A q \in 1..Len(s) : (s \o t)[q] = s[q]
           /\ \A q \in (Len(s) + 1)..(Len(s) + Len(t)) : (s \o t)[q] = t[q - Len(s)]
OBVIOUS

(* A posting that appears moves those behind it back by one place, one     *)
(* that goes moves them forward.                                           *)
LEMMA InsertingInSeq ==
    ASSUME NEW S, NEW s \in Seq(S), NEW e \in S, NEW p \in 1..(Len(s) + 1)
    PROVE  /\ InsertAt(s, p, e) \in Seq(S)
           /\ Len(InsertAt(s, p, e)) = Len(s) + 1
           /\ \A q \in 1..(Len(s) + 1) :
                 InsertAt(s, p, e)[q] = IF q < p THEN s[q] ELSE IF q = p THEN e ELSE s[q - 1]
<1> DEFINE front == SubSeq(s, 1, p - 1)
           back  == SubSeq(s, p, Len(s))
<1>1. /\ front \in Seq(S) /\ Len(front) = p - 1 /\ \A q \in 1..(p - 1) : front[q] = s[q]
      /\ back \in Seq(S) /\ Len(back) = Len(s) - p + 1
      /\ \A q \in 1..(Len(s) - p + 1) : back[q] = s[p + q - 1]
    OBVIOUS
<1>2. InsertAt(s, p, e) = (front \o <<e>>) \o back
    BY DEF InsertAt
<1> HIDE DEF front, back
<1> DEFINE before == front \o <<e>>
<1>3. <<e>> \in Seq(S) /\ Len(<<e>>) = 1 /\ <<e>>[1] = e /\ p \in Nat /\ Len(s) \in Nat
    OBVIOUS
<1>4. before \in Seq(S) /\ Len(before) = p
    BY <1>1, <1>3, Concatenation
<1>5. \A q \in 1..(p - 1) : before[q] = s[q]
    BY <1>1, <1>3, Concatenation
<1>6. before[p] = e
  <2>1. p \in (Len(front) + 1)..(Len(front) + 1) /\ p - Len(front) = 1
    BY <1>1, <1>3
  <2>2. before[p] = <<e>>[p - Len(front)]
    BY <1>1, <1>3, <2>1, Concatenation
  <2> QED
    BY <1>3, <2>1, <2>2
<1> HIDE DEF before
<1>7. before \o back \in Seq(S) /\ Len(before \o back) = Len(s) + 1
  <2>1. before \o back \in Seq(S) /\ Len(before \o back) = Len(before) + Len(back)
    BY <1>1, <1>4, Concatenation
  <2> QED
    BY <1>1, <1>3, <1>4, <2>1
<1>8. ASSUME NEW q \in 1..(Len(s) + 1)
      PROVE  (before \o back)[q] = IF q < p THEN s[q] ELSE IF q = p THEN e ELSE s[q - 1]
  <2>1. CASE q <= p
    <3>1. (before \o back)[q] = before[q]
        BY <1>1, <1>3, <1>4, <2>1, Concatenation
    <3> QED
        BY <1>3, <1>5, <1>6, <2>1, <3>1
  <2>2. CASE q > p
    <3>1. (before \o back)[q] = back[q - p]
        BY <1>1, <1>3, <1>4, <2>2, Concatenation
    <3>2. q - p \in 1..(Len(s) - p + 1) /\ p + (q - p) - 1 = q - 1
        BY <1>3, <2>2
    <3> QED
        BY <1>1, <2>2, <3>1, <3>2
  <2>3. q <= p \/ q > p
    BY <1>3
  <2> QED
    BY <2>1, <2>2, <2>3
<1> QED
  <2>1. InsertAt(s, p, e) = before \o back
    BY <1>2 DEF before
  <2> QED
    BY <1>7, <1>8, <2>1

LEMMA RemovingFromSeq ==
    ASSUME NEW S, NEW s \in Seq(S), NEW p \in 1..Len(s)
    PROVE  /\ RemoveAt(s, p) \in Seq(S)
           /\ Len(RemoveAt(s, p)) = Len(s) - 1
           /\ \A q \in 1..(Len(s) - 1) : RemoveAt(s, p)[q] = IF q < p THEN s[q] ELSE s[q + 1]
<1> DEFINE front == SubSeq(s, 1, p - 1)
           back  == SubSeq(s, p + 1, Len(s))
<1>1. /\ front \in Seq(S) /\ Len(front) = p - 1 /\ \A q \in 1..(p - 1) : front[q] = s[q]
      /\ back \in Seq(S) /\ Len(back) = Len(s) - p
      /\ \A q \in 1..(Len(s) - p) : back[q] = s[p + q]
    OBVIOUS
<1>2. RemoveAt(s, p) = front \o back
    BY DEF RemoveAt
<1> HIDE DEF front, back
<1>3. front \o back \in Seq(S) /\ Len(front \o back) = Len(s) - 1
    BY <1>1
<1>4. ASSUME NEW q \in 1..(Len(s) - 1)
      PROVE  (front \o back)[q] = IF q < p THEN s[q] ELSE s[q + 1]
  <2>1. CASE q < p
    BY <1>1, <2>1
  <2>2. CASE ~ (q < p)
    <3>1. (front \o back)[q] = back[q - (p - 1)]
        BY <1>1, <2>2
    <3>2. q - (p - 1) \in 1..(Len(s) - p) /\ p + (q - (p - 1)) = q + 1
        BY <2>2
    <3> QED
        BY <1>1, <2>2, <3>1, <3>2
  <2> QED
    BY <2>1, <2>2
<1> QED
    BY <1>2, <1>3, <1>4

LEMMA ElementsOfSeq ==
    ASSUME NEW S, NEW s \in Seq(S)
    PROVE  ToSet(s) \subseteq S
BY DEF ToSet

LEMMA BoardsAreSequences ==
    ASSUME NEW k \in Kinds, NEW b \in BoardsOf(k)
    PROVE  b \in Seq(Ids) /\ ToSet(b) \subseteq 1..MaxPostings
<1>1. ASSUME NEW n \in 0..MaxPostings
      PROVE  /\ NewBoard(n) \in Seq(Ids) /\ ToSet(NewBoard(n)) \subseteq 1..MaxPostings
             /\ n >= 1 => /\ Append(NewBoard(n), n) \in Seq(Ids)
                          /\ ToSet(Append(NewBoard(n), n)) \subseteq 1..MaxPostings
  <2>1. n \in Nat /\ 1..n \subseteq Ids /\ (n >= 1 => n \in Ids)
    BY <1>1, BoardsAssumption DEF Ids
  <2>2. NewBoard(n) \in [1..n -> Ids]
    BY <2>1 DEF NewBoard
  <2>3. NewBoard(n) \in Seq(Ids)
    BY <2>1, <2>2
  <2>4. NewBoard(n) \in Seq(1..MaxPostings)
    BY <2>1, BoardsAssumption DEF NewBoard
  <2>5. n >= 1 => Append(NewBoard(n), n) \in Seq(1..MaxPostings)
    BY <2>1, <2>4, BoardsAssumption
  <2>6. ToSet(NewBoard(n)) \subseteq 1..MaxPostings
    BY <2>4, ElementsOfSeq
  <2>7. CASE n >= 1
    <3>1. Append(NewBoard(n), n) \in Seq(Ids)
        BY <2>1, <2>3, <2>7
    <3>2. ToSet(Append(NewBoard(n), n)) \subseteq 1..MaxPostings
        BY <2>5, <2>7, ElementsOfSeq
    <3> QED
        BY <2>3, <2>6, <3>1, <3>2
  <2> QED
    BY <2>3, <2>6, <2>7
<1>2. \A n \in 1..MaxPostings : n \in 0..MaxPostings /\ n >= 1
    BY BoardsAssumption
<1> QED
    BY <1>1, <1>2 DEF BoardsOf

(* A page is the part of the board from the offset on: all of it for the   *)
(* fetchers that do not page, and all that is left if it is short.         *)
LEMMA PagesAreParts ==
    ASSUME FetchInv, NEW STATE o, o \in Nat
    PROVE  LET page == PageAt(o) IN
           /\ page \in Seq(Ids)
           /\ \A q \in 1..Len(page) : o + q <= Len(board) /\ page[q] = board[o + q]
           /\ kind \in {"whole", "workable"} \/ Len(page) # PageLimit => o + Len(page) >= Len(board)
<1>1. board \in Seq(Ids) /\ Len(board) \in Nat
    BY DEF FetchInv
<1> DEFINE Part(m) == SubSeq(board, o + 1, m)
<1>2. ASSUME NEW m \in 0..Len(board)
      PROVE  /\ Part(m) \in Seq(Ids) /\ Len(Part(m)) = IF m <= o THEN 0 ELSE m - o
             /\ \A q \in 1..Len(Part(m)) : o + q <= Len(board) /\ Part(m)[q] = board[o + q]
  <2>1. Part(m) \in Seq(Ids) /\ Len(Part(m)) = IF m <= o THEN 0 ELSE m - o
    BY <1>1
  <2>2. ASSUME NEW q \in 1..Len(Part(m))
        PROVE  o + q <= Len(board) /\ Part(m)[q] = board[o + q]
    <3>1. m > o /\ q \in 1..(m - o)
        BY <1>1, <2>1
    <3>2. Part(m)[q] = board[(o + 1) + q - 1]
        BY <1>1, <3>1
    <3>3. (o + 1) + q - 1 = o + q
        BY <3>1
    <3> QED
        BY <1>1, <3>1, <3>2, <3>3
  <2> QED
    BY <2>1, <2>2
<1>3. CASE kind \in {"whole", "workable"}
  <2>1. PageAt(o) = Part(Len(board)) /\ Len(board) \in 0..Len(board)
    BY <1>1, <1>3 DEF PageAt
  <2>2. o + Len(Part(Len(board))) >= Len(board)
    BY <1>1, <1>2, <2>1
  <2> QED
    BY <1>2, <2>1, <2>2
<1>4. CASE kind \notin {"whole", "workable"}
  <2> DEFINE m == Min({Len(board), o + PageLimit})
  <2>1. PageAt(o) = Part(m)
    BY <1>4 DEF PageAt
  <2>2. PageLimit \in Nat /\ m = IF Len(board) <= o + PageLimit THEN Len(board) ELSE o + PageLimit
    BY <1>1, MinOfTwo, PagesAssumption
  <2> HIDE DEF m
  <2>3. m \in 0..Len(board)
    BY <1>1, <2>2
  <2>4. Len(Part(m)) = IF m <= o THEN 0 ELSE m - o
    BY <1>2, <2>3
  <2> HIDE DEF Part
  <2>5. Len(Part(m)) # PageLimit => o + Len(Part(m)) >= Len(board)
    BY <1>1, <2>2, <2>3, <2>4
  <2> QED
    BY <1>2, <1>4, <2>1, <2>3, <2>5
<1> QED
    BY <1>3, <1>4

LEMMA FetchBegins ==
    ASSUME FetchInv, NEW k \in Kinds, StartFetch(k)
    PROVE  FetchInv'
<1>1. board' \in Seq(Ids)
    BY BoardsAreSequences DEF StartFetch
<1>2. got' = <<>> /\ <<>> \in Seq(Ids) /\ ToSet(<<>>) = {}
    BY DEF StartFetch, ToSet
<1>3. changes' = 0 /\ withdrawn' = 0 /\ 0 \in 0..MaxChanges /\ 0 \in 0..0
    BY BoardsAssumption DEF StartFetch
<1>4. ToSet(got') = {} /\ got' \in Seq(Ids)
    BY <1>2
<1>5. /\ kind' = k /\ fetching' = TRUE /\ host' = "global" /\ attempt' = 0 /\ pages' = 0
      /\ total' = 0 /\ status' = "none" /\ payload' = NoPayload /\ odd' = FALSE
      /\ 0 \in 0..MaxRetries /\ 0 \in 0..MaxPages /\ 0 < MaxPages
    BY PagesAssumption DEF StartFetch
<1> QED
    BY <1>1, <1>3, <1>4, <1>5 DEF FetchInv, FetchTypeOK, Statuses

LEMMA ReadingStep ==
    ASSUME FetchInv, ReadPage
    PROVE  FetchInv'
<1>1. PICK page \in Pages : \E t \in TotalsRead(page) :
          /\ got' = got \o page /\ pages' = pages + 1 /\ total' = t
          /\ odd' = (odd \/ page # PageAt(Offset) \/ (kind = "workday" /\ pages = 0 /\ t # Len(board)))
          /\ \/ IsLast(page) /\ fetching' = FALSE /\ Returns
             \/ /\ ~IsLast(page) /\ pages' = MaxPages
                /\ fetching' = FALSE /\ status' = "200" /\ payload' = PastTheCap
             \/ ~IsLast(page) /\ pages' < MaxPages /\ UNCHANGED <<fetching, status, payload>>
    BY DEF ReadPage
<1>2. PICK t \in TotalsRead(page) : total' = t
    BY <1>1
<1>3. /\ board \in Seq(Ids) /\ got \in Seq(Ids) /\ pages \in 0..MaxPages /\ pages < MaxPages
      /\ fetching /\ attempt' = 0 /\ total \in Nat
      /\ UNCHANGED <<kind, host, board, still, changes, withdrawn>>
    BY DEF FetchInv, FetchTypeOK, ReadPage
<1>4. page \in Seq(Ids)
  <2>1. Offset \in Nat /\ 0 \in Nat
    BY <1>3 DEF Offset
  <2>2. PageAt(Offset) \in Seq(Ids) /\ PageAt(0) \in Seq(Ids) /\ <<>> \in Seq(Ids)
    BY <2>1, PagesAreParts
  <2> QED
    BY <2>2 DEF Pages
<1>5. got' \in Seq(Ids) /\ ToSet(got') \subseteq Ids
  <2>1. \A s \in Seq(Ids) : ToSet(s) \subseteq Ids
    BY DEF ToSet
  <2>2. got' = got \o page
    BY <1>1
  <2>3. \A a, b \in Seq(Ids) : a \o b \in Seq(Ids)
    OBVIOUS
  <2>4. got' \in Seq(Ids)
    BY <1>3, <1>4, <2>2, <2>3
  <2> QED
    BY <2>1, <2>4
<1>6. total' \in Nat
    BY <1>2, <1>3, <1>4 DEF TotalsRead
<1>7. odd' \in BOOLEAN
    BY <1>1
<1>8. /\ pages' = pages + 1 /\ pages' \in 0..MaxPages
      /\ fetching' \in BOOLEAN /\ (fetching' => pages' < MaxPages)
      /\ status' \in Statuses /\ (payload' # NoPayload => status' = "200")
  <2>1. pages' = pages + 1 /\ pages' \in 0..MaxPages
    BY <1>1, <1>3, PagesAssumption
  <2>2. /\ status \in Statuses /\ (payload # NoPayload => status = "200") /\ "200" \in Statuses
    BY DEF FetchInv, FetchTypeOK, Statuses
  <2>3. \/ fetching' = FALSE /\ status' = "200"
        \/ fetching' = FALSE /\ status' = "raised" /\ payload' = NoPayload
        \/ pages' < MaxPages /\ UNCHANGED <<fetching, status, payload>>
    BY <1>1 DEF Returns
  <2> QED
    BY <1>3, <2>1, <2>2, <2>3 DEF Statuses
<1> QED
    BY <1>3, <1>5, <1>6, <1>7, <1>8, PagesAssumption DEF FetchInv, FetchTypeOK, Ids

LEMMA FetchingStep ==
    ASSUME FetchInv, FetchStep \/ BoardStep
    PROVE  FetchInv'
<1>1. ASSUME FallBackToEu
      PROVE  FetchInv'
    BY <1>1, PagesAssumption DEF FallBackToEu, boardVars, FetchInv, FetchTypeOK
<1>2. ASSUME NEW r \in Refusals, Retry(r)
      PROVE  FetchInv'
  <2>1. attempt' = attempt + 1 /\ attempt < MaxRetries /\ attempt \in 0..MaxRetries
    BY <1>2 DEF Retry, NextAttempt, AttemptsLeft, FetchInv, FetchTypeOK
  <2>2. attempt' \in 0..MaxRetries
    BY <2>1, PagesAssumption
  <2> QED
    BY <1>2, <2>2 DEF Retry, boardVars, FetchInv, FetchTypeOK
<1>3. ASSUME NEW r \in Refusals, Fail(r) \/ Raise(r)
      PROVE  FetchInv'
  <2>1. StatusOf(r) \in Statuses
    BY <1>3 DEF StatusOf, Statuses, Refusals
  <2>2. /\ fetching' = FALSE /\ status' \in Statuses /\ payload' = NoPayload
        /\ UNCHANGED <<kind, host, attempt, pages, got, total, boardVars>>
    BY <1>3, <2>1 DEF Fail, Raise, Finish, Statuses
  <2> QED
    BY <2>2 DEF boardVars, FetchInv, FetchTypeOK
<1>4. ASSUME PostingAppears
      PROVE  FetchInv'
  <2>1. /\ changes \in 0..MaxChanges /\ changes < MaxChanges /\ changes' = changes + 1
        /\ withdrawn \in 0..changes /\ UNCHANGED <<callVars, withdrawn, odd>>
    BY <1>4 DEF PostingAppears, FetchInv, FetchTypeOK
  <2>2. changes' \in 0..MaxChanges /\ withdrawn' \in 0..changes' /\ MaxPostings + changes + 1 \in Ids
    BY <2>1, BoardsAssumption DEF Ids
  <2>3. board' \in Seq(Ids)
    BY <1>4, <2>2, InsertingInSeq DEF PostingAppears, FetchInv
  <2> QED
    BY <2>1, <2>2, <2>3 DEF callVars, FetchInv, FetchTypeOK
<1>5. ASSUME PostingGoes
      PROVE  FetchInv'
  <2>1. /\ changes \in 0..MaxChanges /\ changes < MaxChanges /\ changes' = changes + 1
        /\ withdrawn \in 0..changes /\ withdrawn' = withdrawn + 1 /\ UNCHANGED <<callVars, odd>>
    BY <1>5 DEF PostingGoes, FetchInv, FetchTypeOK
  <2>2. changes' \in 0..MaxChanges /\ withdrawn' \in 0..changes'
    BY <2>1, BoardsAssumption
  <2>3. board' \in Seq(Ids)
    BY <1>5, RemovingFromSeq DEF PostingGoes, FetchInv
  <2> QED
    BY <2>1, <2>2, <2>3 DEF callVars, FetchInv, FetchTypeOK
<1> QED
    BY <1>1, <1>2, <1>3, <1>4, <1>5, ReadingStep DEF FetchStep, BoardStep

LEMMA FetchBeginsIdle == FetchInit => FetchInv
<1>1. <<>> \in Seq(Ids) /\ ToSet(<<>>) = {} /\ 0 \in 0..MaxChanges /\ 0 \in 0..0
    BY BoardsAssumption DEF ToSet
<1>2. 0 \in 0..MaxRetries /\ 0 \in 0..MaxPages
    BY PagesAssumption
<1>3. ASSUME FetchInit
      PROVE  FetchTypeOK
  <2>1. ToSet(got) = {} /\ withdrawn \in 0..changes
    BY <1>1, <1>3 DEF FetchInit
  <2>2. /\ kind \in Kinds /\ fetching = FALSE /\ host = "global" /\ odd = FALSE /\ attempt = 0
        /\ pages = 0 /\ total = 0 /\ status = "none" /\ payload = NoPayload
    BY <1>3 DEF FetchInit
  <2> QED
    BY <1>2, <2>1, <2>2 DEF FetchTypeOK, Statuses
<1> QED
    BY <1>1, <1>3 DEF FetchInit, FetchInv

-----------------------------------------------------------------------------
(* De-duplication.                                                         *)

(* Jobs are kept one by one, unless they are kept already.                 *)
Keeps(kept, j) == IF Contains(kept, j) THEN kept ELSE Append(kept, j)

LEMMA DeduplicationRuns ==
    ASSUME NEW S, NEW jobs \in Seq(S)
    PROVE  \E kept : /\ kept[0] = <<>> /\ Deduplicated(jobs) = kept[Len(jobs)]
                     /\ \A m \in 1..Len(jobs) : kept[m] = Keeps(kept[m - 1], jobs[m])
<1> DEFINE n == Len(jobs)
           Eq(g) == g = [s \in SUBSET (1..n) |->
                            IF s = {} THEN <<>> ELSE Keeps(g[s \ {Max(s)}], jobs[Max(s)])]
           step == [m \in 1..n |-> [kept \in Seq(S) |-> Keeps(kept, jobs[m])]]
<1>1. n \in Nat /\ DOMAIN jobs = 1..n /\ \A m \in 1..n : jobs[m] \in S
    OBVIOUS
<1>2. PICK g \in [SUBSET (1..n) -> Seq(S)] : FoldsBy(g, 1..n, <<>>, LastOf(n), step)
  <2>1. <<>> \in Seq(S) /\ \A m \in 1..n, kept \in Seq(S) : step[m][kept] \in Seq(S)
    BY <1>1 DEF Keeps
  <2> QED
    BY <1>1, <2>1, LeftFoldExists
<1>3. Eq(g)
  <2>1. \A s \in SUBSET (1..n) : s # {} => Max(s) \in 1..n /\ LastOf(n)[s] = Max(s)
    BY <1>1, MaxIsElement DEF LastOf
  <2>2. \A s \in SUBSET (1..n) : s # {} =>
           step[LastOf(n)[s]][g[s \ {LastOf(n)[s]}]] = Keeps(g[s \ {Max(s)}], jobs[Max(s)])
    BY <1>2, <2>1
  <2> QED
    BY <1>2, <2>2 DEF FoldsBy
<1>4. PICK it : Eq(it) /\ Deduplicated(jobs) = it[1..n]
  <2>1. Eq(CHOOSE h : Eq(h))
    BY <1>3
  <2>2. Deduplicated(jobs) = (CHOOSE h : Eq(h))[1..n]
    BY <1>1 DEF Deduplicated, FoldLeft, MapThenFoldSet, Keeps
  <2> QED
    BY <2>1, <2>2
<1> DEFINE kept == [m \in 0..n |-> it[1..m]]
<1>5. kept[0] = <<>> /\ kept[n] = it[1..n]
  <2>1. it[{}] = <<>> /\ 1..0 = {}
    BY <1>4
  <2> QED
    BY <1>1, <2>1
<1>6. ASSUME NEW m \in 1..n
      PROVE  kept[m] = Keeps(kept[m - 1], jobs[m])
  <2>1. Max(1..m) = m /\ (1..m) \ {m} = 1..(m - 1) /\ 1..m # {} /\ 1..m \in SUBSET (1..n)
    BY <1>1, MaxOfFirst
  <2>2. it[1..m] = Keeps(it[1..(m - 1)], jobs[m])
    BY <1>4, <2>1
  <2>3. kept[m] = it[1..m] /\ kept[m - 1] = it[1..(m - 1)]
    BY <1>1
  <2> QED
    BY <2>2, <2>3
<1> QED
    BY <1>4, <1>5, <1>6

LEMMA KeepingOne ==
    ASSUME NEW S, NEW kept \in Seq(S), NEW j \in S, IsInjective(kept)
    PROVE  /\ Keeps(kept, j) \in Seq(S) /\ IsInjective(Keeps(kept, j))
           /\ ToSet(Keeps(kept, j)) = ToSet(kept) \cup {j}
<1>1. CASE Contains(kept, j)
  <2>1. j \in ToSet(kept)
    BY <1>1 DEF Contains, ToSet
  <2> QED
    BY <1>1, <2>1 DEF Keeps
<1>2. CASE ~ Contains(kept, j)
  <2> DEFINE more == Append(kept, j)
  <2>1. /\ more \in Seq(S) /\ Len(kept) \in Nat /\ DOMAIN kept = 1..Len(kept)
        /\ DOMAIN more = 1..(Len(kept) + 1) /\ more[Len(kept) + 1] = j
        /\ \A q \in 1..Len(kept) : more[q] = kept[q]
    OBVIOUS
  <2> HIDE DEF more
  <2>2. \A q \in 1..Len(kept) : kept[q] # j
    BY <1>2 DEF Contains
  <2>3. IsInjective(more)
    BY <2>1, <2>2 DEF IsInjective
  <2>4. ToSet(more) = ToSet(kept) \cup {j}
    BY <2>1 DEF ToSet
  <2>5. Keeps(kept, j) = more
    BY <1>2 DEF Keeps, more
  <2> QED
    BY <2>1, <2>3, <2>4, <2>5
<1> QED
    BY <1>1, <1>2

(* No job is lost and none is kept twice.                                  *)
LEMMA DeduplicationKeepsAll ==
    ASSUME NEW S, NEW jobs \in Seq(S)
    PROVE  ToSet(Deduplicated(jobs)) = ToSet(jobs) /\ IsInjective(Deduplicated(jobs))
<1>1. PICK kept : /\ kept[0] = <<>> /\ Deduplicated(jobs) = kept[Len(jobs)]
                  /\ \A m \in 1..Len(jobs) : kept[m] = Keeps(kept[m - 1], jobs[m])
    BY DeduplicationRuns
<1> DEFINE Kept(m) == /\ kept[m] \in Seq(S) /\ IsInjective(kept[m])
                      /\ ToSet(kept[m]) = {jobs[q] : q \in 1..m}
           T == {m \in 0..Len(jobs) : Kept(m)}
<1>2. Len(jobs) \in Nat /\ DOMAIN jobs = 1..Len(jobs) /\ \A m \in 1..Len(jobs) : jobs[m] \in S
    OBVIOUS
<1>3. 0 \in T
  <2>1. <<>> \in Seq(S) /\ IsInjective(<<>>) /\ ToSet(<<>>) = {} /\ {jobs[q] : q \in 1..0} = {}
    BY DEF IsInjective, ToSet
  <2>2. Kept(0)
    BY <1>1, <2>1
  <2> QED
    BY <1>2, <2>2
<1>4. ASSUME NEW m \in 1..Len(jobs), m - 1 \in T PROVE m \in T
  <2>1. Kept(m - 1) /\ jobs[m] \in S /\ kept[m] = Keeps(kept[m - 1], jobs[m])
    BY <1>1, <1>2, <1>4
  <2>2. {jobs[q] : q \in 1..m} = {jobs[q] : q \in 1..(m - 1)} \cup {jobs[m]}
    BY <1>2
  <2>3. /\ Keeps(kept[m - 1], jobs[m]) \in Seq(S) /\ IsInjective(Keeps(kept[m - 1], jobs[m]))
        /\ ToSet(Keeps(kept[m - 1], jobs[m])) = ToSet(kept[m - 1]) \cup {jobs[m]}
    BY <2>1, KeepingOne
  <2>4. Kept(m)
    BY <2>1, <2>2, <2>3
  <2> QED
    BY <1>2, <2>4
<1>5. Len(jobs) \in T
  <2> HIDE DEF T
  <2>1. 0..Len(jobs) \subseteq T
    BY <1>2, <1>3, <1>4, RangeSets
  <2> QED
    BY <1>2, <2>1
<1>6. Kept(Len(jobs))
    BY <1>5
<1> QED
    BY <1>1, <1>2, <1>6 DEF ToSet

-----------------------------------------------------------------------------
(* What a fetch may lack of its board.                                     *)

(* Postings that stay on the board b and are not in what was read, g,      *)
(* although their places are behind the offset.                            *)
Missed(st, g, b) ==
    {x \in st : x \notin ToSet(g) /\ \E p \in 1..Len(b) : p <= Len(g) /\ b[p] = x}

(* While pages come, a posting is missed only for one taken down.  For     *)
(* Workday, the board's size is the first page's total and the changes.    *)
FetchedSoFar ==
    fetching =>
        /\ still \subseteq ToSet(board) /\ still \subseteq 1..MaxPostings
        /\ pages = 0 => changes = 0 /\ withdrawn = 0 /\ got = <<>>
        /\ kind \in {"whole", "workable"} => pages = 0
        /\ changes = 0 => still = ToSet(board) /\ ToSet(got) \subseteq ToSet(board)
        /\ ~odd => /\ Cardinality(Missed(still, got, board)) <= withdrawn
                   /\ kind = "workday" /\ pages > 0 => Len(board) + 2 * withdrawn = total + changes

TornInv == FetchInv /\ FetchedSoFar /\ StillBoardIsFetchedWhole /\ TornFetchLosesLittle

LEMMA SmallerSets ==
    ASSUME NEW S, IsFiniteSet(S), NEW T, T \subseteq S
    PROVE  IsFiniteSet(T) /\ Cardinality(T) \in Nat /\ Cardinality(T) <= Cardinality(S)
<1>1. IsFiniteSet(T) /\ Cardinality(T) <= Cardinality(S)
    BY FS_Subset
<1> QED
    BY <1>1, FS_CardinalityType

LEMMA MissedAreFinite ==
    ASSUME NEW st, st \subseteq 1..MaxPostings, NEW g, NEW b
    PROVE  IsFiniteSet(Missed(st, g, b)) /\ Cardinality(Missed(st, g, b)) \in Nat
<1>1. IsFiniteSet(1..MaxPostings)
  <2>1. 1 \in Int /\ MaxPostings \in Int
    BY BoardsAssumption
  <2> QED
    BY <2>1, FS_Interval
<1>2. Missed(st, g, b) \subseteq 1..MaxPostings
    BY DEF Missed
<1> QED
    BY <1>1, <1>2, SmallerSets

(* A fetch that goes on has no payload yet.                                *)
LEMMA NothingFetched ==
    ASSUME fetching' = TRUE \/ payload' = NoPayload
    PROVE  StillBoardIsFetchedWhole' /\ TornFetchLosesLittle'
BY DEF StillBoardIsFetchedWhole, TornFetchLosesLittle, Fetched

LEMMA TornBegins ==
    ASSUME TornInv, NEW k \in Kinds, StartFetch(k)
    PROVE  TornInv'
<1>1. FetchInv'
    BY FetchBegins DEF TornInv
<1>2. /\ fetching' = TRUE /\ board' \in BoardsOf(k) /\ still' = ToSet(board') /\ got' = <<>>
      /\ pages' = 0 /\ changes' = 0 /\ withdrawn' = 0
    BY DEF StartFetch
<1>3. ToSet(board') \subseteq 1..MaxPostings
    BY <1>2, BoardsAreSequences
<1>4. Missed(still', got', board') = {}
  <2>1. \A p \in 1..Len(board') : ~ (p <= Len(<<>>))
    OBVIOUS
  <2> QED
    BY <1>2, <2>1 DEF Missed
<1>5. Cardinality(Missed(still', got', board')) <= 0 /\ ToSet(got') = {}
    BY <1>2, <1>4, FS_EmptySet DEF ToSet
<1>6. FetchedSoFar'
    BY <1>2, <1>3, <1>5 DEF FetchedSoFar
<1> QED
    BY <1>1, <1>2, <1>6, NothingFetched DEF TornInv

LEMMA TornWithAppearing ==
    ASSUME TornInv, PostingAppears
    PROVE  FetchedSoFar'
<1> DEFINE e == MaxPostings + changes + 1
<1>1. PICK p \in 1..(Len(board) + 1) : board' = InsertAt(board, p, e)
    BY DEF PostingAppears
<1>2. /\ fetching /\ pages > 0 /\ changes' = changes + 1 /\ withdrawn' = withdrawn
      /\ still' = still /\ odd' = odd /\ got' = got /\ kind' = kind /\ pages' = pages
      /\ total' = total /\ fetching' = fetching
    BY DEF PostingAppears, callVars
<1>3. /\ changes \in Nat /\ withdrawn \in Nat /\ total \in Nat /\ e \in Ids
      /\ board \in Seq(Ids) /\ got \in Seq(Ids)
    BY BoardsAssumption DEF TornInv, FetchInv, FetchTypeOK, PostingAppears, Ids
<1>4. /\ Len(board') = Len(board) + 1
      /\ \A q \in 1..(Len(board) + 1) :
            board'[q] = IF q < p THEN board[q] ELSE IF q = p THEN e ELSE board[q - 1]
      /\ board' \in Seq(Ids)
  <2> HIDE DEF e
  <2>1. /\ InsertAt(board, p, e) \in Seq(Ids)
        /\ Len(InsertAt(board, p, e)) = Len(board) + 1
        /\ \A q \in 1..(Len(board) + 1) : InsertAt(board, p, e)[q] =
              IF q < p THEN board[q] ELSE IF q = p THEN e ELSE board[q - 1]
    BY <1>3, InsertingInSeq
  <2> QED
    BY <1>1, <2>1
<1>5. e \notin still /\ still \subseteq ToSet(board) /\ still \subseteq 1..MaxPostings
    BY <1>2, <1>3, BoardsAssumption DEF TornInv, FetchedSoFar
<1>6. still \subseteq ToSet(board')
  <2>1. SUFFICES ASSUME NEW x \in still PROVE x \in ToSet(board')
    OBVIOUS
  <2>2. PICK q \in 1..Len(board) : board[q] = x
    BY <1>3, <1>5 DEF ToSet
  <2>3. CASE q < p
    <3>1. board'[q] = x /\ q \in DOMAIN board'
        BY <1>3, <1>4, <2>2, <2>3
    <3> QED
        BY <3>1 DEF ToSet
  <2>4. CASE ~ (q < p)
    <3>1. q + 1 \in 1..(Len(board) + 1) /\ ~ (q + 1 < p) /\ q + 1 # p /\ (q + 1) - 1 = q
        BY <1>3, <2>4
    <3>2. board'[q + 1] = x /\ q + 1 \in DOMAIN board'
        BY <1>3, <1>4, <2>2, <3>1
    <3> QED
        BY <3>2 DEF ToSet
  <2> QED
    BY <2>3, <2>4
<1>7. Missed(still, got, board') \subseteq Missed(still, got, board)
  <2>1. SUFFICES ASSUME NEW x \in Missed(still, got, board')
                 PROVE  \E q \in 1..Len(board) : q <= Len(got) /\ board[q] = x
    BY DEF Missed
  <2>2. PICK q \in 1..(Len(board) + 1) : q <= Len(got) /\ board'[q] = x /\ x # e
    BY <1>4, <1>5 DEF Missed
  <2>3. CASE q < p
    BY <1>3, <1>4, <2>2, <2>3
  <2>4. CASE ~ (q < p)
    <3>1. q # p /\ board[q - 1] = x
        BY <1>4, <2>2, <2>4
    <3>2. q - 1 \in 1..Len(board) /\ q - 1 <= Len(got)
        BY <1>3, <2>2, <2>4, <3>1
    <3> QED
        BY <3>1, <3>2
  <2> QED
    BY <2>3, <2>4
<1>8. Cardinality(Missed(still, got, board')) <= Cardinality(Missed(still, got, board))
    BY <1>5, <1>7, MissedAreFinite, SmallerSets
<1>9. ~odd => Cardinality(Missed(still, got, board')) <= withdrawn
  <2>1. /\ Cardinality(Missed(still, got, board')) \in Nat
        /\ Cardinality(Missed(still, got, board)) \in Nat
    BY <1>5, MissedAreFinite
  <2>2. ~odd => Cardinality(Missed(still, got, board)) <= withdrawn
    BY <1>2 DEF TornInv, FetchedSoFar
  <2> QED
    BY <1>3, <1>8, <2>1, <2>2
<1>10. ~odd /\ kind = "workday" => Len(board') + 2 * withdrawn = total + changes'
  <2>1. ~odd /\ kind = "workday" => Len(board) + 2 * withdrawn = total + changes
    BY <1>2 DEF TornInv, FetchedSoFar
  <2>2. Len(board) \in Nat
    BY <1>3
  <2> QED
    BY <1>2, <1>3, <1>4, <2>1, <2>2
<1>11. kind \notin {"whole", "workable"} /\ changes' # 0 /\ pages' # 0
    BY <1>2, <1>3 DEF TornInv, FetchedSoFar, FetchInv, FetchTypeOK
<1> QED
    BY <1>2, <1>5, <1>6, <1>9, <1>10, <1>11 DEF FetchedSoFar

LEMMA TornWithGoing ==
    ASSUME TornInv, PostingGoes
    PROVE  FetchedSoFar'
<1>1. PICK p \in 1..Len(board) : board' = RemoveAt(board, p) /\ still' = still \ {board[p]}
    BY DEF PostingGoes
<1>2. /\ fetching /\ pages > 0 /\ changes' = changes + 1 /\ withdrawn' = withdrawn + 1
      /\ odd' = odd /\ got' = got /\ kind' = kind /\ pages' = pages
      /\ total' = total /\ fetching' = fetching
    BY DEF PostingGoes, callVars
<1>3. /\ changes \in Nat /\ withdrawn \in Nat /\ total \in Nat
      /\ board \in Seq(Ids) /\ got \in Seq(Ids) /\ Len(board) \in Nat /\ Len(got) \in Nat
    BY BoardsAssumption DEF TornInv, FetchInv, FetchTypeOK, PostingGoes
<1>4. /\ Len(board') = Len(board) - 1
      /\ \A q \in 1..(Len(board) - 1) : board'[q] = IF q < p THEN board[q] ELSE board[q + 1]
      /\ board' \in Seq(Ids)
    BY <1>1, <1>3, RemovingFromSeq
<1>5. still \subseteq ToSet(board) /\ still \subseteq 1..MaxPostings
    BY <1>2 DEF TornInv, FetchedSoFar
<1>6. still' \subseteq ToSet(board')
  <2>1. SUFFICES ASSUME NEW x \in still, x # board[p] PROVE x \in ToSet(board')
    BY <1>1
  <2>2. PICK q \in 1..Len(board) : board[q] = x
    BY <1>3, <1>5 DEF ToSet
  <2>3. CASE q < p
    <3>1. board'[q] = x /\ q \in DOMAIN board'
        BY <1>3, <1>4, <2>2, <2>3
    <3> QED
        BY <3>1 DEF ToSet
  <2>4. CASE q > p
    <3>1. q - 1 \in 1..(Len(board) - 1) /\ ~ (q - 1 < p) /\ (q - 1) + 1 = q
        BY <1>3, <2>4
    <3>2. board'[q - 1] = x /\ q - 1 \in DOMAIN board'
        BY <1>3, <1>4, <2>2, <3>1
    <3> QED
        BY <3>2 DEF ToSet
  <2>5. q # p
    BY <2>1, <2>2
  <2> QED
    BY <2>3, <2>4, <2>5
<1> DEFINE next == board[Len(got) + 1]
<1>7. Missed(still', got, board') \subseteq Missed(still, got, board) \cup {next}
  <2>1. SUFFICES ASSUME NEW x \in Missed(still', got, board'), x # next
                 PROVE  \E q \in 1..Len(board) : q <= Len(got) /\ board[q] = x
    BY <1>1 DEF Missed
  <2>2. PICK q \in 1..(Len(board) - 1) : q <= Len(got) /\ board'[q] = x
    BY <1>4 DEF Missed
  <2>3. CASE q < p
    BY <1>3, <1>4, <2>2, <2>3
  <2>4. CASE ~ (q < p)
    <3>1. board[q + 1] = x /\ q + 1 \in 1..Len(board)
        BY <1>3, <1>4, <2>2, <2>4
    <3>2. q # Len(got)
        BY <2>1, <3>1
    <3>3. q + 1 <= Len(got)
        BY <1>3, <2>2, <3>2
    <3> QED
        BY <3>1, <3>3
  <2> QED
    BY <2>3, <2>4
<1>8. still' \subseteq 1..MaxPostings
    BY <1>1, <1>5
<1>9. ~odd => Cardinality(Missed(still', got, board')) <= withdrawn + 1
  <2> DEFINE M == Missed(still, got, board)
  <2>1. IsFiniteSet(M) /\ Cardinality(M) \in Nat
    BY <1>5, MissedAreFinite
  <2>2. ~odd => Cardinality(M) <= withdrawn
    BY <1>2 DEF TornInv, FetchedSoFar
  <2> HIDE DEF M, next
  <2>3. IsFiniteSet(M \cup {next}) /\ Cardinality(M \cup {next}) <= Cardinality(M) + 1
    BY <2>1, FS_AddElement
  <2>4. /\ Cardinality(Missed(still', got, board')) <= Cardinality(M \cup {next})
        /\ Cardinality(Missed(still', got, board')) \in Nat /\ Cardinality(M \cup {next}) \in Nat
    <3>1. Missed(still', got, board') \subseteq M \cup {next}
        BY <1>7 DEF M, next
    <3> QED
        BY <2>3, <3>1, SmallerSets, FS_CardinalityType
  <2> QED
    BY <1>3, <2>1, <2>2, <2>3, <2>4
<1>10. ASSUME ~odd, kind = "workday"
       PROVE  Len(board') + 2 * (withdrawn + 1) = total + changes'
  <2>1. Len(board) + 2 * withdrawn = total + changes
    BY <1>2, <1>10 DEF TornInv, FetchedSoFar
  <2>2. Len(board') = Len(board) - 1 /\ changes' = changes + 1
    BY <1>2, <1>4
  <2> QED
    BY <1>3, <2>1, <2>2
<1>11. kind \notin {"whole", "workable"} /\ changes' # 0 /\ pages' # 0
    BY <1>2, <1>3 DEF TornInv, FetchedSoFar, FetchInv, FetchTypeOK
<1> QED
    BY <1>2, <1>6, <1>8, <1>9, <1>10, <1>11 DEF FetchedSoFar

(* Reading the page that was asked for misses nothing new; a page that     *)
(* comes up to the end of the board leaves nothing behind it.              *)
LEMMA ReadingMisses ==
    ASSUME FetchInv, NEW page, page = PageAt(Offset), NEW st
    PROVE  /\ Missed(st, got \o page, board) \subseteq Missed(st, got, board)
           /\ st \subseteq ToSet(board) /\ Len(got \o page) >= Len(board) =>
                 st \ ToSet(got \o page) \subseteq Missed(st, got, board)
<1> DEFINE all == got \o page
<1>1. /\ board \in Seq(Ids) /\ got \in Seq(Ids) /\ Len(got) \in Nat /\ Len(board) \in Nat
      /\ Offset = Len(got)
    BY DEF FetchInv, Offset
<1>2. /\ page \in Seq(Ids) /\ Len(page) \in Nat
      /\ \A q \in 1..Len(page) : Len(got) + q <= Len(board) /\ page[q] = board[Len(got) + q]
  <2>1. PageAt(Offset) \in Seq(Ids)
    BY <1>1, PagesAreParts
  <2>2. \A q \in 1..Len(PageAt(Offset)) :
           Offset + q <= Len(board) /\ PageAt(Offset)[q] = board[Offset + q]
    BY <1>1, PagesAreParts
  <2> QED
    BY <1>1, <2>1, <2>2
<1>3. /\ all \in Seq(Ids) /\ Len(all) = Len(got) + Len(page)
      /\ \A q \in 1..Len(got) : all[q] = got[q]
      /\ \A q \in (Len(got) + 1)..(Len(got) + Len(page)) : all[q] = page[q - Len(got)]
    BY <1>1, <1>2, Concatenation
<1> HIDE DEF all
<1>4. ToSet(got) \subseteq ToSet(all)
    BY <1>1, <1>2, <1>3 DEF ToSet
<1>5. ASSUME NEW p \in 1..Len(board), p > Len(got), p <= Len(all)
      PROVE  board[p] \in ToSet(all)
  <2>1. p - Len(got) \in 1..Len(page) /\ Len(got) + (p - Len(got)) = p
    BY <1>1, <1>2, <1>3, <1>5
  <2>2. page[p - Len(got)] = board[p]
    BY <1>2, <2>1
  <2>3. p \in (Len(got) + 1)..(Len(got) + Len(page)) /\ p \in 1..Len(all)
    BY <1>1, <1>2, <1>3, <1>5
  <2>4. all[p] = board[p] /\ p \in DOMAIN all
    BY <1>3, <2>2, <2>3
  <2> QED
    BY <2>4 DEF ToSet
<1>6. Missed(st, all, board) \subseteq Missed(st, got, board)
  <2>1. SUFFICES ASSUME NEW x \in Missed(st, all, board) PROVE x \in Missed(st, got, board)
    OBVIOUS
  <2>2. PICK p \in 1..Len(board) : p <= Len(all) /\ board[p] = x
    BY DEF Missed
  <2>3. x \in st /\ x \notin ToSet(all)
    BY DEF Missed
  <2>4. p <= Len(got)
    BY <1>1, <1>5, <2>2, <2>3
  <2> QED
    BY <1>4, <2>2, <2>3, <2>4 DEF Missed
<1>7. ASSUME st \subseteq ToSet(board), Len(all) >= Len(board), NEW x \in st \ ToSet(all)
      PROVE  x \in Missed(st, all, board)
  <2>1. PICK p \in 1..Len(board) : board[p] = x
    BY <1>1, <1>7 DEF ToSet
  <2>2. p <= Len(all)
    BY <1>1, <1>2, <1>3, <1>7
  <2> QED
    BY <1>7, <2>1, <2>2 DEF Missed
<1> QED
    BY <1>6, <1>7 DEF all

(* What lies behind the offset is no more than the places there.           *)
LEMMA PlacesBehind ==
    ASSUME NEW S, NEW b \in Seq(S), NEW n \in Nat
    PROVE  LET rest == {b[p] : p \in (n + 1)..Len(b)} IN
           /\ IsFiniteSet(rest) /\ Cardinality(rest) \in Nat
           /\ Cardinality(rest) <= IF Len(b) <= n THEN 0 ELSE Len(b) - n
<1> DEFINE places == (n + 1)..Len(b)
           rest == {b[p] : p \in places}
           at == [p \in places |-> b[p]]
<1>1. IsFiniteSet(places) /\ Cardinality(places) = IF Len(b) <= n THEN 0 ELSE Len(b) - n
  <2>1. n + 1 \in Int /\ Len(b) \in Int
    OBVIOUS
  <2>2. /\ IsFiniteSet(places)
        /\ Cardinality(places) = IF n + 1 > Len(b) THEN 0 ELSE Len(b) - (n + 1) + 1
    BY <2>1, FS_Interval
  <2> QED
    BY <2>1, <2>2
<1>2. at \in Surjection(places, rest)
    BY DEF Surjection
<1> HIDE DEF at, rest, places
<1>3. IsFiniteSet(rest) /\ Cardinality(rest) <= Cardinality(places)
    BY <1>1, <1>2, FS_Surjection
<1>4. Cardinality(rest) \in Nat
    BY <1>3, FS_CardinalityType
<1> QED
    BY <1>1, <1>3, <1>4 DEF rest, places

(* The bound on what a fetch loses, for each kind of fetcher.              *)
Bound == CASE kind = "lever" -> withdrawn [] kind = "workday" -> changes [] OTHER -> 0

LEMMA LastPageLosesLittle ==
    ASSUME TornInv, fetching, NEW page, page = PageAt(Offset), ~odd,
           NEW t \in Nat, pages > 0 => t = total, pages = 0 /\ kind = "workday" => t = Len(board),
           \/ kind \in {"whole", "workable"}
           \/ kind = "lever" /\ Len(page) # PageLimit
           \/ kind = "workday" /\ Len(got \o page) >= t
           \/ kind = "workday" /\ page = <<>>
    PROVE  Cardinality(still \ ToSet(got \o page)) <= Bound
<1> DEFINE all  == got \o page
           lost == still \ ToSet(all)
           missed == Missed(still, got, board)
<1>1. /\ board \in Seq(Ids) /\ got \in Seq(Ids) /\ Len(got) \in Nat /\ Len(board) \in Nat
      /\ Offset = Len(got) /\ changes \in Nat /\ withdrawn \in 0..changes /\ pages \in Nat
      /\ total \in Nat /\ kind \in Kinds
    BY BoardsAssumption DEF TornInv, FetchInv, FetchTypeOK, Offset
<1>2. /\ still \subseteq ToSet(board) /\ still \subseteq 1..MaxPostings
      /\ Cardinality(missed) <= withdrawn
      /\ pages = 0 => changes = 0 /\ withdrawn = 0 /\ got = <<>>
      /\ kind \in {"whole", "workable"} => pages = 0
      /\ kind = "workday" /\ pages > 0 => Len(board) + 2 * withdrawn = total + changes
    BY DEF TornInv, FetchedSoFar
<1>3. /\ page \in Seq(Ids) /\ Len(page) \in Nat
      /\ kind \in {"whole", "workable"} \/ Len(page) # PageLimit =>
            Len(got) + Len(page) >= Len(board)
  <2>1. PageAt(Offset) \in Seq(Ids)
    BY <1>1, PagesAreParts DEF TornInv
  <2>2. kind \in {"whole", "workable"} \/ Len(PageAt(Offset)) # PageLimit =>
           Offset + Len(PageAt(Offset)) >= Len(board)
    BY <1>1, PagesAreParts DEF TornInv
  <2> QED
    BY <1>1, <2>1, <2>2
<1>4. all \in Seq(Ids) /\ Len(all) = Len(got) + Len(page)
    BY <1>1, <1>3, Concatenation
<1>5. /\ Missed(still, all, board) \subseteq missed
      /\ Len(all) >= Len(board) => lost \subseteq missed
    BY <1>2, ReadingMisses DEF TornInv
<1>6. IsFiniteSet(missed) /\ Cardinality(missed) \in Nat
    BY <1>2, MissedAreFinite
<1>7. CASE Len(all) >= Len(board)
  <2> HIDE DEF lost, missed
  <2>1. Cardinality(lost) <= Cardinality(missed) /\ Cardinality(lost) \in Nat
    BY <1>5, <1>6, <1>7, SmallerSets
  <2>2. Cardinality(lost) <= withdrawn
    BY <1>1, <1>2, <1>6, <2>1 DEF missed
  <2>3. withdrawn <= Bound
    BY <1>1, <1>2 DEF Bound, Kinds
  <2>4. Bound \in Nat
    BY <1>1 DEF Bound, Kinds
  <2> QED
    BY <1>1, <2>1, <2>2, <2>3, <2>4 DEF lost
<1>8. CASE kind = "workday" /\ Len(all) >= t /\ Len(all) < Len(board)
  <2> DEFINE rest == {board[p] : p \in (Len(all) + 1)..Len(board)}
  <2>1. Len(all) \in Nat
    BY <1>1, <1>3, <1>4
  <2>2. /\ IsFiniteSet(rest) /\ Cardinality(rest) \in Nat
        /\ Cardinality(rest) <= Len(board) - Len(all)
    <3> DEFINE n == Len(all)
    <3> HIDE DEF n
    <3>1. n \in Nat /\ ~ (Len(board) <= n)
        BY <1>1, <1>8, <2>1 DEF n
    <3>2. /\ IsFiniteSet({board[p] : p \in (n + 1)..Len(board)})
          /\ Cardinality({board[p] : p \in (n + 1)..Len(board)}) \in Nat
          /\ Cardinality({board[p] : p \in (n + 1)..Len(board)})
                <= IF Len(board) <= n THEN 0 ELSE Len(board) - n
        BY <1>1, <3>1, PlacesBehind
    <3> QED
        BY <3>1, <3>2 DEF n
  <2>3. lost \subseteq missed \cup rest
    <3>1. SUFFICES ASSUME NEW x \in lost, x \notin rest PROVE x \in Missed(still, all, board)
        BY <1>5
    <3>2. PICK p \in 1..Len(board) : board[p] = x
        BY <1>1, <1>2 DEF ToSet
    <3>3. p <= Len(all)
        BY <1>1, <2>1, <3>1, <3>2
    <3> QED
        BY <3>2, <3>3 DEF Missed
  <2> HIDE DEF lost, missed, rest
  <2>4. /\ IsFiniteSet(missed \cup rest)
        /\ Cardinality(missed \cup rest) =
              Cardinality(missed) + Cardinality(rest) - Cardinality(missed \cap rest)
    BY <1>6, <2>2, FS_Union
  <2>5. Cardinality(missed \cap rest) \in Nat
    BY <1>6, SmallerSets
  <2>6. /\ Cardinality(lost) <= Cardinality(missed \cup rest) /\ Cardinality(lost) \in Nat
        /\ Cardinality(missed \cup rest) \in Nat
    BY <2>3, <2>4, SmallerSets, FS_CardinalityType
  <2>7. Cardinality(lost) <= withdrawn + (Len(board) - Len(all))
    BY <1>1, <1>2, <1>6, <2>1, <2>2, <2>4, <2>5, <2>6 DEF missed
  <2>8. pages > 0 /\ Len(board) + 2 * withdrawn = t + changes
    BY <1>1, <1>2, <1>8, <2>1
  <2>9. Cardinality(lost) <= changes
    BY <1>1, <1>8, <2>1, <2>6, <2>7, <2>8
  <2> QED
    BY <1>8, <2>9 DEF Bound, lost
<1>9. \/ Len(all) >= Len(board)
      \/ kind = "workday" /\ Len(all) >= t /\ Len(all) < Len(board)
  <2>1. Len(<<>>) = 0 /\ PageLimit # 0
    BY PagesAssumption
  <2> QED
    BY <1>1, <1>3, <1>4, <2>1
<1> QED
    BY <1>7, <1>8, <1>9

LEMMA TornWithReading ==
    ASSUME TornInv, ReadPage
    PROVE  TornInv'
<1>1. PICK page \in Pages : \E t \in TotalsRead(page) :
          /\ got' = got \o page /\ pages' = pages + 1 /\ total' = t
          /\ odd' = (odd \/ page # PageAt(Offset) \/ (kind = "workday" /\ pages = 0 /\ t # Len(board)))
          /\ \/ IsLast(page) /\ fetching' = FALSE /\ Returns
             \/ /\ ~IsLast(page) /\ pages' = MaxPages
                /\ fetching' = FALSE /\ status' = "200" /\ payload' = PastTheCap
             \/ ~IsLast(page) /\ pages' < MaxPages /\ UNCHANGED <<fetching, status, payload>>
    BY DEF ReadPage
<1>2. PICK t \in TotalsRead(page) :
          /\ got' = got \o page /\ pages' = pages + 1 /\ total' = t
          /\ odd' = (odd \/ page # PageAt(Offset) \/ (kind = "workday" /\ pages = 0 /\ t # Len(board)))
          /\ \/ IsLast(page) /\ fetching' = FALSE /\ Returns
             \/ /\ ~IsLast(page) /\ pages' = MaxPages
                /\ fetching' = FALSE /\ status' = "200" /\ payload' = PastTheCap
             \/ ~IsLast(page) /\ pages' < MaxPages /\ UNCHANGED <<fetching, status, payload>>
    BY <1>1
<1>3. /\ board \in Seq(Ids) /\ got \in Seq(Ids) /\ pages \in Nat /\ total \in Nat
      /\ changes \in Nat /\ withdrawn \in 0..changes /\ kind \in Kinds /\ odd \in BOOLEAN
      /\ fetching /\ UNCHANGED <<kind, board, still, changes, withdrawn>>
    BY BoardsAssumption DEF TornInv, FetchInv, FetchTypeOK, ReadPage
<1>4. FetchInv'
    BY ReadingStep DEF TornInv
<1>5. page \in Seq(Ids) /\ ToSet(page) \subseteq ToSet(board)
  <2>1. Offset \in Nat /\ 0 \in Nat
    BY <1>3 DEF Offset
  <2>2. ASSUME NEW o \in {Offset, 0}
        PROVE  PageAt(o) \in Seq(Ids) /\ ToSet(PageAt(o)) \subseteq ToSet(board)
    <3>1. o \in Nat
        BY <2>1
    <3>2. /\ PageAt(o) \in Seq(Ids)
          /\ \A q \in 1..Len(PageAt(o)) : o + q <= Len(board) /\ PageAt(o)[q] = board[o + q]
        BY <3>1, PagesAreParts DEF TornInv
    <3>3. \A q \in 1..Len(PageAt(o)) : o + q \in 1..Len(board)
        BY <1>3, <3>1, <3>2
    <3> QED
        BY <1>3, <3>2, <3>3 DEF ToSet
  <2>3. <<>> \in Seq(Ids) /\ ToSet(<<>>) \subseteq ToSet(board)
    BY DEF ToSet
  <2> QED
    BY <2>2, <2>3 DEF Pages
<1>6. got' \in Seq(Ids) /\ ToSet(got') \subseteq ToSet(got) \cup ToSet(page)
  <2>1. /\ got \o page \in Seq(Ids) /\ Len(got \o page) = Len(got) + Len(page)
        /\ \A q \in 1..Len(got) : (got \o page)[q] = got[q]
        /\ \A q \in (Len(got) + 1)..(Len(got) + Len(page)) : (got \o page)[q] = page[q - Len(got)]
    BY <1>3, <1>5, Concatenation
  <2>2. got' \in Seq(Ids) /\ DOMAIN got' = 1..(Len(got) + Len(page))
    BY <1>2, <2>1
  <2>3. ASSUME NEW q \in 1..(Len(got) + Len(page))
        PROVE  got'[q] \in ToSet(got) \cup ToSet(page)
    <3>1. CASE q <= Len(got)
        BY <1>2, <1>3, <2>1, <3>1 DEF ToSet
    <3>2. CASE q > Len(got)
      <4>1. q \in (Len(got) + 1)..(Len(got) + Len(page)) /\ q - Len(got) \in 1..Len(page)
          BY <1>3, <1>5, <3>2
      <4> QED
          BY <1>2, <1>5, <2>1, <4>1 DEF ToSet
    <3> QED
        BY <1>3, <3>1, <3>2
  <2> QED
    BY <2>2, <2>3 DEF ToSet
<1>7. /\ still \subseteq ToSet(board) /\ still \subseteq 1..MaxPostings
      /\ pages = 0 => changes = 0 /\ withdrawn = 0 /\ got = <<>>
      /\ changes = 0 => still = ToSet(board) /\ ToSet(got) \subseteq ToSet(board)
      /\ ~odd => Cardinality(Missed(still, got, board)) <= withdrawn
      /\ ~odd /\ kind = "workday" /\ pages > 0 => Len(board) + 2 * withdrawn = total + changes
    BY <1>3 DEF TornInv, FetchedSoFar
<1>8. changes = 0 => ToSet(got') \subseteq ToSet(board)
    BY <1>5, <1>6, <1>7
<1>9. ~odd' => /\ ~odd /\ page = PageAt(Offset) /\ t \in Nat
               /\ pages > 0 => t = total
               /\ pages = 0 /\ kind = "workday" => t = Len(board)
  <2>1. t = total \/ (kind = "workday" /\ pages = 0)
    <3>1. t \in TotalsRead(page)
        BY <1>2
    <3> QED
        BY <3>1 DEF TotalsRead
  <2>2. Len(board) \in Nat /\ (pages > 0 => pages # 0)
    BY <1>3
  <2> QED
    BY <1>2, <1>3, <2>1, <2>2
<1>10. CASE fetching' = fetching /\ ~IsLast(page)
  <2>1. fetching' = TRUE
    BY <1>3, <1>10 DEF TornInv, FetchInv, FetchTypeOK
  <2>2. kind \notin {"whole", "workable"}
    BY <1>10 DEF IsLast
  <2>3. pages' # 0 /\ pages' > 0
    BY <1>2, <1>3
  <2>4. ASSUME ~odd'
        PROVE  Cardinality(Missed(still, got', board)) <= withdrawn
    <3>1. Missed(still, got', board) \subseteq Missed(still, got, board)
        BY <1>2, <1>9, <2>4, ReadingMisses DEF TornInv
    <3>2. /\ IsFiniteSet(Missed(still, got, board)) /\ Cardinality(Missed(still, got, board)) \in Nat
          /\ Cardinality(Missed(still, got', board)) \in Nat
        BY <1>7, MissedAreFinite
    <3>3. Cardinality(Missed(still, got', board)) <= Cardinality(Missed(still, got, board))
        BY <3>1, <3>2, SmallerSets
    <3> QED
        BY <1>3, <1>7, <1>9, <2>4, <3>2, <3>3
  <2>5. ASSUME ~odd', kind = "workday"
        PROVE  Len(board) + 2 * withdrawn = total' + changes
    <3>1. CASE pages = 0
      <4>1. total' = Len(board) /\ changes = 0 /\ withdrawn = 0 /\ Len(board) \in Nat
          BY <1>2, <1>3, <1>7, <1>9, <2>5, <3>1
      <4> QED
          BY <4>1
    <3>2. CASE pages > 0
      BY <1>2, <1>7, <1>9, <2>5, <3>2
    <3> QED
      BY <1>3, <3>1, <3>2
  <2>6. FetchedSoFar'
    BY <1>3, <1>7, <1>8, <2>2, <2>3, <2>4, <2>5 DEF FetchedSoFar
  <2> QED
    BY <1>4, <2>1, <2>6, NothingFetched DEF TornInv
<1>11. CASE fetching' = FALSE /\ payload' \in {PastTheCap, NoPayload}
    BY <1>4, <1>11, NothingFetched DEF TornInv, FetchedSoFar, PastTheCap
<1>12. CASE fetching' = FALSE /\ IsLast(page) /\ payload' = Result(got')
  <2>1. /\ ToSet(payload') = ToSet(got')
        /\ kind \in {"lever", "workable"} => IsInjective(payload')
    BY <1>6, <1>12, DeduplicationKeepsAll DEF Result, Deduplicates
  <2> DEFINE lost == still \ ToSet(got')
  <2>2. ASSUME ~odd'
        PROVE  IsFiniteSet(lost) /\ Cardinality(lost) <= Bound
    <3>1. \/ kind \in {"whole", "workable"}
          \/ kind = "lever" /\ Len(page) # PageLimit
          \/ kind = "workday" /\ Len(got \o page) >= t
          \/ kind = "workday" /\ page = <<>>
        BY <1>2, <1>3, <1>12 DEF IsLast, Kinds
    <3>2. Cardinality(lost) <= Bound
        BY <1>2, <1>3, <1>9, <2>2, <3>1, LastPageLosesLittle
    <3>3. IsFiniteSet(1..MaxPostings)
      <4>1. 1 \in Int /\ MaxPostings \in Int
          BY BoardsAssumption
      <4> QED
          BY <4>1, FS_Interval
    <3>4. IsFiniteSet(lost)
        BY <1>7, <3>3, SmallerSets
    <3> QED
        BY <3>2, <3>4
  <2>3. TornFetchLosesLittle'
    BY <1>3, <2>1, <2>2 DEF TornFetchLosesLittle, Bound
  <2>4. ASSUME ~odd', changes = 0
        PROVE  ToSet(payload') = ToSet(board)
    <3>1. Bound = 0
        BY <1>3, <2>4 DEF Bound, Kinds
    <3>2. IsFiniteSet(lost) /\ Cardinality(lost) = 0
        BY <2>2, <2>4, <3>1, FS_CardinalityType
    <3>3. lost = {}
        BY <3>2, FS_EmptySet
    <3> QED
        BY <1>7, <1>8, <2>1, <2>4, <3>3
  <2>5. StillBoardIsFetchedWhole'
    BY <1>3, <2>4 DEF StillBoardIsFetchedWhole
  <2> QED
    BY <1>4, <1>12, <2>3, <2>5 DEF TornInv, FetchedSoFar
<1> QED
    BY <1>2, <1>10, <1>11, <1>12 DEF Returns

LEMMA TornStep ==
    ASSUME TornInv, FetchStep \/ BoardStep
    PROVE  TornInv'
<1>1. FetchInv'
    BY FetchingStep DEF TornInv
<1>2. ASSUME FallBackToEu \/ \E r \in Refusals : Retry(r)
      PROVE  TornInv'
  <2>1. /\ fetching /\ fetching' = fetching
        /\ UNCHANGED <<kind, pages, got, total, board, still, changes, withdrawn, odd>>
    BY <1>2 DEF FallBackToEu, Retry, boardVars
  <2>2. fetching' = TRUE
    BY <2>1 DEF TornInv, FetchInv, FetchTypeOK
  <2>3. FetchedSoFar'
    BY <2>1 DEF TornInv, FetchedSoFar
  <2> QED
    BY <1>1, <2>2, <2>3, NothingFetched DEF TornInv
<1>3. ASSUME \E r \in Refusals : Fail(r) \/ Raise(r)
      PROVE  TornInv'
  <2>1. fetching' = FALSE /\ payload' = NoPayload
    BY <1>3 DEF Fail, Raise, Finish
  <2> QED
    BY <1>1, <2>1, NothingFetched DEF TornInv, FetchedSoFar
<1>4. ASSUME PostingAppears \/ PostingGoes
      PROVE  TornInv'
  <2>1. fetching' = TRUE
    BY <1>4 DEF PostingAppears, PostingGoes, callVars, TornInv, FetchInv, FetchTypeOK
  <2> QED
    BY <1>1, <1>4, <2>1, TornWithAppearing, TornWithGoing, NothingFetched DEF TornInv
<1> QED
    BY <1>2, <1>3, <1>4, TornWithReading DEF FetchStep, BoardStep

LEMMA TornStays ==
    ASSUME TornInv, UNCHANGED fetchVars
    PROVE  TornInv'
BY DEF TornInv, FetchInv, FetchTypeOK, FetchedSoFar, StillBoardIsFetchedWhole,
       TornFetchLosesLittle, Fetched, Missed, fetchVars, callVars, boardVars

LEMMA TornInit == FetchInit => TornInv
BY FetchBeginsIdle DEF TornInv, FetchInit, FetchedSoFar, StillBoardIsFetchedWhole,
                       TornFetchLosesLittle, Fetched
=============================================================================
