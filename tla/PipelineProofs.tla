--------------------------- MODULE PipelineProofs ---------------------------
(***************************************************************************)
(* Theorems about Pipeline, for every set of boards and postings, every    *)
(* DETAIL_RUN_LIMIT, and cycles that a stage ends early at any step.       *)
(***************************************************************************)
EXTENDS Pipeline, FiniteSetTheorems, TLAPS

(* Room is left for every board that is still to be fetched.               *)
RoomLeft == Len(raw_fetches) + Cardinality(boards) <= MaxFetches

(* A work list was read when its stage began: the rows a pass has yet to   *)
(* parse are unparsed, what detail_run has yet to look at has no detail    *)
(* row, what classify_run has yet to write exists.                         *)
WorkListsOK ==
    /\ rows \subseteq Unparsed
    /\ \A k \in candidates : raw_details[k[1]][k[2]] = "none"
    /\ \A k \in batch : postings[k[1]][k[2]].text # "absent"

(* A parse pass has every unparsed row of a configured company before it;  *)
(* classification every posting that waits for it, and no such row is left.*)
Ahead(r) == r \in rows /\ stage \in {"parse", "reparse"}

PassesAreComplete ==
    /\ stage \in {"parse", "reparse", "classify"} =>
          \A r \in DOMAIN raw_fetches :
              raw_fetches[r].parsed \/ raw_fetches[r].company \notin configured \/ Ahead(r)
    /\ stage = "classify" => NeedsClassifying \subseteq batch

(* Versions come from rows of their own company, in the order of the rows, *)
(* and a row that is parsed again or was left over is not older than them. *)
(* The last one has the posting's text.                                    *)
VersionsInOrder(c, i) ==
    LET vs == posting_versions[c][i]
    IN  /\ \A n \in DOMAIN vs :
              /\ vs[n].observed_at \in RowsOf(c)
              /\ \A r \in RowsOf(c) : ~ raw_fetches[r].parsed => vs[n].observed_at <= r
        /\ \A m, n \in DOMAIN vs : m <= n => vs[m].observed_at <= vs[n].observed_at
        /\ postings[c][i].text # "absent" =>
              vs # <<>> /\ vs[Len(vs)].text = postings[c][i].text

VersionsOK == \A c \in Companies, i \in Ids : VersionsInOrder(c, i)

(* Once this cycle has collected something it has collected from every     *)
(* board; a board's latest row then waits to be parsed, waits to be        *)
(* flagged, or has brought every stored detail into postings.              *)
Joins(r, c) ==
    raw_fetches[r].payload # NoPayload =>
        \A i \in Ids \cap raw_fetches[r].payload :
            raw_details[c][i] = "stored" => postings[c][i].text = "detailed"

ToBeFlagged(c) == stage \in {"details", "flag"} /\ c \in joined

OnItsWay(r, c) == ~ raw_fetches[r].parsed \/ ToBeFlagged(c) \/ Joins(r, c)

DetailsAreOnTheirWay ==
    /\ stage = "ingest" =>
          \/ \A c \in configured \ boards : \A r \in RowsOf(c) :
                IsFlagged(r, c) => ~ raw_fetches[r].parsed
          \/ boards = {} /\ ~ ingest_ok
    /\ stage \notin {"idle", "ingest"} /\ ingest_ok =>
          \A c \in configured : \A r \in RowsOf(c) : IsFlagged(r, c) => OnItsWay(r, c)

-----------------------------------------------------------------------------
(* What a step does to the rows, in terms of their fields.                 *)

Rows == DOMAIN raw_fetches

LEMMA RowsAreNumbered ==
    ASSUME TypeOK
    PROVE  /\ Rows = 1..Len(raw_fetches) /\ Len(raw_fetches) \in Nat
           /\ \A r \in Rows : raw_fetches[r] \in RawFetch
BY DEF TypeOK, Rows

(* The rows are the same, and which of them are parsed changes.            *)
SameRows ==
    /\ raw_fetches' \in Seq(RawFetch) /\ Len(raw_fetches') = Len(raw_fetches)
    /\ DOMAIN raw_fetches' = Rows
    /\ \A r \in Rows : /\ raw_fetches'[r].company = raw_fetches[r].company
                       /\ raw_fetches'[r].payload = raw_fetches[r].payload

LEMMA ParsingMarksRow ==
    ASSUME TypeOK, NEW r \in Rows, raw_fetches' = [raw_fetches EXCEPT ![r].parsed = TRUE]
    PROVE  SameRows /\ \A s \in Rows : raw_fetches'[s].parsed = (raw_fetches[s].parsed \/ s = r)
<1>1. raw_fetches \in Seq(RawFetch)
    BY DEF TypeOK
<1>2. [raw_fetches[r] EXCEPT !.parsed = TRUE] \in RawFetch
  <2>1. raw_fetches[r] \in RawFetch
    BY <1>1 DEF Rows
  <2> QED
    BY <2>1 DEF RawFetch
<1>3. raw_fetches' = [raw_fetches EXCEPT ![r] = [raw_fetches[r] EXCEPT !.parsed = TRUE]]
    OBVIOUS
<1>4. raw_fetches' \in Seq(RawFetch) /\ Len(raw_fetches') = Len(raw_fetches)
    BY <1>1, <1>2, <1>3 DEF Rows
<1>5. DOMAIN raw_fetches' = Rows
    BY <1>3 DEF Rows
<1>6. ASSUME NEW s \in Rows
      PROVE  /\ raw_fetches'[s].company = raw_fetches[s].company
             /\ raw_fetches'[s].payload = raw_fetches[s].payload
             /\ raw_fetches'[s].parsed = (raw_fetches[s].parsed \/ s = r)
  <2>1. raw_fetches[s] \in RawFetch
    BY <1>1 DEF Rows
  <2>2. CASE s = r
    <3>1. raw_fetches'[s] = [raw_fetches[r] EXCEPT !.parsed = TRUE]
        BY <1>3, <2>2 DEF Rows
    <3> QED
        BY <2>1, <2>2, <3>1 DEF RawFetch
  <2>3. CASE s # r
    <3>1. raw_fetches'[s] = raw_fetches[s]
        BY <1>3, <2>3 DEF Rows
    <3>2. raw_fetches[s].parsed \in BOOLEAN
        BY <2>1 DEF RawFetch
    <3> QED
        BY <2>3, <3>1, <3>2
  <2> QED
    BY <2>2, <2>3
<1> QED
    BY <1>4, <1>5, <1>6 DEF SameRows

LEMMA FlaggingUnmarksRow ==
    ASSUME TypeOK, NEW c \in Companies, FlagLatest(c)
    PROVE  /\ SameRows
           /\ \A s \in Rows : raw_fetches'[s].parsed = (raw_fetches[s].parsed /\ ~ IsFlagged(s, c))
<1>1. raw_fetches \in Seq(RawFetch)
    BY DEF TypeOK
<1>2. /\ Rows = 1..Len(raw_fetches) /\ Len(raw_fetches) \in Nat
      /\ \A r \in Rows : raw_fetches[r] \in RawFetch
    BY RowsAreNumbered
<1>3. \A r \in Rows : [raw_fetches[r] EXCEPT !.parsed = FALSE] \in RawFetch
    BY <1>2 DEF RawFetch
<1>4. raw_fetches' = [r \in Rows |-> IF IsFlagged(r, c)
                                     THEN [raw_fetches[r] EXCEPT !.parsed = FALSE]
                                     ELSE raw_fetches[r]]
    BY DEF FlagLatest, Rows
<1>5. raw_fetches' \in [1..Len(raw_fetches) -> RawFetch]
    BY <1>2, <1>3, <1>4
<1>6. raw_fetches' \in Seq(RawFetch) /\ Len(raw_fetches') = Len(raw_fetches)
    BY <1>2, <1>5
<1>7. \A r \in Rows : raw_fetches[r].parsed \in BOOLEAN
    BY <1>2 DEF RawFetch
<1> QED
    BY <1>2, <1>3, <1>4, <1>6, <1>7 DEF SameRows, RawFetch, Rows

(* Fetching a board adds an unparsed row behind all others.                *)
AddsRow(c) ==
    LET last == Len(raw_fetches) + 1
    IN  /\ raw_fetches' \in Seq(RawFetch) /\ Len(raw_fetches') = last
        /\ DOMAIN raw_fetches' = Rows \cup {last}
        /\ \A r \in Rows : raw_fetches'[r] = raw_fetches[r]
        /\ raw_fetches'[last].company = c /\ ~ raw_fetches'[last].parsed

LEMMA FetchingAddsRow ==
    ASSUME TypeOK, NEW c \in Companies, FetchBoard(c)
    PROVE  AddsRow(c)
<1>1. PICK p \in {NoPayload} \cup SUBSET Ids :
          raw_fetches' = Append(raw_fetches, [company |-> c, payload |-> p, parsed |-> FALSE])
    BY DEF FetchBoard
<1>2. [company |-> c, payload |-> p, parsed |-> FALSE] \in RawFetch
    BY DEF RawFetch
<1>3. raw_fetches \in Seq(RawFetch)
    BY DEF TypeOK
<1> QED
    BY <1>1, <1>2, <1>3 DEF AddsRow, Rows

-----------------------------------------------------------------------------
(* What parsing does to one posting.                                       *)
Lists(r, c, i) ==
    /\ c = raw_fetches[r].company
    /\ raw_fetches[r].payload # NoPayload /\ i \in raw_fetches[r].payload

LEMMA ExtractedIsText ==
    ASSUME NEW c \in Companies, NEW i \in Ids
    PROVE  Extracted(c, i) \in Texts
BY DEF Extracted, Texts

LEMMA ParsingUpserts ==
    ASSUME TypeOK, NEW r \in RowIds, ParseRow(r), NEW c \in Companies, NEW i \in Ids
    PROVE  /\ Lists(r, c, i) =>
                 /\ postings'[c][i] = Upserted(postings[c][i], Extracted(c, i))
                 /\ posting_versions'[c][i] =
                       IF postings[c][i].text = Extracted(c, i) THEN posting_versions[c][i]
                       ELSE Append(posting_versions[c][i],
                                   [observed_at |-> r, text |-> Extracted(c, i)])
           /\ ~ Lists(r, c, i) => /\ postings'[c][i] = postings[c][i]
                                  /\ posting_versions'[c][i] = posting_versions[c][i]
BY DEF ParseRow, Lists

LEMMA UpsertedIsPosting ==
    ASSUME NEW p \in Posting, NEW text \in Texts
    PROVE  /\ Upserted(p, text) \in Posting
           /\ Upserted(p, text).text = text
           /\ Upserted(p, text).stale = (p.stale \/ p.text # text)
           /\ Upserted(p, text).location = p.location
           /\ Upserted(p, text).seniority = p.seniority
BY DEF Upserted, Posting, Texts

LEMMA PostingsAreTyped ==
    ASSUME TypeOK, NEW c \in Companies, NEW i \in Ids
    PROVE  /\ postings[c][i] \in Posting
           /\ posting_versions[c][i] \in Seq(Version)
           /\ raw_details[c][i] \in Detail
BY DEF TypeOK

(* Its text is what was extracted; if that is new it waits to be classified *)
(* and has a new version, and otherwise nothing about it changes.          *)
LEMMA ParsingChanges ==
    ASSUME TypeOK, NEW r \in RowIds, ParseRow(r), NEW c \in Companies, NEW i \in Ids
    PROVE  LET p    == postings[c][i]
               vs   == posting_versions[c][i]
               text == Extracted(c, i)
           IN  IF Lists(r, c, i) /\ p.text # text
               THEN /\ postings'[c][i].text = text /\ postings'[c][i].stale
                    /\ posting_versions'[c][i] =
                          Append(vs, [observed_at |-> r, text |-> text])
               ELSE /\ postings'[c][i].text = p.text
                    /\ postings'[c][i].stale <=> p.stale
                    /\ postings'[c][i].location = p.location
                    /\ postings'[c][i].seniority = p.seniority
                    /\ posting_versions'[c][i] = vs
<1> DEFINE p == postings[c][i]
           u == Upserted(p, Extracted(c, i))
<1>1. p \in Posting /\ Extracted(c, i) \in Texts
    BY PostingsAreTyped, ExtractedIsText
<1>2. /\ u.text = Extracted(c, i) /\ u.stale = (p.stale \/ p.text # Extracted(c, i))
      /\ u.location = p.location /\ u.seniority = p.seniority
    BY <1>1, UpsertedIsPosting
<1>3. /\ Lists(r, c, i) =>
            /\ postings'[c][i] = u
            /\ posting_versions'[c][i] =
                  IF p.text = Extracted(c, i) THEN posting_versions[c][i]
                  ELSE Append(posting_versions[c][i],
                              [observed_at |-> r, text |-> Extracted(c, i)])
      /\ ~ Lists(r, c, i) => /\ postings'[c][i] = p
                             /\ posting_versions'[c][i] = posting_versions[c][i]
    BY ParsingUpserts
<1> HIDE DEF p, u
<1>4. CASE ~ Lists(r, c, i)
    BY <1>3, <1>4 DEF p
<1>5. CASE Lists(r, c, i) /\ p.text # Extracted(c, i)
    BY <1>2, <1>3, <1>5 DEF p
<1>6. CASE Lists(r, c, i) /\ p.text = Extracted(c, i)
    BY <1>2, <1>3, <1>6 DEF p
<1> QED
    BY <1>4, <1>5, <1>6 DEF p

(* What classifying does to it.                                            *)
LEMMA ClassifyingWrites ==
    ASSUME TypeOK, NEW c \in Companies, NEW i \in Ids, ClassifyPosting(c, i)
    PROVE  /\ postings'[c][i].text = postings[c][i].text
           /\ postings'[c][i].location = postings[c][i].text
           /\ ~ postings'[c][i].stale
           /\ \E v \in Version : IsLatestVersion(v, c, i) /\ postings'[c][i].seniority = v.text
           /\ \A d \in Companies, j \in Ids :
                 d # c \/ j # i => postings'[d][j] = postings[d][j]
           /\ postings[c][i].text # "absent" => postings' \in [Companies -> [Ids -> Posting]]
<1>1. PICK v \in Version :
          /\ IsLatestVersion(v, c, i)
          /\ postings' = [postings EXCEPT ![c][i].location  = postings[c][i].text,
                                          ![c][i].seniority = v.text,
                                          ![c][i].stale     = FALSE]
    BY DEF ClassifyPosting
<1> DEFINE q == [postings[c][i] EXCEPT !.location  = postings[c][i].text,
                                       !.seniority = v.text,
                                       !.stale     = FALSE]
<1>2. postings \in [Companies -> [Ids -> Posting]]
    BY DEF TypeOK
<1>3. postings' = [postings EXCEPT ![c][i] = q]
    BY <1>1, <1>2
<1>4. postings[c][i] \in Posting /\ v.text \in Texts
    BY <1>2 DEF Version
<1>5. q \in Posting \/ postings[c][i].text = "absent"
    BY <1>4 DEF Posting, Texts
<1> HIDE DEF q
<1>6. /\ postings'[c][i] = q
      /\ \A d \in Companies, j \in Ids :
            d # c \/ j # i => postings'[d][j] = postings[d][j]
    BY <1>2, <1>3
<1>7. q \in Posting => postings' \in [Companies -> [Ids -> Posting]]
    BY <1>2, <1>3
<1>8. /\ q.text = postings[c][i].text /\ q.location = postings[c][i].text
      /\ ~ q.stale /\ q.seniority = v.text
    BY <1>4 DEF Posting, q
<1> QED
    BY <1>1, <1>5, <1>6, <1>7, <1>8

-----------------------------------------------------------------------------
(* Types.                                                                  *)

LEMMA TypeInit == Init => TypeOK /\ RoomLeft
<1> SUFFICES ASSUME Init PROVE TypeOK /\ RoomLeft
    OBVIOUS
<1>1. Absent \in Posting
    BY DEF Absent, Posting
<1>2. postings \in [Companies -> [Ids -> Posting]]
    BY <1>1 DEF Init
<1>3. posting_versions \in [Companies -> [Ids -> Seq(Version)]]
    BY DEF Init
<1>4. raw_fetches \in Seq(RawFetch) /\ Len(raw_fetches) = 0 /\ rows \subseteq DOMAIN raw_fetches
    BY DEF Init
<1>6. raw_details \in [Companies -> [Ids -> Detail]]
    BY DEF Init, Detail
<1>7. /\ configured \subseteq Companies /\ stage \in Stages /\ ingest_ok \in BOOLEAN
      /\ boards \subseteq Companies /\ candidates \subseteq Keys /\ joined \subseteq Companies
      /\ batch \subseteq Keys /\ ping \in {"none", "success", "fail"}
    BY DEF Init, Stages
<1>8. attempted \in 0..Limit /\ failures \in 0..MaxFailures /\ Len(raw_fetches) <= MaxFetches
    BY <1>4, LimitsAssumption DEF Init
<1>9. TypeOK
    BY <1>2, <1>3, <1>4, <1>6, <1>7, <1>8 DEF TypeOK
<1>5. Cardinality(boards) = 0
    BY FS_EmptySet DEF Init
<1> QED
    BY <1>4, <1>5, <1>9, LimitsAssumption DEF RoomLeft

LEMMA BoardsAreCounted ==
    ASSUME NEW S \in SUBSET Companies
    PROVE  /\ Cardinality(S) \in Nat
           /\ \A c \in S : Cardinality(S \ {c}) = Cardinality(S) - 1
<1>1. IsFiniteSet(S)
    BY CompaniesAssumption, FS_Subset
<1>2. Cardinality(S) \in Nat
    BY <1>1, FS_CardinalityType
<1>3. ASSUME NEW c \in S
      PROVE  Cardinality(S \ {c}) = Cardinality(S) - 1
    BY <1>1, <1>3, FS_RemoveElement
<1> QED
    BY <1>2, <1>3

LEMMA TypeStep ==
    ASSUME TypeOK, RoomLeft, WorkListsOK, [Next]_vars
    PROVE  TypeOK' /\ RoomLeft'
<1> USE LimitsAssumption DEF TypeOK, RoomLeft, databaseVars, workVars, Stages
<1>0. /\ Rows = 1..Len(raw_fetches) /\ Len(raw_fetches) \in Nat
      /\ Cardinality(boards) \in Nat /\ Cardinality(configured) \in Nat
      /\ Cardinality({}) = 0
    BY RowsAreNumbered, BoardsAreCounted, FS_EmptySet
<1>1. ASSUME StartCycle
      PROVE  TypeOK' /\ RoomLeft'
  <2>1. boards' \subseteq Companies /\ Len(raw_fetches) + Cardinality(boards') <= MaxFetches
    BY <1>0, <1>1 DEF StartCycle
  <2> QED
    BY <1>1, <2>1 DEF StartCycle
<1>2. ASSUME NEW c \in Configurable, EditCompanies(c)
      PROVE  TypeOK' /\ RoomLeft'
    BY <1>2, CompaniesAssumption DEF EditCompanies
<1>3. ASSUME NEW c \in Companies, FetchBoard(c)
      PROVE  TypeOK' /\ RoomLeft'
  <2>1. AddsRow(c)
    BY <1>3, FetchingAddsRow
  <2>2. Cardinality(boards') \in Nat /\ Cardinality(boards') = Cardinality(boards) - 1
    BY <1>3, BoardsAreCounted DEF FetchBoard
  <2>3. RoomLeft' /\ Len(raw_fetches') <= MaxFetches
    BY <1>0, <2>1, <2>2 DEF AddsRow
  <2>4. rows' \subseteq DOMAIN raw_fetches'
    BY <1>3, <2>1 DEF FetchBoard, AddsRow, Rows
  <2>5. ingest_ok' \in BOOLEAN
    BY <1>3 DEF FetchBoard
  <2> QED
    BY <1>3, <2>1, <2>3, <2>4, <2>5 DEF FetchBoard, AddsRow
<1>4. ASSUME NEW c \in Companies, FlagLatest(c)
      PROVE  TypeOK' /\ RoomLeft'
  <2>1. SameRows
    BY <1>4, FlaggingUnmarksRow
  <2> QED
    BY <1>4, <2>1 DEF FlagLatest, SameRows, Rows
<1>5. ASSUME NEW r \in RowIds, SkipRow(r)
      PROVE  TypeOK' /\ RoomLeft'
    BY <1>5 DEF SkipRow
<1>6. ASSUME NEW r \in RowIds, ParseRow(r)
      PROVE  TypeOK' /\ RoomLeft'
  <2>1. SameRows
    BY <1>6, ParsingMarksRow DEF ParseRow, IsNextRow, Rows
  <2>2. ASSUME NEW c \in Companies, NEW i \in Ids
        PROVE  /\ postings'[c][i] \in Posting
               /\ posting_versions'[c][i] \in Seq(Version)
    <3>1. /\ postings[c][i] \in Posting /\ posting_versions[c][i] \in Seq(Version)
          /\ Extracted(c, i) \in Texts
        BY PostingsAreTyped, ExtractedIsText
    <3>2. Upserted(postings[c][i], Extracted(c, i)) \in Posting
        BY <3>1, UpsertedIsPosting
    <3>3. [observed_at |-> r, text |-> Extracted(c, i)] \in Version
        BY <3>1 DEF Version
    <3>4. Append(posting_versions[c][i], [observed_at |-> r, text |-> Extracted(c, i)])
              \in Seq(Version)
        BY <3>1, <3>3
    <3> QED
        BY <1>6, <3>1, <3>2, <3>4, ParsingUpserts
  <2>3. /\ postings' = [d \in Companies |-> [i \in Ids |-> postings'[d][i]]]
        /\ posting_versions' = [d \in Companies |-> [i \in Ids |-> posting_versions'[d][i]]]
    BY <1>6 DEF ParseRow
  <2>4. /\ postings' \in [Companies -> [Ids -> Posting]]
        /\ posting_versions' \in [Companies -> [Ids -> Seq(Version)]]
    BY <2>2, <2>3
  <2> QED
    BY <1>6, <2>1, <2>4 DEF ParseRow, SameRows, Rows
<1>7. ASSUME NEW c \in Companies, NEW i \in Ids, SkipCandidate(c, i)
      PROVE  TypeOK' /\ RoomLeft'
    BY <1>7 DEF SkipCandidate
<1>8. ASSUME NEW c \in Companies, NEW i \in Ids, FetchDetail(c, i)
      PROVE  TypeOK' /\ RoomLeft'
  <2>1. raw_details' \in [Companies -> [Ids -> Detail]]
    BY <1>8 DEF FetchDetail, Inserted, Detail
  <2>2. attempted' \in 0..Limit
    BY <1>8 DEF FetchDetail, BelowLimit
  <2> QED
    BY <1>8, <2>1, <2>2 DEF FetchDetail
<1>9. ASSUME NEW c \in Companies, NEW i \in Ids, ClassifyPosting(c, i)
      PROVE  TypeOK' /\ RoomLeft'
  <2>1. postings[c][i].text # "absent"
    BY <1>9 DEF ClassifyPosting, WorkListsOK
  <2>2. postings' \in [Companies -> [Ids -> Posting]]
    BY <1>9, <2>1, ClassifyingWrites
  <2> QED
    BY <1>9, <2>2 DEF ClassifyPosting
<1>10. ASSUME EndIngest
       PROVE  TypeOK' /\ RoomLeft'
    BY <1>10 DEF EndIngest, Unparsed
<1>11. ASSUME EndParse
       PROVE  TypeOK' /\ RoomLeft'
    BY <1>11 DEF EndParse, MissingDetail
<1>12. ASSUME EndDetails
       PROVE  TypeOK' /\ RoomLeft'
    BY <1>12 DEF EndDetails, ToFlag
<1>13. ASSUME EndFlag
       PROVE  TypeOK' /\ RoomLeft'
    BY <1>13 DEF EndFlag, Unparsed
<1>14. ASSUME EndReparse
       PROVE  TypeOK' /\ RoomLeft'
    BY <1>14 DEF EndReparse, NeedsClassifying
<1>15. ASSUME EndCycle
       PROVE  TypeOK' /\ RoomLeft'
    BY <1>15 DEF EndCycle
<1>16. ASSUME StageFails
       PROVE  TypeOK' /\ RoomLeft'
  <2>1. Len(raw_fetches') + Cardinality(boards') <= MaxFetches
    BY <1>0, <1>16 DEF StageFails
  <2> QED
    BY <1>16, <2>1 DEF StageFails
<1>17. CASE UNCHANGED vars
    BY <1>17 DEF vars
<1> QED
    BY <1>1, <1>2, <1>3, <1>4, <1>5, <1>6, <1>7, <1>8, <1>9, <1>10, <1>11, <1>12, <1>13, <1>14,
       <1>15, <1>16, <1>17 DEF Next, StageStep

-----------------------------------------------------------------------------
(* The work lists and the passes.                                          *)

LEMMA KeysArePairs ==
    ASSUME NEW k \in Keys
    PROVE  k[1] \in Companies /\ k[2] \in Ids /\ k = <<k[1], k[2]>>
BY DEF Keys

LEMMA WorkListsStep ==
    ASSUME TypeOK, WorkListsOK, [Next]_vars
    PROVE  WorkListsOK'
<1> USE DEF WorkListsOK, databaseVars, workVars, Unparsed
<1>0. candidates \subseteq Keys /\ batch \subseteq Keys /\ rows \subseteq Rows
    BY DEF TypeOK, Rows
<1>1. ASSUME StartCycle
      PROVE  WorkListsOK'
    BY <1>1 DEF StartCycle
<1>2. ASSUME NEW c \in Configurable, EditCompanies(c)
      PROVE  WorkListsOK'
    BY <1>2 DEF EditCompanies
<1>3. ASSUME NEW c \in Companies, FetchBoard(c)
      PROVE  WorkListsOK'
  <2>1. AddsRow(c)
    BY <1>3, FetchingAddsRow
  <2> QED
    BY <1>0, <1>3, <2>1 DEF FetchBoard, AddsRow, Rows
<1>4. ASSUME NEW c \in Companies, FlagLatest(c)
      PROVE  WorkListsOK'
  <2>1. SameRows /\ \A s \in Rows : ~ raw_fetches[s].parsed => ~ raw_fetches'[s].parsed
    BY <1>4, FlaggingUnmarksRow
  <2> QED
    BY <1>0, <1>4, <2>1 DEF FlagLatest, SameRows, Rows
<1>5. ASSUME NEW r \in RowIds, SkipRow(r)
      PROVE  WorkListsOK'
    BY <1>5 DEF SkipRow
<1>6. ASSUME NEW r \in RowIds, ParseRow(r)
      PROVE  WorkListsOK'
  <2>1. SameRows /\ \A s \in Rows : raw_fetches'[s].parsed = (raw_fetches[s].parsed \/ s = r)
    BY <1>0, <1>6, ParsingMarksRow DEF ParseRow, IsNextRow
  <2>2. rows' \subseteq {s \in DOMAIN raw_fetches' : ~ raw_fetches'[s].parsed}
    BY <1>0, <1>6, <2>1 DEF ParseRow, SameRows, Rows
  <2>3. ASSUME NEW k \in batch
        PROVE  postings'[k[1]][k[2]].text # "absent"
    <3>1. k[1] \in Companies /\ k[2] \in Ids
        BY <1>0, KeysArePairs
    <3>2. postings[k[1]][k[2]] \in Posting /\ Extracted(k[1], k[2]) \in Texts
        BY <3>1, PostingsAreTyped, ExtractedIsText
    <3>3. Upserted(postings[k[1]][k[2]], Extracted(k[1], k[2])).text \in Texts
        BY <3>2, UpsertedIsPosting
    <3> QED
        BY <1>6, <3>1, <3>3, ParsingUpserts DEF Texts
  <2> QED
    BY <1>6, <2>2, <2>3 DEF ParseRow
<1>7. ASSUME NEW c \in Companies, NEW i \in Ids, SkipCandidate(c, i)
      PROVE  WorkListsOK'
    BY <1>7 DEF SkipCandidate
<1>8. ASSUME NEW c \in Companies, NEW i \in Ids, FetchDetail(c, i)
      PROVE  WorkListsOK'
  <2>1. ASSUME NEW k \in candidates'
        PROVE  raw_details'[k[1]][k[2]] = "none"
    <3>1. k \in candidates /\ k # <<c, i>> /\ k \in Keys
        BY <1>0, <1>8 DEF FetchDetail
    <3>2. k[1] \in Companies /\ k[2] \in Ids /\ ~ (k[1] = c /\ k[2] = i)
        BY <3>1, KeysArePairs
    <3>3. raw_details'[k[1]][k[2]] = raw_details[k[1]][k[2]]
        BY <1>8, <3>2 DEF FetchDetail, TypeOK
    <3> QED
        BY <3>1, <3>3
  <2> QED
    BY <1>8, <2>1 DEF FetchDetail
<1>9. ASSUME NEW c \in Companies, NEW i \in Ids, ClassifyPosting(c, i)
      PROVE  WorkListsOK'
  <2>1. ASSUME NEW k \in batch'
        PROVE  postings'[k[1]][k[2]].text # "absent"
    <3>1. k \in batch /\ k # <<c, i>> /\ k \in Keys
        BY <1>0, <1>9 DEF ClassifyPosting
    <3>2. k[1] \in Companies /\ k[2] \in Ids /\ (k[1] # c \/ k[2] # i)
        BY <3>1, KeysArePairs
    <3> QED
        BY <1>9, <3>1, <3>2, ClassifyingWrites
  <2> QED
    BY <1>9, <2>1 DEF ClassifyPosting
<1>10. ASSUME EndIngest
       PROVE  WorkListsOK'
    BY <1>10 DEF EndIngest
<1>11. ASSUME EndParse
       PROVE  WorkListsOK'
    BY <1>11 DEF EndParse, MissingDetail
<1>12. ASSUME EndDetails
       PROVE  WorkListsOK'
    BY <1>12 DEF EndDetails
<1>13. ASSUME EndFlag
       PROVE  WorkListsOK'
    BY <1>13 DEF EndFlag
<1>14. ASSUME EndReparse
       PROVE  WorkListsOK'
    BY <1>14 DEF EndReparse, NeedsClassifying
<1>15. ASSUME EndCycle
       PROVE  WorkListsOK'
    BY <1>15 DEF EndCycle
<1>16. ASSUME StageFails
       PROVE  WorkListsOK'
    BY <1>16 DEF StageFails
<1>17. CASE UNCHANGED vars
    BY <1>17 DEF vars
<1> QED
    BY <1>1, <1>2, <1>3, <1>4, <1>5, <1>6, <1>7, <1>8, <1>9, <1>10, <1>11, <1>12, <1>13, <1>14,
       <1>15, <1>16, <1>17 DEF Next, StageStep

LEMMA PassesStep ==
    ASSUME TypeOK, WorkListsOK, PassesAreComplete, [Next]_vars
    PROVE  PassesAreComplete'
<1> USE DEF PassesAreComplete, Ahead, databaseVars, workVars
<1>1. ASSUME StartCycle
      PROVE  PassesAreComplete'
    BY <1>1 DEF StartCycle
<1>2. ASSUME NEW c \in Configurable, EditCompanies(c)
      PROVE  PassesAreComplete'
    BY <1>2 DEF EditCompanies
<1>3. ASSUME NEW c \in Companies, FetchBoard(c)
      PROVE  PassesAreComplete'
    BY <1>3 DEF FetchBoard
<1>4. ASSUME NEW c \in Companies, FlagLatest(c)
      PROVE  PassesAreComplete'
    BY <1>4 DEF FlagLatest
<1>5. ASSUME NEW r \in RowIds, SkipRow(r)
      PROVE  PassesAreComplete'
    BY <1>5 DEF SkipRow
<1>6. ASSUME NEW r \in RowIds, ParseRow(r)
      PROVE  PassesAreComplete'
  <2>1. SameRows /\ \A s \in Rows : raw_fetches'[s].parsed = (raw_fetches[s].parsed \/ s = r)
    BY <1>6, ParsingMarksRow DEF ParseRow, IsNextRow, TypeOK, Rows
  <2> QED
    BY <1>6, <2>1 DEF ParseRow, SameRows, Rows
<1>7. ASSUME NEW c \in Companies, NEW i \in Ids, SkipCandidate(c, i) \/ FetchDetail(c, i)
      PROVE  PassesAreComplete'
    BY <1>7 DEF SkipCandidate, FetchDetail
<1>8. ASSUME NEW c \in Companies, NEW i \in Ids, ClassifyPosting(c, i)
      PROVE  PassesAreComplete'
  <2>1. /\ stage = "classify" /\ stage' = stage /\ UNCHANGED <<raw_fetches, configured, rows>>
        /\ batch' = batch \ {<<c, i>>} /\ <<c, i>> \in batch
    BY <1>8 DEF ClassifyPosting
  <2>2. ~ postings'[c][i].stale
    BY <1>8, ClassifyingWrites
  <2>3. ASSUME NEW k \in Keys, postings'[k[1]][k[2]].text # "absent", postings'[k[1]][k[2]].stale
        PROVE  k \in batch'
    <3>1. k[1] \in Companies /\ k[2] \in Ids /\ k = <<k[1], k[2]>>
        BY KeysArePairs
    <3>2. k[1] # c \/ k[2] # i
        BY <2>2, <2>3
    <3>3. postings'[k[1]][k[2]] = postings[k[1]][k[2]]
        BY <1>8, <3>1, <3>2, ClassifyingWrites
    <3>4. k \in NeedsClassifying
        BY <2>3, <3>3 DEF NeedsClassifying
    <3> QED
        BY <2>1, <3>1, <3>2, <3>4
  <2>4. NeedsClassifying' \subseteq batch'
    BY <2>3 DEF NeedsClassifying
  <2> QED
    BY <2>1, <2>4
<1>9. ASSUME EndIngest \/ EndFlag
      PROVE  PassesAreComplete'
    BY <1>9 DEF EndIngest, EndFlag, Unparsed
<1>10. ASSUME EndParse \/ EndDetails \/ EndCycle \/ StageFails
       PROVE  PassesAreComplete'
    BY <1>10 DEF EndParse, EndDetails, EndCycle, StageFails
<1>11. ASSUME EndReparse
       PROVE  PassesAreComplete'
    BY <1>11 DEF EndReparse, NeedsClassifying
<1>12. CASE UNCHANGED vars
    BY <1>12 DEF vars, NeedsClassifying
<1> QED
    BY <1>1, <1>2, <1>3, <1>4, <1>5, <1>6, <1>7, <1>8, <1>9, <1>10, <1>11, <1>12
       DEF Next, StageStep

-----------------------------------------------------------------------------
(* Versions and classes.                                                   *)

LEMMA RowsAndPostingsChange ==
    ASSUME [Next]_vars
    PROVE  \/ UNCHANGED <<raw_fetches, postings, posting_versions>>
           \/ \E c \in Companies : FetchBoard(c) \/ FlagLatest(c)
           \/ \E r \in RowIds : ParseRow(r)
           \/ \E c \in Companies, i \in Ids : ClassifyPosting(c, i)
BY DEF Next, StageStep, vars, databaseVars, StartCycle, EditCompanies, SkipRow, SkipCandidate,
       FetchDetail, EndIngest, EndParse, EndDetails, EndFlag, EndReparse, EndCycle, StageFails

(* The row at hand: unparsed, and with no older one of its company left.   *)
LEMMA ParsedRowIsFirst ==
    ASSUME TypeOK, WorkListsOK, PassesAreComplete, NEW r \in RowIds, ParseRow(r)
    PROVE  /\ r \in Rows /\ ~ raw_fetches[r].parsed
           /\ raw_fetches[r].payload # NoPayload =>
                 \A s \in RowsOf(raw_fetches[r].company) : ~ raw_fetches[s].parsed => r <= s
           /\ SameRows
           /\ \A s \in Rows : raw_fetches'[s].parsed = (raw_fetches[s].parsed \/ s = r)
           /\ UNCHANGED <<configured, stage, raw_details, ingest_ok>>
<1>1. r \in rows /\ (\A s \in rows : r <= s) /\ stage \in {"parse", "reparse"}
    BY DEF ParseRow, IsNextRow
<1>2. r \in Rows /\ ~ raw_fetches[r].parsed
    BY <1>1 DEF WorkListsOK, Unparsed, Rows
<1>3. ASSUME raw_fetches[r].payload # NoPayload, NEW s \in RowsOf(raw_fetches[r].company),
             ~ raw_fetches[s].parsed
      PROVE  r <= s
  <2>1. raw_fetches[r].company \in configured
    BY <1>3 DEF ParseRow
  <2>2. s \in rows
    BY <1>1, <1>3, <2>1 DEF PassesAreComplete, Ahead, RowsOf
  <2> QED
    BY <1>1, <2>2
<1> QED
    BY <1>2, <1>3, ParsingMarksRow DEF ParseRow

LEMMA SameRowsOf ==
    ASSUME SameRows, NEW c \in Companies
    PROVE  RowsOf(c)' = RowsOf(c) /\ RowsOf(c) \subseteq Rows
BY DEF SameRows, RowsOf, Rows

LEMMA VersionsStep ==
    ASSUME TypeOK, WorkListsOK, PassesAreComplete, VersionsOK, [Next]_vars
    PROVE  VersionsOK'
<1> SUFFICES ASSUME NEW c \in Companies, NEW i \in Ids
             PROVE  VersionsInOrder(c, i)'
    BY DEF VersionsOK
<1> DEFINE vs == posting_versions[c][i]
<1>0. VersionsInOrder(c, i)
    BY DEF VersionsOK
<1>a. /\ vs \in Seq(Version) /\ DOMAIN vs = 1..Len(vs) /\ Len(vs) \in Nat
      /\ postings[c][i] \in Posting
    BY PostingsAreTyped
<1>b. Rows = 1..Len(raw_fetches) /\ Len(raw_fetches) \in Nat /\ RowsOf(c) \subseteq Rows
    BY RowsAreNumbered DEF RowsOf, Rows
<1>1. CASE UNCHANGED <<raw_fetches, postings, posting_versions>>
    BY <1>0, <1>1 DEF VersionsInOrder, RowsOf
<1>2. ASSUME NEW d \in Companies, FetchBoard(d)
      PROVE  VersionsInOrder(c, i)'
  <2>1. AddsRow(d) /\ UNCHANGED <<postings, posting_versions>>
    BY <1>2, FetchingAddsRow DEF FetchBoard
  <2>2. \A r \in RowsOf(c)' : r \in RowsOf(c) \/ r = Len(raw_fetches) + 1
    BY <2>1 DEF AddsRow, RowsOf, Rows
  <2>3. RowsOf(c) \subseteq RowsOf(c)'
    BY <2>1 DEF AddsRow, RowsOf, Rows
  <2>4. \A r \in RowsOf(c) : raw_fetches'[r] = raw_fetches[r]
    BY <1>b, <2>1 DEF AddsRow
  <2>5. ASSUME NEW n \in DOMAIN vs, NEW r \in RowsOf(c)', ~ raw_fetches'[r].parsed
        PROVE  vs[n].observed_at <= r
    BY <1>0, <1>b, <2>2, <2>4, <2>5 DEF VersionsInOrder
  <2> QED
    BY <1>0, <2>1, <2>3, <2>5 DEF VersionsInOrder
<1>3. ASSUME NEW d \in Companies, FlagLatest(d)
      PROVE  VersionsInOrder(c, i)'
  <2>1. /\ SameRows /\ UNCHANGED <<postings, posting_versions>>
        /\ \A s \in Rows : raw_fetches'[s].parsed = (raw_fetches[s].parsed /\ ~ IsFlagged(s, d))
    BY <1>3, FlaggingUnmarksRow DEF FlagLatest
  <2>2. RowsOf(c)' = RowsOf(c)
    BY <2>1, SameRowsOf
  <2>3. ASSUME NEW n \in DOMAIN vs, NEW r \in RowsOf(c), ~ raw_fetches'[r].parsed
        PROVE  vs[n].observed_at <= r
    <3>1. CASE ~ raw_fetches[r].parsed
        BY <1>0, <3>1 DEF VersionsInOrder
    <3>2. CASE IsFlagged(r, d)
      <4>1. d = c
        BY <3>2 DEF IsFlagged, RowsOf
      <4> QED
        BY <1>0, <3>2, <4>1 DEF IsFlagged, VersionsInOrder
    <3> QED
        BY <1>b, <2>1, <2>3, <3>1, <3>2
  <2> QED
    BY <1>0, <2>1, <2>2, <2>3 DEF VersionsInOrder
<1>4. ASSUME NEW r \in RowIds, ParseRow(r)
      PROVE  VersionsInOrder(c, i)'
  <2> DEFINE text == Extracted(c, i)
             new  == [observed_at |-> r, text |-> text]
             next == posting_versions'[c][i]
  <2>1. /\ r \in Rows /\ ~ raw_fetches[r].parsed /\ SameRows
        /\ raw_fetches[r].payload # NoPayload =>
              \A s \in RowsOf(raw_fetches[r].company) : ~ raw_fetches[s].parsed => r <= s
        /\ \A s \in Rows : raw_fetches'[s].parsed = (raw_fetches[s].parsed \/ s = r)
    BY <1>4, ParsedRowIsFirst
  <2>2. RowsOf(c)' = RowsOf(c)
    BY <2>1, SameRowsOf
  <2>3. text \in Texts
    BY ExtractedIsText
  <2> HIDE DEF text
  <2>4. ASSUME Lists(r, c, i), postings[c][i].text # text
        PROVE  VersionsInOrder(c, i)'
    <3>1. next = Append(vs, new) /\ postings'[c][i].text = text
        BY <1>4, <2>4, ParsingChanges DEF text
    <3>2. /\ DOMAIN next = 1..(Len(vs) + 1) /\ Len(next) = Len(vs) + 1
          /\ next[Len(vs) + 1].observed_at = r /\ next[Len(vs) + 1].text = text
          /\ \A n \in 1..Len(vs) : next[n] = vs[n]
        BY <1>a, <2>3, <3>1 DEF Version
    <3> HIDE DEF new, next
    <3>3. r \in RowsOf(c) /\ \A s \in RowsOf(c) : ~ raw_fetches[s].parsed => r <= s
        BY <2>1, <2>4 DEF Lists, RowsOf, Rows
    <3>4. \A n \in 1..Len(vs) : vs[n].observed_at <= r
        BY <1>0, <1>a, <2>1, <3>3 DEF VersionsInOrder
    <3>5. \A n \in DOMAIN next : next[n].observed_at \in RowsOf(c)
        BY <1>0, <1>a, <3>2, <3>3 DEF VersionsInOrder
    <3>6. ASSUME NEW n \in DOMAIN next, NEW s \in RowsOf(c), ~ raw_fetches'[s].parsed
          PROVE  next[n].observed_at <= s
      <4>1. ~ raw_fetches[s].parsed
        BY <1>b, <2>1, <3>6
      <4> QED
        BY <1>0, <1>a, <3>2, <3>3, <3>6, <4>1 DEF VersionsInOrder
    <3>7. ASSUME NEW m \in DOMAIN next, NEW n \in DOMAIN next, m <= n
          PROVE  next[m].observed_at <= next[n].observed_at
      <4>1. CASE n = Len(vs) + 1
        BY <1>a, <1>b, <2>1, <3>2, <3>4, <4>1
      <4>2. CASE n # Len(vs) + 1
        BY <1>0, <1>a, <3>2, <3>7, <4>2 DEF VersionsInOrder
      <4> QED
        BY <4>1, <4>2
    <3>8. next # <<>> /\ next[Len(next)].text = text
        BY <1>a, <3>2
    <3> QED
        BY <2>2, <3>1, <3>5, <3>6, <3>7, <3>8 DEF VersionsInOrder, next
  <2>5. ASSUME ~ (Lists(r, c, i) /\ postings[c][i].text # text)
        PROVE  VersionsInOrder(c, i)'
    <3>1. next = vs /\ postings'[c][i].text = postings[c][i].text
        BY <1>4, <2>5, ParsingChanges DEF text
    <3>2. \A s \in RowsOf(c) : ~ raw_fetches'[s].parsed => ~ raw_fetches[s].parsed
        BY <1>b, <2>1
    <3> QED
        BY <1>0, <2>2, <3>1, <3>2 DEF VersionsInOrder
  <2> QED
    BY <2>4, <2>5
<1>5. ASSUME NEW d \in Companies, NEW j \in Ids, ClassifyPosting(d, j)
      PROVE  VersionsInOrder(c, i)'
  <2>1. UNCHANGED <<raw_fetches, posting_versions>>
    BY <1>5 DEF ClassifyPosting
  <2>2. postings'[c][i].text = postings[c][i].text
    BY <1>5, ClassifyingWrites
  <2> QED
    BY <1>0, <2>1, <2>2 DEF VersionsInOrder, RowsOf
<1> QED
    BY <1>1, <1>2, <1>3, <1>4, <1>5, RowsAndPostingsChange

LEMMA LocationStep ==
    ASSUME TypeOK, LocationIsCurrent, [Next]_vars
    PROVE  LocationIsCurrent'
<1> SUFFICES ASSUME NEW c \in Companies, NEW i \in Ids,
                    postings'[c][i].text # "absent", ~ postings'[c][i].stale
             PROVE  postings'[c][i].location = postings'[c][i].text
    BY DEF LocationIsCurrent
<1>0. /\ postings[c][i] \in Posting /\ Extracted(c, i) \in Texts
      /\ postings[c][i].text # "absent" /\ ~ postings[c][i].stale =>
            postings[c][i].location = postings[c][i].text
    BY PostingsAreTyped, ExtractedIsText DEF LocationIsCurrent
<1>1. CASE UNCHANGED postings
    BY <1>0, <1>1
<1>2. ASSUME NEW r \in RowIds, ParseRow(r)
      PROVE  postings'[c][i].location = postings'[c][i].text
    BY <1>0, <1>2, ParsingChanges
<1>3. ASSUME NEW d \in Companies, NEW j \in Ids, ClassifyPosting(d, j)
      PROVE  postings'[c][i].location = postings'[c][i].text
  <2>1. CASE d = c /\ j = i
    BY <1>3, <2>1, ClassifyingWrites
  <2>2. CASE d # c \/ j # i
    BY <1>0, <1>3, <2>2, ClassifyingWrites
  <2> QED
    BY <2>1, <2>2
<1> QED
    BY <1>1, <1>2, <1>3, RowsAndPostingsChange DEF FetchBoard, FlagLatest

(* SeniorityLagsOnlyOnTie, for one posting.                                *)
LagsOnlyOnTie(p, vs) ==
    p.text # "absent" /\ ~ p.stale /\ p.seniority # p.text =>
        \E m, n \in DOMAIN vs :
            /\ m < n /\ n = Len(vs)
            /\ vs[m].observed_at = vs[n].observed_at /\ vs[m].text = p.seniority

LEMMA SeniorityStep ==
    ASSUME TypeOK, VersionsOK, WorkListsOK, SeniorityLagsOnlyOnTie, [Next]_vars
    PROVE  SeniorityLagsOnlyOnTie'
<1> SUFFICES ASSUME NEW c \in Companies, NEW i \in Ids
             PROVE  LagsOnlyOnTie(postings'[c][i], posting_versions'[c][i])
    BY DEF SeniorityLagsOnlyOnTie, LagsOnlyOnTie
<1> DEFINE p  == postings[c][i]
           vs == posting_versions[c][i]
<1>0. /\ p \in Posting /\ Extracted(c, i) \in Texts /\ LagsOnlyOnTie(p, vs)
    BY PostingsAreTyped, ExtractedIsText DEF SeniorityLagsOnlyOnTie, LagsOnlyOnTie
<1>1. CASE UNCHANGED <<postings, posting_versions>>
    BY <1>0, <1>1
<1>2. ASSUME NEW r \in RowIds, ParseRow(r)
      PROVE  LagsOnlyOnTie(postings'[c][i], posting_versions'[c][i])
  <2>1. CASE Lists(r, c, i) /\ p.text # Extracted(c, i)
    <3>1. postings'[c][i].stale
        BY <1>2, <2>1, ParsingChanges
    <3> QED
        BY <3>1 DEF LagsOnlyOnTie
  <2>2. CASE ~ (Lists(r, c, i) /\ p.text # Extracted(c, i))
    <3>1. /\ posting_versions'[c][i] = vs
          /\ postings'[c][i].text = p.text /\ (postings'[c][i].stale <=> p.stale)
          /\ postings'[c][i].seniority = p.seniority
        BY <1>2, <2>2, ParsingChanges
    <3> QED
        BY <1>0, <3>1 DEF LagsOnlyOnTie
  <2> QED
    BY <2>1, <2>2
<1>3. ASSUME NEW d \in Companies, NEW j \in Ids, ClassifyPosting(d, j)
      PROVE  LagsOnlyOnTie(postings'[c][i], posting_versions'[c][i])
  <2>1. posting_versions'[c][i] = vs
    BY <1>3 DEF ClassifyPosting
  <2>2. CASE d = c /\ j = i
    <3>1. PICK v \in Version :
              IsLatestVersion(v, c, i) /\ postings'[c][i].seniority = v.text
        BY <1>3, <2>2, ClassifyingWrites
    <3>2. postings'[c][i].text = p.text
        BY <1>3, <2>2, ClassifyingWrites
    <3>3. PICK m \in DOMAIN vs : v = vs[m]
        BY <3>1 DEF IsLatestVersion
    <3>4. /\ vs \in Seq(Version) /\ DOMAIN vs = 1..Len(vs) /\ Len(vs) \in Nat
        BY PostingsAreTyped
    <3>5. /\ Len(vs) \in DOMAIN vs /\ m <= Len(vs)
          /\ vs[m].observed_at \in Nat /\ vs[Len(vs)].observed_at \in Nat
      <4>1. m \in 1..Len(vs) /\ Len(vs) \in 1..Len(vs)
        BY <3>3, <3>4
      <4>2. vs[m] \in Version /\ vs[Len(vs)] \in Version
        BY <3>4, <4>1
      <4> QED
        BY <3>4, <4>1, <4>2 DEF Version, RowIds
    <3>6. vs[m].observed_at = vs[Len(vs)].observed_at
      <4>1. vs[Len(vs)].observed_at <= vs[m].observed_at
        BY <3>1, <3>3, <3>5 DEF IsLatestVersion
      <4>2. vs[m].observed_at <= vs[Len(vs)].observed_at
        BY <3>5 DEF VersionsOK, VersionsInOrder
      <4> QED
        BY <3>5, <4>1, <4>2
    <3>7. ASSUME p.text # "absent", vs[m].text # p.text
          PROVE  m < Len(vs)
      <4>1. vs[Len(vs)].text = p.text
        BY <3>7 DEF VersionsOK, VersionsInOrder
      <4>2. m # Len(vs)
        BY <3>7, <4>1
      <4> QED
        BY <3>4, <3>5, <4>2
    <3> QED
        BY <2>1, <3>1, <3>2, <3>3, <3>5, <3>6, <3>7 DEF LagsOnlyOnTie
  <2>3. CASE d # c \/ j # i
    <3>1. postings'[c][i] = p
        BY <1>3, <2>3, ClassifyingWrites
    <3> QED
        BY <1>0, <2>1, <3>1
  <2> QED
    BY <2>2, <2>3
<1> QED
    BY <1>1, <1>2, <1>3, RowsAndPostingsChange DEF FetchBoard, FlagLatest

-----------------------------------------------------------------------------
(* Details.                                                                *)

(* Beyond the ingest stage, it is enough to look at one board's latest row. *)
LEMMA OnItsWayStep ==
    ASSUME DetailsAreOnTheirWay, SameRows, stage \notin {"idle", "ingest"},
           stage' # "ingest", UNCHANGED <<ingest_ok, configured>>, configured \subseteq Companies,
           \A c \in Companies : \A r \in RowsOf(c) :
               IsFlagged(r, c) /\ OnItsWay(r, c) => OnItsWay(r, c)'
    PROVE  DetailsAreOnTheirWay'
<1>1. ASSUME NEW c \in Companies
      PROVE  RowsOf(c)' = RowsOf(c) /\ \A r \in RowsOf(c) : IsFlagged(r, c)' = IsFlagged(r, c)
    BY SameRowsOf DEF IsFlagged
<1> QED
    BY <1>1 DEF DetailsAreOnTheirWay

LEMMA RowsStay ==
    ASSUME TypeOK, UNCHANGED raw_fetches
    PROVE  SameRows
BY DEF TypeOK, SameRows, Rows

LEMMA DetailsStep ==
    ASSUME TypeOK, WorkListsOK, PassesAreComplete, DetailsAreOnTheirWay, [Next]_vars
    PROVE  DetailsAreOnTheirWay'
<1> USE DEF databaseVars, workVars
<1>0. configured \subseteq Companies
    BY DEF TypeOK
<1>1. ASSUME StartCycle
      PROVE  DetailsAreOnTheirWay'
    BY <1>1 DEF StartCycle, DetailsAreOnTheirWay
<1>2. ASSUME NEW c \in Configurable, EditCompanies(c)
      PROVE  DetailsAreOnTheirWay'
    BY <1>2 DEF EditCompanies, DetailsAreOnTheirWay
<1>3. ASSUME NEW c \in Companies, FetchBoard(c)
      PROVE  DetailsAreOnTheirWay'
  <2>1. /\ AddsRow(c) /\ stage = "ingest" /\ UNCHANGED <<stage, configured>>
        /\ c \in boards /\ boards' = boards \ {c}
    BY <1>3, FetchingAddsRow DEF FetchBoard
  <2>2. Rows = 1..Len(raw_fetches) /\ Len(raw_fetches) \in Nat
    BY RowsAreNumbered
  <2>3. ASSUME NEW d \in configured \ boards', NEW r \in RowsOf(d)', IsFlagged(r, d)'
        PROVE  ~ raw_fetches'[r].parsed
    <3> DEFINE last == Len(raw_fetches) + 1
    <3>1. last \in RowsOf(c)' /\ (r \in Rows \/ r = last)
        BY <2>1, <2>3 DEF AddsRow, RowsOf
    <3>2. CASE d = c
      <4>1. last <= r
        BY <2>3, <3>1, <3>2 DEF IsFlagged
      <4> QED
        BY <2>1, <2>2, <3>1, <4>1 DEF AddsRow
    <3>3. CASE d # c
      <4>1. RowsOf(d)' = RowsOf(d) /\ RowsOf(d) \subseteq Rows
        BY <2>1, <3>3 DEF AddsRow, RowsOf, Rows
      <4>2. IsFlagged(r, d)
        BY <2>3, <4>1 DEF IsFlagged
      <4>3. d \in configured \ boards
        BY <2>1, <2>3, <3>3
      <4>4. ~ raw_fetches[r].parsed
        BY <2>1, <2>3, <4>1, <4>2, <4>3 DEF DetailsAreOnTheirWay
      <4> QED
        BY <2>1, <2>3, <4>1, <4>4 DEF AddsRow
    <3> QED
        BY <3>2, <3>3
  <2> QED
    BY <2>1, <2>3 DEF DetailsAreOnTheirWay
<1>4. ASSUME EndIngest
      PROVE  DetailsAreOnTheirWay'
    BY <1>4 DEF EndIngest, DetailsAreOnTheirWay, RowsOf, IsFlagged, OnItsWay
<1>5. ASSUME NEW r \in RowIds, SkipRow(r)
      PROVE  DetailsAreOnTheirWay'
    BY <1>0, <1>5, OnItsWayStep, RowsStay DEF SkipRow, OnItsWay, Joins, ToBeFlagged
<1>6. ASSUME NEW r \in RowIds, ParseRow(r)
      PROVE  DetailsAreOnTheirWay'
  <2>1. /\ SameRows /\ r \in Rows
        /\ \A s \in Rows : raw_fetches'[s].parsed = (raw_fetches[s].parsed \/ s = r)
        /\ UNCHANGED <<configured, stage, raw_details, ingest_ok>>
        /\ stage \in {"parse", "reparse"}
    BY <1>6, ParsedRowIsFirst DEF ParseRow
  <2>2. ASSUME NEW c \in Companies, NEW i \in Ids, raw_details[c][i] = "stored",
               postings[c][i].text = "detailed" \/ Lists(r, c, i)
        PROVE  postings'[c][i].text = "detailed"
    <3>1. Extracted(c, i) = "detailed"
        BY <2>2 DEF Extracted
    <3> QED
        BY <1>6, <2>2, <3>1, ParsingChanges
  <2>3. ASSUME NEW c \in Companies, NEW s \in RowsOf(c), OnItsWay(s, c)
        PROVE  OnItsWay(s, c)'
    <3>1. s \in Rows /\ raw_fetches[s].company = c /\ ~ ToBeFlagged(c)
        BY <2>1 DEF RowsOf, Rows, ToBeFlagged
    <3>2. raw_fetches'[s].payload = raw_fetches[s].payload
        BY <2>1, <3>1 DEF SameRows
    <3>3. CASE s = r
      <4>1. Joins(s, c)'
        BY <2>1, <2>2, <3>1, <3>2, <3>3 DEF Joins, Lists
      <4> QED
        BY <4>1 DEF OnItsWay
    <3>4. CASE s # r /\ ~ raw_fetches[s].parsed
        BY <2>1, <3>1, <3>4 DEF OnItsWay
    <3>5. CASE Joins(s, c)
      <4>1. Joins(s, c)'
        BY <2>1, <2>2, <3>2, <3>5 DEF Joins
      <4> QED
        BY <4>1 DEF OnItsWay
    <3> QED
        BY <2>3, <3>1, <3>3, <3>4, <3>5 DEF OnItsWay
  <2> QED
    BY <1>0, <2>1, <2>3, OnItsWayStep
<1>7. ASSUME EndParse
      PROVE  DetailsAreOnTheirWay'
    BY <1>0, <1>7, OnItsWayStep, RowsStay DEF EndParse, OnItsWay, Joins, ToBeFlagged
<1>8. ASSUME NEW c \in Companies, NEW i \in Ids, SkipCandidate(c, i)
      PROVE  DetailsAreOnTheirWay'
    BY <1>0, <1>8, OnItsWayStep, RowsStay DEF SkipCandidate, OnItsWay, Joins, ToBeFlagged
<1>9. ASSUME NEW c \in Companies, NEW i \in Ids, FetchDetail(c, i)
      PROVE  DetailsAreOnTheirWay'
  <2>1. /\ stage = "details" /\ UNCHANGED <<stage, ingest_ok, configured, raw_fetches, postings>>
    BY <1>9 DEF FetchDetail
  <2>2. PICK result \in {"stored", "failed"} :
            /\ raw_details' = [raw_details EXCEPT ![c][i] = Inserted(@, result)]
            /\ joined' = IF result = "stored" THEN joined \cup {c} ELSE joined
    BY <1>9 DEF FetchDetail
  <2>3. ASSUME NEW d \in Companies, NEW j \in Ids, result = "failed" \/ d # c,
               raw_details'[d][j] = "stored"
        PROVE  raw_details[d][j] = "stored"
    BY <2>2, <2>3 DEF TypeOK, Inserted
  <2>4. ASSUME NEW d \in Companies, NEW r \in RowsOf(d), OnItsWay(r, d)
        PROVE  OnItsWay(r, d)'
    <3>1. CASE result = "stored" /\ d = c
        BY <2>1, <2>2, <3>1 DEF OnItsWay, ToBeFlagged
    <3>2. CASE result = "failed" \/ d # c
        BY <2>1, <2>2, <2>3, <2>4, <3>2 DEF OnItsWay, ToBeFlagged, Joins
    <3> QED
        BY <3>1, <3>2
  <2> QED
    BY <1>0, <2>1, <2>4, OnItsWayStep, RowsStay
<1>10. ASSUME EndDetails
       PROVE  DetailsAreOnTheirWay'
    BY <1>0, <1>10, OnItsWayStep, RowsStay DEF EndDetails, ToFlag, OnItsWay, Joins, ToBeFlagged
<1>11. ASSUME NEW c \in Companies, FlagLatest(c)
       PROVE  DetailsAreOnTheirWay'
  <2>1. /\ SameRows
        /\ \A s \in Rows : raw_fetches'[s].parsed = (raw_fetches[s].parsed /\ ~ IsFlagged(s, c))
    BY <1>11, FlaggingUnmarksRow
  <2>2. /\ stage = "flag" /\ joined' = joined \ {c}
        /\ UNCHANGED <<stage, ingest_ok, configured, postings, raw_details>>
    BY <1>11 DEF FlagLatest
  <2>3. ASSUME NEW d \in Companies, NEW r \in RowsOf(d), IsFlagged(r, d), OnItsWay(r, d)
        PROVE  OnItsWay(r, d)'
    <3>1. r \in Rows /\ raw_fetches'[r].payload = raw_fetches[r].payload
        BY <2>1 DEF RowsOf, Rows, SameRows
    <3>2. CASE d = c
        BY <2>1, <2>3, <3>1, <3>2 DEF OnItsWay
    <3>3. CASE d # c
        BY <2>1, <2>2, <2>3, <3>1, <3>3 DEF OnItsWay, ToBeFlagged, Joins
    <3> QED
        BY <3>2, <3>3
  <2> QED
    BY <1>0, <2>1, <2>2, <2>3, OnItsWayStep
<1>12. ASSUME EndFlag
       PROVE  DetailsAreOnTheirWay'
    BY <1>0, <1>12, OnItsWayStep, RowsStay DEF EndFlag, OnItsWay, Joins, ToBeFlagged
<1>13. ASSUME EndReparse
       PROVE  DetailsAreOnTheirWay'
    BY <1>0, <1>13, OnItsWayStep, RowsStay DEF EndReparse, OnItsWay, Joins, ToBeFlagged
<1>14. ASSUME NEW c \in Companies, NEW i \in Ids, ClassifyPosting(c, i)
       PROVE  DetailsAreOnTheirWay'
  <2>1. /\ stage = "classify"
        /\ UNCHANGED <<stage, ingest_ok, configured, raw_fetches, raw_details, joined>>
    BY <1>14 DEF ClassifyPosting
  <2>2. \A d \in Companies, j \in Ids : postings'[d][j].text = postings[d][j].text
    BY <1>14, ClassifyingWrites
  <2> QED
    BY <1>0, <2>1, <2>2, OnItsWayStep, RowsStay DEF OnItsWay, Joins, ToBeFlagged
<1>15. ASSUME EndCycle \/ StageFails
       PROVE  DetailsAreOnTheirWay'
    BY <1>15 DEF EndCycle, StageFails, DetailsAreOnTheirWay
<1>16. CASE UNCHANGED vars
    BY <1>16 DEF vars, DetailsAreOnTheirWay, OnItsWay, Joins, ToBeFlagged, RowsOf, IsFlagged
<1> QED
    BY <1>1, <1>2, <1>3, <1>4, <1>5, <1>6, <1>7, <1>8, <1>9, <1>10, <1>11, <1>12, <1>13, <1>14,
       <1>15, <1>16 DEF Next, StageStep

-----------------------------------------------------------------------------
CycleInv ==
    /\ TypeOK /\ RoomLeft
    /\ WorkListsOK /\ PassesAreComplete /\ VersionsOK /\ DetailsAreOnTheirWay
    /\ LocationIsCurrent /\ SeniorityLagsOnlyOnTie

LEMMA CycleInit == Init => CycleInv
<1> SUFFICES ASSUME Init PROVE CycleInv
    OBVIOUS
<1>1. TypeOK /\ RoomLeft
    BY TypeInit
<1>2. WorkListsOK /\ PassesAreComplete /\ DetailsAreOnTheirWay
    BY DEF Init, WorkListsOK, PassesAreComplete, DetailsAreOnTheirWay
<1>3. \A c \in Companies, i \in Ids :
          postings[c][i].text = "absent" /\ posting_versions[c][i] = <<>>
    BY DEF Init, Absent
<1>4. VersionsOK
    BY <1>3 DEF VersionsOK, VersionsInOrder
<1>5. LocationIsCurrent /\ SeniorityLagsOnlyOnTie
    BY <1>3 DEF LocationIsCurrent, SeniorityLagsOnlyOnTie
<1> QED
    BY <1>1, <1>2, <1>4, <1>5 DEF CycleInv

LEMMA CycleStep == CycleInv /\ [Next]_vars => CycleInv'
BY TypeStep, WorkListsStep, PassesStep, VersionsStep, DetailsStep, LocationStep, SeniorityStep
   DEF CycleInv

(* The invariant of the cycles, of which the properties are consequences.  *)
LEMMA CycleInvariant == Spec => []CycleInv
BY CycleInit, CycleStep, PTL DEF Spec

(* Every variable of the pipeline keeps its type, and the rows stay within *)
(* their bound: raw_fetches, raw_details, postings, posting_versions.      *)
THEOREM PipelineTypeCorrect == Spec => []TypeOK
BY CycleInvariant, PTL DEF CycleInv

(* get_postings_to_classify and bulk_update_classifications: a posting     *)
(* that does not wait to be classified has its current text's location.    *)
THEOREM LocationsAreCurrent == Spec => []LocationIsCurrent
BY CycleInvariant, PTL DEF CycleInv

(* The seniority class is of the current description, except where two     *)
(* versions tie for the latest observed_at.                                *)
THEOREM SeniorityLagsOnTies == Spec => []SeniorityLagsOnlyOnTie
BY CycleInvariant, PTL DEF CycleInv

(* The second parse pass joins every stored detail into the postings of a  *)
(* successful latest fetch, whichever earlier cycle stored it and wherever *)
(* that cycle was ended.                                                   *)
THEOREM StoredDetailsAreJoined == Spec => []DetailsJoined
<1>1. CycleInv => DetailsJoined
  <2> SUFFICES ASSUME CycleInv, stage = "classify", ingest_ok,
                      NEW c \in configured, NEW i \in Ids, NEW r \in RowsOf(c),
                      IsFlagged(r, c), raw_fetches[r].payload # NoPayload,
                      i \in raw_fetches[r].payload, raw_details[c][i] = "stored"
               PROVE  postings[c][i].text = "detailed"
    BY DEF DetailsJoined
  <2>1. OnItsWay(r, c)
    BY DEF CycleInv, DetailsAreOnTheirWay
  <2>2. raw_fetches[r].parsed
    BY DEF CycleInv, PassesAreComplete, Ahead, RowsOf
  <2> QED
    BY <2>1, <2>2 DEF OnItsWay, ToBeFlagged, Joins
<1> QED
    BY <1>1, CycleInvariant, PTL

(* No detail is asked for that has a row already, successful or not.       *)
THEOREM DetailsAreFetchedOnce == Spec => DetailsFetchedOnce
<1>1. CycleInv /\ [Next]_vars =>
          [attempted < attempted' =>
              \A k \in candidates \ candidates' : raw_details[k[1]][k[2]] = "none"]_vars
    BY DEF CycleInv, WorkListsOK
<1> QED
    BY <1>1, CycleInvariant, PTL DEF Spec, DetailsFetchedOnce

(* The success ping is sent when nothing of the configured companies is    *)
(* left unparsed and nothing at all unclassified.                          *)
THEOREM SuccessIsCertain == Spec => SuccessCertifiesCycle
<1>1. ASSUME CycleInv, [Next]_vars, ping # "success", ping' = "success"
      PROVE  /\ \A r \in DOMAIN raw_fetches :
                   raw_fetches[r].parsed \/ raw_fetches[r].company \notin configured
             /\ \A c \in Companies, i \in Ids :
                   postings[c][i].text = "absent" \/ ~ postings[c][i].stale
  <2>1. EndCycle
    <3>1. ~ UNCHANGED ping
        BY <1>1
    <3>2. ~ UNCHANGED vars /\ ~ StartCycle /\ ~ StageFails
        BY <1>1, <3>1 DEF vars, StartCycle, StageFails
    <3>3. ~ \E c \in Configurable : EditCompanies(c)
        BY <3>1 DEF EditCompanies
    <3>4. ~ \E c \in Companies : FetchBoard(c) \/ FlagLatest(c)
        BY <3>1 DEF FetchBoard, FlagLatest
    <3>5. ~ \E r \in RowIds : SkipRow(r) \/ ParseRow(r)
        BY <3>1 DEF SkipRow, ParseRow
    <3>6. ASSUME NEW c \in Companies, NEW i \in Ids
          PROVE  ~ SkipCandidate(c, i) /\ ~ FetchDetail(c, i) /\ ~ ClassifyPosting(c, i)
      <4>1. ~ SkipCandidate(c, i)
        BY <3>1 DEF SkipCandidate
      <4>2. ~ FetchDetail(c, i)
        BY <3>1 DEF FetchDetail
      <4>3. ~ ClassifyPosting(c, i)
        BY <3>1, Zenon DEF ClassifyPosting
      <4> QED
        BY <4>1, <4>2, <4>3
    <3>7. ~ (EndIngest \/ EndParse \/ EndDetails \/ EndFlag \/ EndReparse)
        BY <3>1 DEF EndIngest, EndParse, EndDetails, EndFlag, EndReparse
    <3> QED
        BY <1>1, <3>2, <3>3, <3>4, <3>5, <3>6, <3>7 DEF Next, StageStep
  <2>2. stage = "classify" /\ batch = {}
    BY <2>1 DEF EndCycle
  <2>3. \A c \in Companies, i \in Ids : <<c, i>> \in Keys /\ <<c, i>> \notin NeedsClassifying
    BY <1>1, <2>2 DEF CycleInv, PassesAreComplete, Keys
  <2> QED
    BY <1>1, <2>2, <2>3 DEF CycleInv, PassesAreComplete, Ahead, NeedsClassifying
<1>2. CycleInv /\ [Next]_vars =>
          [ping # "success" /\ ping' = "success" =>
              /\ \A r \in DOMAIN raw_fetches :
                    raw_fetches[r].parsed \/ raw_fetches[r].company \notin configured
              /\ \A c \in Companies, i \in Ids :
                    postings[c][i].text = "absent" \/ ~ postings[c][i].stale]_vars
    BY <1>1
<1> QED
    BY <1>2, CycleInvariant, PTL DEF Spec, SuccessCertifiesCycle
=============================================================================
