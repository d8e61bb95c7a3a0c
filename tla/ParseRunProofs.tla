--------------------------- MODULE ParseRunProofs ---------------------------
(***************************************************************************)
(* Theorems about ParseRun, for every set of boards, ids and contents and   *)
(* every value of the bounds, however runs are interrupted and repeated:    *)
(* types, the order rows are applied in, and the lifecycle of a posting.    *)
(***************************************************************************)
EXTENDS ParseRun, FiniteSetTheorems, TLAPS

(* Where process_row is at work on a row, and the part of it that comes     *)
(* before mark_raw_fetch_parsed.                                            *)
BeforeMark == {"upsert", "append", "guard", "mark"}
InRow      == BeforeMark \cup {"strip"}

(* The locals of the parser: the row it works on is the first one of todo,  *)
(* a successful fetch of a board it may parse, and only it can be parsed.   *)
LocalsOK ==
    /\ pc \in InRow =>
          /\ current \in todo /\ IsNextRow(current)
          /\ Successful(current) /\ ~ LacksToken(Row.board)
          /\ pending \subseteq DOMAIN Row.payload /\ appends \subseteq DOMAIN Row.payload
    /\ \A r \in todo : raw_fetches[r].parsed => pc = "strip" /\ r = current
    /\ pc = "strip" => Row.parsed
    /\ pc \notin InRow => current = NoRow /\ pending = {} /\ appends = {}
    /\ pc \in {"guard", "mark", "strip"} => pending = {} /\ appends = {}
    /\ pc = "append" => pending = {}
    /\ pc \in {"idle", "reconcile", "details"} => todo = {}

TypeInv == TypeOK /\ LocalsOK

-----------------------------------------------------------------------------
(* Facts about the helpers.                                                *)

(* What a payload is: an id it lists has a content.                        *)
LEMMA PayloadType ==
    ASSUME NEW p \in Payloads
    PROVE  /\ DOMAIN p \subseteq Ids
           /\ \A i \in DOMAIN p : p[i] \in Contents
           /\ p # NoPayload
           /\ IsFiniteSet(DOMAIN p)
           /\ Cardinality(DOMAIN p) \in Nat
<1>1. PICK S \in SUBSET Ids : p \in [S -> Contents]  BY DEF Payloads
<1>2. DOMAIN p = S  BY <1>1
<1>3. IsFiniteSet(S)  BY IdsAssumption, FS_Subset
<1>4. Cardinality(S) \in Nat  BY <1>3, FS_CardinalityType
<1> QED BY <1>1, <1>2, <1>3, <1>4, PayloadAssumption

(* A successful row of the table has a payload.                            *)
LEMMA RowType ==
    ASSUME TypeOK, NEW r \in DOMAIN raw_fetches
    PROVE  /\ raw_fetches[r] \in RawFetch
           /\ r \in RowIds /\ r \in 1..serial
           /\ Successful(r) => raw_fetches[r].payload \in Payloads
<1>1. raw_fetches[r] \in RawFetch  BY DEF TypeOK
<1>2. r \in 1..serial /\ serial \in 0..MaxFetches  BY DEF TypeOK, Times
<1>3. r \in 1..MaxFetches  BY <1>2, BoundsAssumption
<1>4. Successful(r) => raw_fetches[r].payload \in Payloads
  BY <1>1 DEF RawFetch, Successful
<1> QED BY <1>1, <1>2, <1>3, <1>4 DEF RowIds

(* What is hashed of a posting that a payload lists.                       *)
LEMMA TextType ==
    ASSUME TypeOK, NEW b \in Boards, NEW p \in Payloads, NEW i \in DOMAIN p
    PROVE  Text(b, p, i) \in Texts /\ Text(b, p, i) # NoContent
<1>1. p[i] \in Contents /\ i \in Ids
  BY PayloadType
<1>2. raw_details[b][i] \in Details \cup {NoDetail}
  BY <1>1 DEF TypeOK
<1> QED BY <1>1, <1>2, TextsAssumption DEF Text, Texts

(* previous_count is None or a number of items.                            *)
LEMMA PreviousCountType ==
    ASSUME TypeOK, NEW r \in DOMAIN raw_fetches
    PROVE  PreviousCount(r) \in Nat \cup {NoCount}
<1> DEFINE earlier == {q \in DOMAIN raw_fetches : IsBaseline(q, r)}
           latest  == {q \in earlier : \A s \in earlier : s <= q}
<1>1. CASE latest = {}
  BY <1>1 DEF PreviousCount
<1>2. CASE latest # {}
  <2> DEFINE q == CHOOSE x \in latest : TRUE
  <2>1. q \in latest  BY <1>2
  <2>2. raw_fetches[q] \in RawFetch  BY <2>1, RowType
  <2>3. PreviousCount(r) = raw_fetches[q].items  BY <1>2 DEF PreviousCount
  <2> QED BY <2>2, <2>3 DEF RawFetch
<1> QED BY <1>1, <1>2

(* Upserting and closing keep a posting a posting.                         *)
LEMMA UpsertedType ==
    ASSUME NEW p \in Posting, NEW at \in RowIds, NEW c \in Texts
    PROVE  Upserted(p, at, c) \in Posting
BY BoundsAssumption DEF Upserted, Exists, Posting, RowIds, Times, NoTime

LEMMA ClosedType ==
    ASSUME NEW p \in Posting, NEW at \in Times
    PROVE  Closed(p, at) \in Posting
BY DEF Closed, Posting

-----------------------------------------------------------------------------
(* Type correctness.                                                       *)

LEMMA TypeInit == Init => TypeInv
<1> SUFFICES ASSUME Init PROVE TypeInv  OBVIOUS
<1>1. TypeOK
  <2>1. [r \in {} |-> {}] \in [DOMAIN [r \in {} |-> {}] -> RawFetch]  OBVIOUS
  <2>2. postings \in [Boards -> [Ids -> Posting]]
    BY BoundsAssumption DEF Init, Posting, Absent, Times, NoTime
  <2>3. posting_versions \in [Boards -> [Ids -> Seq(Version)]]
    BY DEF Init
  <2> QED BY <2>1, <2>2, <2>3, BoundsAssumption
       DEF Init, TypeOK, Days, Times, Steps, NoRow, NoCount
<1>2. LocalsOK
  BY DEF Init, LocalsOK, BeforeMark, InRow
<1> QED BY <1>1, <1>2 DEF TypeInv

(* Setting one field of one row keeps the table well-typed and its ids.    *)
LEMMA SetParsedType ==
    ASSUME TypeOK, NEW r \in DOMAIN raw_fetches
    PROVE  /\ DOMAIN SetParsed(r) = DOMAIN raw_fetches
           /\ SetParsed(r) \in [DOMAIN raw_fetches -> RawFetch]
           /\ \A q \in DOMAIN raw_fetches :
                 /\ SetParsed(r)[q].payload = raw_fetches[q].payload
                 /\ SetParsed(r)[q].board = raw_fetches[q].board
                 /\ SetParsed(r)[q].parsed = (raw_fetches[q].parsed \/ q = r)
<1>1. raw_fetches \in [DOMAIN raw_fetches -> RawFetch]  BY DEF TypeOK
<1> QED BY <1>1 DEF SetParsed, RawFetch

(* The calendar, deploys and ingest runs.                                  *)
LEMMA TypeEnvironment ==
    ASSUME TypeInv, Environment
    PROVE  TypeInv'
<1>1. CASE NewDay
  BY <1>1, BoundsAssumption DEF TypeInv, TypeOK, LocalsOK, NewDay, databaseVars, localVars,
     Days, BeforeMark, InRow, IsNextRow, Row, Successful, LacksToken
<1>2. ASSUME NEW b \in Configurable, EditCompanies(b) PROVE TypeInv'
  BY <1>2, BoardsAssumption DEF TypeInv, TypeOK, LocalsOK, EditCompanies, databaseVars,
     localVars, BeforeMark, InRow
<1>3. ASSUME NEW b \in Boards, NEW p \in Payloads \cup {NoPayload}, NEW n \in Nat,
             InsertRawFetch(b, p, n)
      PROVE  TypeInv'
  <2>1. serial + 1 \in Times /\ serial' = serial + 1
    BY <1>3, BoundsAssumption DEF InsertRawFetch, TypeInv, TypeOK, Times
  <2>2. NewRow(b, p, n) \in RawFetch
    BY <1>3 DEF NewRow, RawFetch, TypeInv, TypeOK
  <2>3. /\ DOMAIN raw_fetches' = DOMAIN raw_fetches \cup {serial + 1}
        /\ \A q \in DOMAIN raw_fetches : q # serial + 1 /\ raw_fetches'[q] = raw_fetches[q]
    BY <1>3 DEF InsertRawFetch, TypeInv, TypeOK, Times
  <2>4. raw_fetches' \in [DOMAIN raw_fetches' -> RawFetch]
    BY <1>3, <2>2, <2>3 DEF InsertRawFetch, TypeInv, TypeOK
  <2>5. DOMAIN raw_fetches' \subseteq 1..serial'
    BY <2>1, <2>3 DEF TypeInv, TypeOK, Times
  <2>6. TypeOK'
    <3>1. \A s \in skipped' : s.row <= serial'
      BY <1>3, <2>1, BoundsAssumption DEF InsertRawFetch, TypeInv, TypeOK, Times, Skip, RowIds
    <3>2. todo' \subseteq DOMAIN raw_fetches' /\ current' \in DOMAIN raw_fetches' \cup {NoRow}
      BY <1>3, <2>3 DEF InsertRawFetch, TypeInv, TypeOK, localVars
    <3> QED BY <1>3, <2>1, <2>4, <2>5, <3>1, <3>2 DEF InsertRawFetch, TypeInv, TypeOK, localVars
  <2>7. LocalsOK'
    <3>1. todo \subseteq DOMAIN raw_fetches
      BY DEF TypeInv, TypeOK
    <3> QED BY <1>3, <2>3, <3>1 DEF InsertRawFetch, TypeInv, LocalsOK, localVars,
            BeforeMark, InRow, IsNextRow, Row, Successful, LacksToken
  <2> QED BY <2>6, <2>7 DEF TypeInv
<1>4. ASSUME NEW b \in Boards, IngestFailure(b) PROVE TypeInv'
  BY <1>3, <1>4 DEF IngestFailure
<1>5. ASSUME NEW b \in Boards, IngestPayload(b) PROVE TypeInv'
  <2>1. PICK p \in Payloads, extra \in 0..MaxDuplicates :
           InsertRawFetch(b, p, Cardinality(DOMAIN p) + extra)
    BY <1>5 DEF IngestPayload
  <2>2. Cardinality(DOMAIN p) + extra \in Nat
    BY PayloadType, BoundsAssumption
  <2> QED BY <1>3, <2>1, <2>2
<1> QED BY <1>1, <1>2, <1>4, <1>5 DEF Environment

(* process_row, statement by statement.                                    *)
LEMMA TypeProcessRow ==
    ASSUME TypeInv, ProcessRow
    PROVE  TypeInv'
<1> USE DEF BeforeMark, InRow
<1>0. ASSUME pc \in InRow
      PROVE  /\ current \in DOMAIN raw_fetches /\ current \in RowIds
             /\ Row.board \in Boards /\ Row.payload \in Payloads
             /\ DOMAIN Row.payload \subseteq Ids
             /\ \A i \in DOMAIN Row.payload : RowText(i) \in Texts
             /\ CurrentCount \in Nat
  <2>1. current \in DOMAIN raw_fetches /\ Successful(current)
    BY <1>0 DEF TypeInv, TypeOK, LocalsOK
  <2>2. Row \in RawFetch /\ current \in RowIds /\ Row.payload \in Payloads
    BY <2>1, RowType DEF TypeInv, Row
  <2>3. \A i \in DOMAIN Row.payload : RowText(i) \in Texts
    BY <2>2, TextType DEF RawFetch, RowText, TypeInv
  <2> QED BY <2>1, <2>2, <2>3, PayloadType DEF RawFetch, CurrentCount
<1>1. ASSUME NEW r \in RowIds, BeginRow(r) PROVE TypeInv'
  <2>1. r \in DOMAIN raw_fetches /\ r \in todo
    BY <1>1 DEF BeginRow, IsNextRow, TypeInv, TypeOK
  <2>2. PreviousCount(r) \in Nat \cup {NoCount}
    BY <2>1, PreviousCountType DEF TypeInv
  <2>3. DOMAIN raw_fetches[r].payload \subseteq Ids
    BY <1>1, <2>1, RowType, PayloadType DEF BeginRow, Successful, TypeInv
  <2>4. appends' \subseteq pending' /\ pending' = DOMAIN raw_fetches[r].payload
    BY <1>1 DEF BeginRow, ChangedIds
  <2>5. pc' \in {"upsert", "append", "guard"}
        /\ (pc' # "upsert" => pending' = {}) /\ (pc' = "guard" => appends' = {})
    BY <1>1 DEF BeginRow, AfterWrites
  <2>6. TypeOK'
    BY <1>1, <2>1, <2>2, <2>3, <2>4, <2>5 DEF BeginRow, TypeInv, TypeOK, databaseVars, Steps
  <2>7. LocalsOK'
    BY <1>1, <2>1, <2>4, <2>5 DEF BeginRow, TypeInv, TypeOK, LocalsOK, databaseVars,
       Row, Successful, IsNextRow, LacksToken
  <2> QED BY <2>6, <2>7 DEF TypeInv
<1>2. ASSUME NEW C \in SUBSET pending, UpsertChunk(C) PROVE TypeInv'
  <2>1. pc \in InRow /\ C \subseteq DOMAIN Row.payload
    BY <1>2 DEF UpsertChunk, TypeInv, LocalsOK
  <2>2. \A i \in C, p \in Posting : Upserted(p, current, RowText(i)) \in Posting
    BY <1>0, <2>1, UpsertedType
  <2>3. postings' \in [Boards -> [Ids -> Posting]]
    BY <1>2, <2>2 DEF UpsertChunk, TypeInv, TypeOK
  <2>4. pending' \subseteq pending
        /\ pc' \in {"upsert", "append", "guard"}
        /\ (pc' # "upsert" => pending' = {}) /\ (pc' = "guard" => appends' = {})
    BY <1>2 DEF UpsertChunk, AfterWrites, AfterChunk
  <2>5. TypeOK'
    BY <1>2, <2>3, <2>4 DEF UpsertChunk, TypeInv, TypeOK, Steps
  <2>6. LocalsOK'
    BY <1>2, <2>4 DEF UpsertChunk, TypeInv, LocalsOK, Row, Successful, IsNextRow, LacksToken
  <2> QED BY <2>5, <2>6 DEF TypeInv
<1>3. ASSUME NEW C \in SUBSET appends, AppendChunk(C) PROVE TypeInv'
  <2>1. pc \in InRow /\ C \subseteq DOMAIN Row.payload
    BY <1>3 DEF AppendChunk, TypeInv, LocalsOK
  <2>2. \A i \in C : [observed_at |-> current, content |-> RowText(i)] \in Version
    BY <1>0, <2>1 DEF Version
  <2>3. \A i \in C, vs \in Seq(Version) :
           Append(vs, [observed_at |-> current, content |-> RowText(i)]) \in Seq(Version)
    BY <2>2
  <2>4. posting_versions' \in [Boards -> [Ids -> Seq(Version)]]
    BY <1>3, <2>3 DEF AppendChunk, TypeInv, TypeOK
  <2>5. appends' \subseteq appends /\ pc' \in {"append", "guard"}
        /\ (pc' = "guard" => appends' = {}) /\ pending = {}
    BY <1>3 DEF AppendChunk, AfterWrites, TypeInv, LocalsOK
  <2>6. TypeOK'
    BY <1>3, <2>4, <2>5 DEF AppendChunk, TypeInv, TypeOK, Steps
  <2>7. LocalsOK'
    BY <1>3, <2>5 DEF AppendChunk, TypeInv, LocalsOK, Row, Successful, IsNextRow, LacksToken
  <2> QED BY <2>6, <2>7 DEF TypeInv
<1>4. CASE SkipCloseDetection
  <2>1. pc \in InRow  BY <1>4 DEF SkipCloseDetection
  <2>2. InsertFeedAnomaly(Row.board, previous, CurrentCount) \subseteq Anomaly
    BY <1>0, <2>1 DEF InsertFeedAnomaly, Anomaly, TypeInv, TypeOK
  <2>3. /\ current \in 1..serial /\ [row |-> current, previous |-> previous] \in Skip
        /\ \A s \in skipped' : s \in skipped \/ s.row = current
    BY <1>0, <1>4, <2>1 DEF SkipCloseDetection, TypeInv, TypeOK, Skip
  <2>4. TypeOK'
    BY <1>4, <2>2, <2>3 DEF SkipCloseDetection, TypeInv, TypeOK, Steps, localVars
  <2>5. LocalsOK'
    BY <1>4 DEF SkipCloseDetection, TypeInv, LocalsOK, localVars, Row, Successful,
       IsNextRow, LacksToken
  <2> QED BY <2>4, <2>5 DEF TypeInv
<1>5. CASE CloseMissing
  <2>1. current \in Times
    BY <1>0, <1>5 DEF CloseMissing, RowIds, Times
  <2>2. \A p \in Posting : Closed(p, current) \in Posting
    BY <2>1, ClosedType
  <2>3. postings' \in [Boards -> [Ids -> Posting]]
    BY <1>5, <2>2 DEF CloseMissing, TypeInv, TypeOK
  <2>4. TypeOK'
    BY <1>5, <2>3 DEF CloseMissing, TypeInv, TypeOK, Steps, localVars
  <2>5. LocalsOK'
    BY <1>5 DEF CloseMissing, TypeInv, LocalsOK, localVars, Row, Successful,
       IsNextRow, LacksToken
  <2> QED BY <2>4, <2>5 DEF TypeInv
<1>6. CASE MarkParsed
  <2>1. current \in DOMAIN raw_fetches
    BY <1>0, <1>6 DEF MarkParsed
  <2>2. TypeOK'
    BY <1>6, <2>1, SetParsedType DEF MarkParsed, TypeInv, TypeOK, Steps, localVars
  <2>3. LocalsOK'
    <3>1. \A r \in DOMAIN raw_fetches :
             /\ raw_fetches'[r].payload = raw_fetches[r].payload
             /\ raw_fetches'[r].board = raw_fetches[r].board
             /\ raw_fetches'[r].parsed => raw_fetches[r].parsed \/ r = current
             /\ r = current => raw_fetches'[r].parsed
      BY <1>6, <2>1, SetParsedType DEF MarkParsed, TypeInv
    <3>2. \A r \in todo' : raw_fetches'[r].parsed => pc' = "strip" /\ r = current'
      BY <1>6, <3>1 DEF MarkParsed, TypeInv, TypeOK, LocalsOK, localVars
    <3> QED BY <1>6, <2>1, <3>1, <3>2 DEF MarkParsed, TypeInv, LocalsOK, localVars, Row,
            Successful, IsNextRow, LacksToken
  <2> QED BY <2>2, <2>3 DEF TypeInv
<1>7. CASE StripRow
  <2>1. current \in DOMAIN raw_fetches
    BY <1>0, <1>7 DEF StripRow
  <2>2. DOMAIN raw_fetches' = DOMAIN raw_fetches
        /\ raw_fetches' \in [DOMAIN raw_fetches -> RawFetch]
        /\ \A q \in DOMAIN raw_fetches : raw_fetches'[q].parsed = raw_fetches[q].parsed
    BY <1>7, <2>1 DEF StripRow, TypeInv, TypeOK, RawFetch
  <2>3. TypeOK'
    BY <1>7, <2>2 DEF StripRow, TypeInv, TypeOK, Steps
  <2>4. LocalsOK'
    <3>1. \A r \in todo' : r \in DOMAIN raw_fetches /\ ~ raw_fetches[r].parsed
      BY <1>7 DEF StripRow, TypeInv, TypeOK, LocalsOK
    <3>2. pc' = "row" /\ current' = NoRow /\ pending' = {} /\ appends' = {}
      BY <1>7 DEF StripRow, TypeInv, LocalsOK
    <3> QED BY <2>2, <3>1, <3>2 DEF LocalsOK
  <2> QED BY <2>3, <2>4 DEF TypeInv
<1> QED BY <1>1, <1>2, <1>3, <1>4, <1>5, <1>6, <1>7 DEF ProcessRow

(* The rest of a run, and its sudden end.                                  *)
LEMMA TypeParserStep ==
    ASSUME TypeInv, ParserStep \/ Crash
    PROVE  TypeInv'
<1> USE DEF BeforeMark, InRow
<1>1. CASE StartRun
  BY <1>1 DEF StartRun, Unparsed, TypeInv, TypeOK, LocalsOK, Steps, databaseVars
<1>2. ASSUME NEW r \in RowIds, SkipFailure(r) PROVE TypeInv'
  <2>1. r \in DOMAIN raw_fetches
    BY <1>2 DEF SkipFailure, IsNextRow, TypeInv, TypeOK
  <2>2. /\ DOMAIN raw_fetches' = DOMAIN raw_fetches
        /\ raw_fetches' \in [DOMAIN raw_fetches -> RawFetch]
        /\ \A q \in DOMAIN raw_fetches : raw_fetches'[q].parsed = (raw_fetches[q].parsed \/ q = r)
    BY <1>2, <2>1, SetParsedType DEF SkipFailure, TypeInv
  <2>3. TypeOK'
    BY <1>2, <2>2 DEF SkipFailure, TypeInv, TypeOK
  <2>4. LocalsOK'
    BY <1>2, <2>2 DEF SkipFailure, TypeInv, TypeOK, LocalsOK
  <2> QED BY <2>3, <2>4 DEF TypeInv
<1>3. ASSUME NEW r \in RowIds, SkipUnconfigured(r) PROVE TypeInv'
  BY <1>3 DEF SkipUnconfigured, TypeInv, TypeOK, LocalsOK, databaseVars
<1>4. CASE ProcessRow
  BY <1>4, TypeProcessRow
<1>5. CASE BeginReconcile
  BY <1>5 DEF BeginReconcile, BoardsWithOpen, TypeInv, TypeOK, LocalsOK, Steps, databaseVars
<1>6. ASSUME NEW b \in Boards, CloseOrphaned(b) PROVE TypeInv'
  <2>1. \A p \in Posting : Closed(p, OrphanClosedAt(p)) \in Posting
    BY ClosedType DEF Posting, OrphanClosedAt
  <2>2. postings' \in [Boards -> [Ids -> Posting]]
    BY <1>6, <2>1 DEF CloseOrphaned, TypeInv, TypeOK
  <2> QED BY <1>6, <2>2 DEF CloseOrphaned, TypeInv, TypeOK, LocalsOK
<1>7. ASSUME NEW t \in 1..(MaxFetches + 1), DeleteOldParsed(t) PROVE TypeInv'
  <2>1. todo = {} /\ current = NoRow
    BY <1>7 DEF DeleteOldParsed, TypeInv, LocalsOK
  <2>2. DOMAIN raw_fetches' \subseteq DOMAIN raw_fetches
        /\ raw_fetches' \in [DOMAIN raw_fetches' -> RawFetch]
    BY <1>7 DEF DeleteOldParsed, TypeInv, TypeOK
  <2> QED BY <1>7, <2>1, <2>2 DEF DeleteOldParsed, TypeInv, TypeOK, LocalsOK, Steps, localVars
<1>8. CASE Crash
  BY <1>8, BoundsAssumption DEF Crash, TypeInv, TypeOK, LocalsOK, Steps, databaseVars
<1> QED BY <1>1, <1>2, <1>3, <1>4, <1>5, <1>6, <1>7, <1>8 DEF ParserStep

(* The runs of detail_run.                                                 *)
LEMMA TypeDetailStep ==
    ASSUME TypeInv, DetailStep
    PROVE  TypeInv'
<1> USE DEF BeforeMark, InRow
<1>1. CASE StartDetails
  BY <1>1 DEF StartDetails, MissingDetail, TypeInv, TypeOK, LocalsOK, Steps, databaseVars
<1>2. ASSUME NEW b \in TwoStage, NEW i \in Ids, StoreDetail(b, i) PROVE TypeInv'
  <2>1. b \in Boards  BY BoardsAssumption
  <2>2. PICK d \in Details : raw_details' = [raw_details EXCEPT ![b][i] = d]
    BY <1>2 DEF StoreDetail
  <2>3. /\ raw_details' \in [Boards -> [Ids -> Details \cup {NoDetail}]]
        /\ \A c \in Boards \ TwoStage, j \in Ids : raw_details'[c][j] = NoDetail
    BY <2>1, <2>2 DEF TypeInv, TypeOK
  <2>4. TypeOK'
    BY <1>2, <2>3 DEF StoreDetail, TypeInv, TypeOK
  <2> QED BY <1>2, <2>4 DEF StoreDetail, TypeInv, LocalsOK
<1>3. ASSUME NEW b \in TwoStage, MarkLatestRawFetchUnparsed(b) PROVE TypeInv'
  <2>1. DOMAIN raw_fetches' = DOMAIN raw_fetches
        /\ raw_fetches' \in [DOMAIN raw_fetches -> RawFetch]
    <3>1. \A r \in DOMAIN raw_fetches :
             raw_fetches[r] \in RawFetch /\ [raw_fetches[r] EXCEPT !.parsed = FALSE] \in RawFetch
      BY RowType DEF TypeInv, RawFetch
    <3> QED BY <1>3, <3>1 DEF MarkLatestRawFetchUnparsed
  <2>2. TypeOK'
    BY <1>3, <2>1 DEF MarkLatestRawFetchUnparsed, TypeInv, TypeOK
  <2> QED BY <1>3, <2>2 DEF MarkLatestRawFetchUnparsed, TypeInv, LocalsOK
<1>4. CASE EndDetails
  BY <1>4 DEF EndDetails, TypeInv, TypeOK, LocalsOK, Steps, databaseVars
<1> QED BY <1>1, <1>2, <1>3, <1>4 DEF DetailStep

LEMMA TypeStutter ==
    ASSUME TypeInv, UNCHANGED vars
    PROVE  TypeInv'
BY DEF vars, TypeInv, TypeOK, LocalsOK, BeforeMark, InRow, Row, Successful, IsNextRow, LacksToken

LEMMA TypeInvariant == Spec => []TypeInv
<1>1. TypeInv /\ [Next]_vars => TypeInv'
  BY TypeEnvironment, TypeParserStep, TypeDetailStep, TypeStutter DEF Next
<1> QED BY TypeInit, <1>1, PTL DEF Spec

(* Every variable of the parser keeps its type, whatever the boards, the    *)
(* feeds, the deploys and the interrupted runs.                             *)
THEOREM TypeCorrect == Spec => []TypeOK
<1>1. TypeInv => TypeOK  BY DEF TypeInv
<1> QED BY TypeInvariant, <1>1, PTL

-----------------------------------------------------------------------------
(* Rows are applied in the order they were fetched, and once.              *)

(* What a run has not got in todo of a board it may parse was fetched after *)
(* everything it has (get_unparsed_raw_fetches takes all there is).         *)
QueueOrder ==
    \A r \in todo, q \in DOMAIN raw_fetches :
        /\ q \notin todo /\ ~ raw_fetches[q].parsed /\ Successful(q)
        /\ raw_fetches[q].board = raw_fetches[r].board
        => r < q \/ LacksToken(raw_fetches[q].board)

(* No date lies after the last fetch.                                      *)
NothingAfterSerial == \A b \in Boards : NothingAfter(b, serial)

(* What process_row has upserted so far of the row at work.                *)
UpsertedSoFar ==
    pc \in BeforeMark =>
        \A i \in DOMAIN Row.payload \ pending :
            LET p == postings[Row.board][i]
            IN  /\ Exists(p) /\ p.first_seen_at <= current
                /\ p.last_seen_at = current /\ p.content = RowText(i)

(* A posting without a row has no dates.                                   *)
NoRowNoDates ==
    \A b \in Boards, i \in Ids :
        ~ Present(b, i) => ~ postings[b][i].is_open /\ postings[b][i].closed_at = NoTime

(* Nor after the last fetch of its board, which may be parsed again.       *)
LatestCovers ==
    \A b \in Boards, r \in DOMAIN raw_fetches :
        IsLatestRowOf(b, r) /\ Successful(r) => NothingAfter(b, r)

OrderInv ==
    TypeInv /\ QueueOrder /\ NothingAfterSerial /\ NothingOvertaken /\ DatesConsistent
            /\ UpsertedSoFar /\ ParsedRowsApplied /\ NoRowNoDates /\ LatestCovers

-----------------------------------------------------------------------------
(* Facts used by several steps.                                            *)

(* The row at work.                                                        *)
LEMMA CurrentRow ==
    ASSUME TypeInv, pc \in InRow
    PROVE  /\ current \in DOMAIN raw_fetches /\ current \in RowIds /\ current \in 1..serial
           /\ current # NoTime
           /\ Row \in RawFetch /\ Row.board \in Boards /\ Row.payload \in Payloads
           /\ Successful(current) /\ DOMAIN Row.payload \subseteq Ids
           /\ pc \in BeforeMark => ~ Row.parsed
<1>1. current \in DOMAIN raw_fetches /\ Successful(current)
  BY DEF TypeInv, TypeOK, LocalsOK
<1>2. /\ Row \in RawFetch /\ current \in RowIds /\ current \in 1..serial
      /\ Row.payload \in Payloads
  BY <1>1, RowType DEF TypeInv, Row
<1>3. pc \in BeforeMark => ~ Row.parsed
  BY DEF TypeInv, LocalsOK, BeforeMark, InRow, Row
<1> QED BY <1>1, <1>2, <1>3, PayloadType DEF RawFetch, RowIds, NoTime

(* It is the first of its board that waits to be parsed.                   *)
LEMMA CurrentIsFirst ==
    ASSUME TypeInv, QueueOrder, pc \in BeforeMark,
           NEW r \in DOMAIN raw_fetches, ~ raw_fetches[r].parsed, Successful(r),
           raw_fetches[r].board = Row.board
    PROVE  current <= r
<1>1. current \in todo /\ IsNextRow(current) /\ ~ LacksToken(Row.board)
  BY DEF TypeInv, LocalsOK, BeforeMark, InRow
<1>2. CASE r \in todo
  BY <1>1, <1>2 DEF IsNextRow
<1>3. CASE r \notin todo
  <2>1. current < r
    BY <1>1, <1>3 DEF QueueOrder, Row
  <2> QED BY <2>1, CurrentRow, RowType DEF TypeInv, BeforeMark, InRow, RowIds
<1> QED BY <1>2, <1>3

(* Dates are numbers.                                                      *)
LEMMA DateType ==
    ASSUME TypeOK, NEW b \in Boards, NEW i \in Ids
    PROVE  /\ postings[b][i] \in Posting
           /\ postings[b][i].first_seen_at \in Nat /\ postings[b][i].last_seen_at \in Nat
           /\ postings[b][i].closed_at \in Nat
           /\ posting_versions[b][i] \in Seq(Version)
           /\ \A n \in DOMAIN posting_versions[b][i] :
                 posting_versions[b][i][n].observed_at \in Nat
<1>1. postings[b][i] \in Posting /\ posting_versions[b][i] \in Seq(Version)
  BY DEF TypeOK
<1>2. \A n \in DOMAIN posting_versions[b][i] : posting_versions[b][i][n] \in Version
  BY <1>1
<1> QED BY <1>1, <1>2, BoundsAssumption DEF Posting, Version, Times, RowIds

(* An action that writes no posting and no version, and at most marks,      *)
(* strips or deletes rows, overtakes nothing and changes no date.           *)
LEMMA RowsOnly ==
    ASSUME OrderInv, UNCHANGED <<postings, posting_versions, serial>>,
           \A r \in DOMAIN raw_fetches' :
              /\ r \in DOMAIN raw_fetches
              /\ raw_fetches'[r].board = raw_fetches[r].board
              /\ raw_fetches'[r].payload = raw_fetches[r].payload
              /\ raw_fetches[r].parsed => raw_fetches'[r].parsed,
           \A r \in DOMAIN raw_fetches \ DOMAIN raw_fetches', q \in DOMAIN raw_fetches' :
              raw_fetches[q].board = raw_fetches[r].board /\ q < r => ~ raw_fetches[q].parsed
    PROVE  NothingAfterSerial' /\ NothingOvertaken' /\ DatesConsistent' /\ NoRowNoDates'
              /\ LatestCovers'
<1>1. NothingAfterSerial' /\ DatesConsistent' /\ NoRowNoDates'
  BY DEF OrderInv, NothingAfterSerial, NothingAfter, DatesConsistent, NoRowNoDates, Present
<1>2. NothingOvertaken'
  BY DEF OrderInv, NothingOvertaken, NothingAfter, Successful
<1>3. LatestCovers'
  <2> SUFFICES ASSUME NEW b \in Boards, NEW r \in DOMAIN raw_fetches',
                      IsLatestRowOf(b, r)', Successful(r)'
               PROVE  NothingAfter(b, r)
    BY DEF LatestCovers, NothingAfter
  <2>1. r \in DOMAIN raw_fetches /\ raw_fetches[r].board = b /\ Successful(r)
    BY DEF IsLatestRowOf, Successful
  <2>2. CASE IsLatestRowOf(b, r)
    BY <2>1, <2>2 DEF OrderInv, LatestCovers
  <2>3. CASE ~ IsLatestRowOf(b, r)
    <3>1. PICK s \in DOMAIN raw_fetches : raw_fetches[s].board = b /\ ~ (s <= r)
      BY <2>1, <2>3 DEF IsLatestRowOf
    <3>2. s \notin DOMAIN raw_fetches'
      BY <3>1 DEF IsLatestRowOf
    <3>3. r < s
      BY <2>1, <3>1, RowType DEF OrderInv, TypeInv, RowIds
    <3>4. ~ raw_fetches[r].parsed
      BY <2>1, <3>1, <3>2, <3>3
    <3> QED BY <2>1, <3>4 DEF OrderInv, NothingOvertaken
  <2> QED BY <2>2, <2>3
<1> QED BY <1>1, <1>2, <1>3

(* Rows already parsed stay applied when no posting changes and no row is   *)
(* newly marked.                                                            *)
LEMMA AppliedKept ==
    ASSUME OrderInv, UNCHANGED postings,
           \A r \in DOMAIN raw_fetches' :
              raw_fetches'[r].parsed /\ Successful(r)' =>
                 /\ r \in DOMAIN raw_fetches /\ raw_fetches[r].parsed
                 /\ raw_fetches'[r].board = raw_fetches[r].board
                 /\ raw_fetches'[r].payload = raw_fetches[r].payload
    PROVE  ParsedRowsApplied'
BY DEF OrderInv, ParsedRowsApplied, Successful, Present

-----------------------------------------------------------------------------
(* The invariant, action by action.                                        *)

LEMMA OrderInit == Init => OrderInv
<1> SUFFICES ASSUME Init PROVE OrderInv  OBVIOUS
<1>1. TypeInv  BY TypeInit
<1>2. NothingAfterSerial
  BY DEF Init, NothingAfterSerial, NothingAfter, Absent, NoTime
<1>3. DatesConsistent /\ NoRowNoDates
  BY DEF Init, DatesConsistent, NoRowNoDates, Present, Exists, Absent, NoTime
<1>4. QueueOrder /\ NothingOvertaken /\ UpsertedSoFar /\ ParsedRowsApplied /\ LatestCovers
  BY DEF Init, QueueOrder, NothingOvertaken, UpsertedSoFar, ParsedRowsApplied, LatestCovers,
     BeforeMark
<1> QED BY <1>1, <1>2, <1>3, <1>4 DEF OrderInv

(* An action that writes none of the tables and neither adds to todo nor     *)
(* starts a row.                                                            *)
LEMMA OrderNoWrite ==
    ASSUME OrderInv, TypeInv',
           UNCHANGED <<raw_fetches, postings, posting_versions, serial>>,
           QueueOrder', UpsertedSoFar'
    PROVE  OrderInv'
<1>1. \A r \in DOMAIN raw_fetches' :
         /\ r \in DOMAIN raw_fetches
         /\ raw_fetches'[r].board = raw_fetches[r].board
         /\ raw_fetches'[r].payload = raw_fetches[r].payload
         /\ raw_fetches[r].parsed => raw_fetches'[r].parsed
  OBVIOUS
<1>2. NothingAfterSerial' /\ NothingOvertaken' /\ DatesConsistent' /\ NoRowNoDates' /\ LatestCovers'
  BY <1>1, RowsOnly
<1>3. ParsedRowsApplied'
  BY DEF OrderInv, ParsedRowsApplied, Successful, Present
<1> QED BY <1>2, <1>3 DEF OrderInv

(* A new row is younger than anything recorded.                            *)
LEMMA OrderInsert ==
    ASSUME OrderInv, TypeInv', NEW b \in Boards, NEW p \in Payloads \cup {NoPayload},
           NEW n \in Nat, InsertRawFetch(b, p, n)
    PROVE  OrderInv'
<1> DEFINE new == serial + 1
<1>1. /\ DOMAIN raw_fetches' = DOMAIN raw_fetches \cup {new}
      /\ \A q \in DOMAIN raw_fetches : q # new /\ raw_fetches'[q] = raw_fetches[q] /\ q < new
      /\ raw_fetches'[new] = NewRow(b, p, n)
      /\ serial \in Nat /\ serial' = new
      /\ UNCHANGED <<raw_details, postings, posting_versions, pc, todo, current, pending,
                     configured>>
  <2>1. serial \in Nat /\ DOMAIN raw_fetches \subseteq 1..serial
    BY BoundsAssumption DEF OrderInv, TypeInv, TypeOK, Times
  <2>2. \A q \in DOMAIN raw_fetches : q # new /\ q < new
    BY <2>1
  <2>3. raw_fetches' = [r \in DOMAIN raw_fetches \cup {new} |->
                           IF r = new THEN NewRow(b, p, n) ELSE raw_fetches[r]]
    BY DEF InsertRawFetch
  <2> QED BY <2>1, <2>2, <2>3 DEF InsertRawFetch, localVars
<1>2. todo \subseteq DOMAIN raw_fetches
  BY DEF OrderInv, TypeInv, TypeOK
<1>3. QueueOrder'
  BY <1>1, <1>2 DEF OrderInv, QueueOrder, Successful, LacksToken
<1>4. ASSUME NEW c \in Boards PROVE NothingAfter(c, new)
  BY <1>1, DateType DEF OrderInv, TypeInv, NothingAfterSerial, NothingAfter
<1>5. NothingAfterSerial'
  BY <1>1, <1>4 DEF NothingAfterSerial, NothingAfter
<1>6. NothingOvertaken'
  <2> SUFFICES ASSUME NEW r \in DOMAIN raw_fetches', ~ raw_fetches'[r].parsed, Successful(r)'
               PROVE  NothingAfter(raw_fetches'[r].board, r)
    BY <1>1 DEF NothingOvertaken, NothingAfter
  <2>1. CASE r = new
    BY <1>1, <1>4, <2>1 DEF NewRow
  <2>2. CASE r \in DOMAIN raw_fetches
    BY <1>1, <2>2 DEF OrderInv, NothingOvertaken, Successful
  <2> QED BY <1>1, <2>1, <2>2
<1>7. DatesConsistent' /\ NoRowNoDates'
  BY <1>1 DEF OrderInv, DatesConsistent, NoRowNoDates, Present
<1>8. UpsertedSoFar'
  <2>1. pc \in BeforeMark => current \in DOMAIN raw_fetches
    BY CurrentRow DEF OrderInv, BeforeMark, InRow
  <2> QED BY <1>1, <2>1 DEF OrderInv, UpsertedSoFar, Row, RowText, Text
<1>9. ParsedRowsApplied'
  BY <1>1 DEF OrderInv, ParsedRowsApplied, Successful, Present, NewRow
<1>10. LatestCovers'
  <2> SUFFICES ASSUME NEW c \in Boards, NEW r \in DOMAIN raw_fetches',
                      IsLatestRowOf(c, r)', Successful(r)'
               PROVE  NothingAfter(c, r)
    BY <1>1 DEF LatestCovers, NothingAfter
  <2>1. CASE r = new
    BY <1>1, <1>4, <2>1
  <2>2. CASE r \in DOMAIN raw_fetches
    BY <1>1, <2>2 DEF OrderInv, LatestCovers, IsLatestRowOf, Successful
  <2> QED BY <1>1, <2>1, <2>2
<1> QED BY <1>3, <1>5, <1>6, <1>7, <1>8, <1>9, <1>10 DEF OrderInv

LEMMA OrderEnvironment ==
    ASSUME OrderInv, Environment
    PROVE  OrderInv'
<1>0. TypeInv'  BY TypeEnvironment DEF OrderInv
<1>1. CASE NewDay
  <2>1. UNCHANGED <<raw_fetches, raw_details, postings, posting_versions, serial, pc, todo,
                    current, pending, configured>>
    BY <1>1 DEF NewDay, databaseVars, localVars
  <2>2. QueueOrder' /\ UpsertedSoFar'
    BY <2>1 DEF OrderInv, QueueOrder, UpsertedSoFar, Row, RowText, Text, Successful, LacksToken
  <2> QED BY <1>0, <2>1, <2>2, OrderNoWrite
<1>2. ASSUME NEW b \in Configurable, EditCompanies(b) PROVE OrderInv'
  <2>1. UNCHANGED <<raw_fetches, postings, posting_versions, serial, pc, todo>> /\ pc = "idle"
    BY <1>2 DEF EditCompanies, databaseVars, localVars
  <2>2. todo = {}
    BY <2>1 DEF OrderInv, TypeInv, LocalsOK
  <2>3. QueueOrder' /\ UpsertedSoFar'
    BY <2>1, <2>2 DEF QueueOrder, UpsertedSoFar, BeforeMark
  <2> QED BY <1>0, <2>1, <2>3, OrderNoWrite
<1>3. ASSUME NEW b \in Boards, IngestFailure(b) PROVE OrderInv'
  BY <1>0, <1>3, OrderInsert DEF IngestFailure
<1>4. ASSUME NEW b \in Boards, IngestPayload(b) PROVE OrderInv'
  <2>1. PICK p \in Payloads, extra \in 0..MaxDuplicates :
           InsertRawFetch(b, p, Cardinality(DOMAIN p) + extra)
    BY <1>4 DEF IngestPayload
  <2>2. Cardinality(DOMAIN p) + extra \in Nat
    BY PayloadType, BoundsAssumption
  <2> QED BY <1>0, <2>1, <2>2, OrderInsert
<1> QED BY <1>1, <1>2, <1>3, <1>4 DEF Environment

(* The first writes of a row: the postings it lists are seen at its time,   *)
(* which no date of its board lies after.                                  *)
LEMMA OrderUpsert ==
    ASSUME OrderInv, TypeInv', NEW C \in SUBSET pending, UpsertChunk(C)
    PROVE  OrderInv'
<1> DEFINE b == Row.board
           old(i) == postings[b][i]
           new(i) == postings'[b][i]
<1>1. pc \in BeforeMark /\ pc \in InRow /\ pc' \in BeforeMark
  BY DEF UpsertChunk, BeforeMark, InRow, AfterWrites
<1>2. /\ current \in DOMAIN raw_fetches /\ current \in Nat /\ current # NoTime /\ current <= serial
      /\ b \in Boards /\ Row.payload \in Payloads /\ DOMAIN Row.payload \subseteq Ids
      /\ Successful(current) /\ ~ Row.parsed /\ ~ raw_fetches[current].parsed
      /\ C \subseteq DOMAIN Row.payload /\ raw_fetches[current].board = b
  BY <1>1, CurrentRow DEF OrderInv, TypeInv, LocalsOK, RowIds, Row
<1>3. /\ UNCHANGED <<raw_fetches, posting_versions, serial, todo, current, configured>>
      /\ pending' = pending \ C
      /\ Row' = Row /\ \A i : RowText(i)' = RowText(i)
  BY DEF UpsertChunk, AfterChunk, Row, RowText, Text
<1>4. NothingAfter(b, current)
  BY <1>2 DEF OrderInv, NothingOvertaken
<1>5. \A c \in Boards, i \in Ids : c # b \/ i \notin C => postings'[c][i] = postings[c][i]
  BY DEF UpsertChunk, OrderInv, TypeInv, TypeOK
<1>6. \A i \in C : new(i) = Upserted(old(i), current, RowText(i))
  BY <1>2 DEF UpsertChunk, OrderInv, TypeInv, TypeOK
<1>7. \A i \in C : /\ new(i).first_seen_at = IF Exists(old(i)) THEN old(i).first_seen_at ELSE current
                   /\ new(i).last_seen_at = current
                   /\ new(i).is_open = TRUE
                   /\ new(i).closed_at = old(i).closed_at
                   /\ new(i).content = RowText(i)
  <2> TAKE i \in C
  <2>1. new(i) = [first_seen_at |-> IF Exists(old(i)) THEN old(i).first_seen_at ELSE current,
                  last_seen_at |-> current, is_open |-> TRUE,
                  closed_at |-> old(i).closed_at, content |-> RowText(i)]
    BY <1>6 DEF Upserted
  <2> HIDE DEF new, old
  <2> QED BY <2>1
<1>8. \A i \in Ids : /\ old(i).first_seen_at \in Nat /\ old(i).last_seen_at \in Nat
                     /\ old(i).closed_at \in Nat
                     /\ old(i).last_seen_at <= current /\ old(i).closed_at <= current
                     /\ Exists(old(i)) => old(i).first_seen_at <= old(i).last_seen_at
  BY <1>2, <1>4, DateType DEF OrderInv, TypeInv, NothingAfter, DatesConsistent, Present
<1>9. ASSUME NEW t \in Nat, NEW c \in Boards, NothingAfter(c, t), c = b => current <= t
      PROVE  NothingAfter(c, t)'
  BY <1>2, <1>3, <1>5, <1>7, <1>9 DEF NothingAfter
<1>10. NothingAfterSerial'
  <2>1. serial \in Nat  BY BoundsAssumption DEF OrderInv, TypeInv, TypeOK, Times
  <2> QED BY <1>2, <1>3, <1>9, <2>1 DEF OrderInv, NothingAfterSerial, NothingAfter
<1>11. NothingOvertaken'
  <2> SUFFICES ASSUME NEW r \in DOMAIN raw_fetches, ~ raw_fetches[r].parsed, Successful(r)
               PROVE  NothingAfter(raw_fetches[r].board, r)'
    BY <1>3 DEF NothingOvertaken, NothingAfter, Successful
  <2>1. r \in Nat /\ raw_fetches[r].board \in Boards
    BY RowType DEF OrderInv, TypeInv, RowIds, RawFetch
  <2>2. NothingAfter(raw_fetches[r].board, r)
    BY DEF OrderInv, NothingOvertaken
  <2>3. raw_fetches[r].board = b => current <= r
    BY <1>1, CurrentIsFirst DEF OrderInv
  <2> QED BY <1>3, <1>9, <2>1, <2>2, <2>3
<1>12. DatesConsistent'
  <2> SUFFICES ASSUME NEW c \in Boards, NEW i \in Ids, Exists(postings'[c][i])
               PROVE  LET p == postings'[c][i]
                      IN  /\ p.first_seen_at <= p.last_seen_at
                          /\ p.closed_at # NoTime => p.first_seen_at <= p.closed_at
                          /\ ~ p.is_open => p.closed_at # NoTime /\ p.last_seen_at <= p.closed_at
    BY DEF DatesConsistent, Present
  <2>1. CASE c # b \/ i \notin C
    BY <1>5, <2>1 DEF OrderInv, DatesConsistent, Present
  <2>2. CASE c = b /\ i \in C
    <3>1. CASE Exists(old(i))
      BY <1>2, <1>7, <1>8, <2>2, <3>1 DEF OrderInv, DatesConsistent, Present
    <3>2. CASE ~ Exists(old(i))
      <4>1. old(i).closed_at = NoTime
        BY <2>2, <3>2 DEF OrderInv, NoRowNoDates, Present
      <4> QED BY <1>2, <1>7, <2>2, <3>2, <4>1
    <3> QED BY <3>1, <3>2
  <2> QED BY <2>1, <2>2
<1>13. QueueOrder'
  BY <1>3 DEF OrderInv, QueueOrder, Successful, LacksToken
<1>14. UpsertedSoFar'
  <2> SUFFICES ASSUME NEW i \in DOMAIN Row.payload, i \notin pending \ C
               PROVE  LET p == postings'[b][i]
                      IN  /\ Exists(p) /\ p.first_seen_at <= current
                          /\ p.last_seen_at = current /\ p.content = RowText(i)
    BY <1>3 DEF UpsertedSoFar
  <2>1. CASE i \in C
    BY <1>2, <1>7, <1>8, <2>1 DEF Exists
  <2>2. CASE i \notin C
    BY <1>1, <1>2, <1>5, <2>2 DEF OrderInv, UpsertedSoFar
  <2> QED BY <2>1, <2>2
<1>15. ParsedRowsApplied'
  <2> SUFFICES ASSUME NEW r \in DOMAIN raw_fetches, raw_fetches[r].parsed, Successful(r),
                      NEW i \in DOMAIN raw_fetches[r].payload
               PROVE  LET p == postings'[raw_fetches[r].board][i]
                      IN  Exists(p) /\ p.first_seen_at <= r /\ r <= p.last_seen_at
    BY <1>3 DEF ParsedRowsApplied, Present, Successful
  <2>1. LET p == postings[raw_fetches[r].board][i]
        IN  Exists(p) /\ p.first_seen_at <= r /\ r <= p.last_seen_at
    BY DEF OrderInv, ParsedRowsApplied, Present
  <2>2. i \in Ids /\ r \in Nat /\ raw_fetches[r].board \in Boards
    BY RowType, PayloadType DEF OrderInv, TypeInv, RowIds, RawFetch
  <2>3. CASE raw_fetches[r].board # b \/ i \notin C
    BY <1>5, <2>1, <2>2, <2>3
  <2>4. CASE raw_fetches[r].board = b /\ i \in C
    BY <1>2, <1>7, <1>8, <2>1, <2>2, <2>4 DEF Exists
  <2> QED BY <2>3, <2>4
<1>16. NoRowNoDates'
  BY <1>2, <1>5, <1>7 DEF OrderInv, NoRowNoDates, Present, Exists
<1>17. LatestCovers'
  <2> SUFFICES ASSUME NEW c \in Boards, NEW r \in DOMAIN raw_fetches,
                      IsLatestRowOf(c, r), Successful(r)
               PROVE  NothingAfter(c, r)'
    BY <1>3 DEF LatestCovers, NothingAfter, IsLatestRowOf, Successful
  <2>1. r \in Nat /\ (c = b => current <= r)
    BY <1>2, RowType DEF OrderInv, TypeInv, RowIds, IsLatestRowOf
  <2> QED BY <1>9, <2>1 DEF OrderInv, LatestCovers
<1> QED BY <1>10, <1>11, <1>12, <1>13, <1>14, <1>15, <1>16, <1>17 DEF OrderInv

(* The versions of a row carry its time.                                   *)
LEMMA OrderAppend ==
    ASSUME OrderInv, TypeInv', NEW C \in SUBSET appends, AppendChunk(C)
    PROVE  OrderInv'
<1> DEFINE b == Row.board
           v(i) == [observed_at |-> current, content |-> RowText(i)]
<1>1. pc \in BeforeMark /\ pc' \in BeforeMark /\ pending' = pending
  BY DEF AppendChunk, BeforeMark, AfterWrites
<1>2. /\ current \in DOMAIN raw_fetches /\ current \in Nat /\ current <= serial /\ b \in Boards
  BY <1>1, CurrentRow DEF OrderInv, RowIds, BeforeMark, InRow
<1>3. /\ UNCHANGED <<raw_fetches, postings, serial, todo, current, configured>>
      /\ Row' = Row /\ \A i : RowText(i)' = RowText(i)
  BY DEF AppendChunk, Row, RowText, Text
<1>4. \A c \in Boards, i \in Ids :
         posting_versions'[c][i] =
            IF c = b /\ i \in C THEN Append(posting_versions[c][i], v(i))
            ELSE posting_versions[c][i]
  BY <1>2 DEF AppendChunk, OrderInv, TypeInv, TypeOK
<1>5. ASSUME NEW c \in Boards, NEW i \in Ids, NEW n \in DOMAIN posting_versions'[c][i]
      PROVE  \/ n \in DOMAIN posting_versions[c][i]
                /\ posting_versions'[c][i][n] = posting_versions[c][i][n]
             \/ c = b /\ posting_versions'[c][i][n].observed_at = current
  <2>1. posting_versions[c][i] \in Seq(Version)
    BY DEF OrderInv, TypeInv, TypeOK
  <2>2. CASE c = b /\ i \in C
    <3>1. posting_versions'[c][i] = Append(posting_versions[c][i], v(i))
      BY <1>4, <2>2
    <3> QED BY <2>1, <2>2, <3>1
  <2>3. CASE ~ (c = b /\ i \in C)
    BY <1>4, <2>3
  <2> QED BY <2>2, <2>3
<1>6. ASSUME NEW t \in Nat, NEW c \in Boards, NothingAfter(c, t), c = b => current <= t
      PROVE  NothingAfter(c, t)'
  <2> SUFFICES ASSUME NEW i \in Ids
               PROVE  /\ postings[c][i].last_seen_at <= t /\ postings[c][i].closed_at <= t
                      /\ \A n \in DOMAIN posting_versions'[c][i] :
                            posting_versions'[c][i][n].observed_at <= t
    BY <1>3 DEF NothingAfter
  <2> QED BY <1>5, <1>6 DEF NothingAfter
<1>7. NothingAfterSerial'
  <2>1. serial \in Nat  BY BoundsAssumption DEF OrderInv, TypeInv, TypeOK, Times
  <2> QED BY <1>2, <1>3, <1>6, <2>1 DEF OrderInv, NothingAfterSerial, NothingAfter
<1>8. NothingOvertaken'
  <2> SUFFICES ASSUME NEW r \in DOMAIN raw_fetches, ~ raw_fetches[r].parsed, Successful(r)
               PROVE  NothingAfter(raw_fetches[r].board, r)'
    BY <1>3 DEF NothingOvertaken, NothingAfter, Successful
  <2>1. r \in Nat /\ raw_fetches[r].board \in Boards
    BY RowType DEF OrderInv, TypeInv, RowIds, RawFetch
  <2>2. NothingAfter(raw_fetches[r].board, r)
    BY DEF OrderInv, NothingOvertaken
  <2>3. raw_fetches[r].board = b => current <= r
    BY <1>1, CurrentIsFirst DEF OrderInv
  <2> QED BY <1>3, <1>6, <2>1, <2>2, <2>3
<1>9. DatesConsistent' /\ NoRowNoDates' /\ ParsedRowsApplied'
  BY <1>3 DEF OrderInv, DatesConsistent, NoRowNoDates, ParsedRowsApplied, Present, Successful
<1>10. QueueOrder' /\ UpsertedSoFar'
  BY <1>1, <1>3 DEF OrderInv, QueueOrder, UpsertedSoFar, Successful, LacksToken
<1>11. LatestCovers'
  <2> SUFFICES ASSUME NEW c \in Boards, NEW r \in DOMAIN raw_fetches,
                      IsLatestRowOf(c, r), Successful(r)
               PROVE  NothingAfter(c, r)'
    BY <1>3 DEF LatestCovers, NothingAfter, IsLatestRowOf, Successful
  <2>1. r \in Nat /\ (c = b => current <= r)
    BY <1>2, RowType DEF OrderInv, TypeInv, RowIds, IsLatestRowOf, Row
  <2> QED BY <1>6, <2>1 DEF OrderInv, LatestCovers
<1> QED BY <1>7, <1>8, <1>9, <1>10, <1>11 DEF OrderInv

(* Closing: what a closable posting turns into, at a date that is neither    *)
(* before its last observation nor after what waits to be parsed.           *)
LEMMA OrderClose ==
    ASSUME OrderInv, TypeInv',
           UNCHANGED <<raw_fetches, posting_versions, serial, current>>,
           NEW b \in Boards, NEW S \in SUBSET Ids, NEW at \in [S -> Nat \ {NoTime}],
           \A c \in Boards, i \in Ids :
              postings'[c][i] = IF c = b /\ i \in S THEN Closed(postings[c][i], at[i])
                                ELSE postings[c][i],
           \A i \in S : /\ Closable(postings[b][i])
                        /\ at[i] <= serial
                        /\ postings[b][i].last_seen_at <= at[i],
           \A i \in S, r \in DOMAIN raw_fetches :
              /\ ~ raw_fetches[r].parsed \/ IsLatestRowOf(b, r)
              /\ Successful(r) /\ raw_fetches[r].board = b
              => at[i] <= r
    PROVE  /\ NothingAfterSerial' /\ NothingOvertaken' /\ DatesConsistent'
           /\ ParsedRowsApplied' /\ NoRowNoDates' /\ LatestCovers'
<1>1. \A c \in Boards, i \in Ids :
         LET p == postings[c][i]
             q == postings'[c][i]
         IN  /\ q.first_seen_at = p.first_seen_at /\ q.last_seen_at = p.last_seen_at
             /\ q.content = p.content
             /\ \/ q.is_open = p.is_open /\ q.closed_at = p.closed_at
                \/ c = b /\ i \in S /\ q.is_open = FALSE /\ q.closed_at = at[i]
  <2> SUFFICES ASSUME NEW c \in Boards, NEW i \in Ids
               PROVE  LET p == postings[c][i]
                          q == postings'[c][i]
                      IN  /\ q.first_seen_at = p.first_seen_at /\ q.last_seen_at = p.last_seen_at
                          /\ q.content = p.content
                          /\ \/ q.is_open = p.is_open /\ q.closed_at = p.closed_at
                             \/ c = b /\ i \in S /\ q.is_open = FALSE /\ q.closed_at = at[i]
    OBVIOUS
  <2>1. postings[c][i] \in Posting  BY DateType DEF OrderInv, TypeInv
  <2>2. CASE c = b /\ i \in S
    <3>1. postings'[c][i] = Closed(postings[c][i], at[i])
      BY <2>2
    <3> QED BY <2>1, <2>2, <3>1 DEF Closed, Posting
  <2>3. CASE ~ (c = b /\ i \in S)
    BY <2>3
  <2> QED BY <2>2, <2>3
<1>2. \A i \in S : Exists(postings[b][i])
  BY DEF OrderInv, NoRowNoDates, Present, Closable
<1>3. NothingAfterSerial'
  BY <1>1 DEF OrderInv, NothingAfterSerial, NothingAfter
<1>4. NothingOvertaken'
  <2> SUFFICES ASSUME NEW r \in DOMAIN raw_fetches, ~ raw_fetches[r].parsed, Successful(r),
                      NEW i \in Ids
               PROVE  LET c == raw_fetches[r].board
                      IN  /\ postings'[c][i].last_seen_at <= r /\ postings'[c][i].closed_at <= r
                          /\ \A n \in DOMAIN posting_versions[c][i] :
                                posting_versions[c][i][n].observed_at <= r
    BY DEF NothingOvertaken, NothingAfter, Successful
  <2>1. raw_fetches[r].board \in Boards
    BY RowType DEF OrderInv, TypeInv, RawFetch
  <2>2. NothingAfter(raw_fetches[r].board, r)
    BY DEF OrderInv, NothingOvertaken
  <2> DEFINE c == raw_fetches[r].board
  <2>3. /\ postings'[c][i].last_seen_at = postings[c][i].last_seen_at
        /\ \/ postings'[c][i].closed_at = postings[c][i].closed_at
           \/ c = b /\ i \in S /\ postings'[c][i].closed_at = at[i]
    BY <1>1, <2>1
  <2>4. postings'[c][i].closed_at <= r
    BY <2>2, <2>3 DEF NothingAfter
  <2> QED BY <2>2, <2>3, <2>4 DEF NothingAfter
<1>5. DatesConsistent'
  <2> SUFFICES ASSUME NEW c \in Boards, NEW i \in Ids, Exists(postings'[c][i])
               PROVE  LET p == postings'[c][i]
                      IN  /\ p.first_seen_at <= p.last_seen_at
                          /\ p.closed_at # NoTime => p.first_seen_at <= p.closed_at
                          /\ ~ p.is_open => p.closed_at # NoTime /\ p.last_seen_at <= p.closed_at
    BY DEF DatesConsistent, Present
  <2>1. Exists(postings[c][i])
    BY <1>1 DEF Exists
  <2>2. postings[c][i].first_seen_at <= postings[c][i].last_seen_at
    BY <2>1 DEF OrderInv, DatesConsistent, Present
  <2>3. CASE c = b /\ i \in S /\ postings'[c][i].is_open = FALSE /\ postings'[c][i].closed_at = at[i]
    <3>1. postings[c][i].first_seen_at <= at[i]
      BY <2>2, <2>3, DateType DEF OrderInv, TypeInv
    <3> QED BY <1>1, <2>2, <2>3, <3>1
  <2>4. CASE /\ postings'[c][i].is_open = postings[c][i].is_open
             /\ postings'[c][i].closed_at = postings[c][i].closed_at
    BY <1>1, <2>1, <2>4 DEF OrderInv, DatesConsistent, Present
  <2> QED BY <1>1, <2>3, <2>4
<1>6. ParsedRowsApplied'
  <2> SUFFICES ASSUME NEW r \in DOMAIN raw_fetches, raw_fetches[r].parsed, Successful(r),
                      NEW i \in DOMAIN raw_fetches[r].payload
               PROVE  LET p == postings'[raw_fetches[r].board][i]
                      IN  Exists(p) /\ p.first_seen_at <= r /\ r <= p.last_seen_at
    BY DEF ParsedRowsApplied, Present, Successful
  <2>1. i \in Ids /\ raw_fetches[r].board \in Boards
    BY RowType, PayloadType DEF OrderInv, TypeInv, RawFetch
  <2> QED BY <1>1, <2>1 DEF OrderInv, ParsedRowsApplied, Present, Exists
<1>7. NoRowNoDates'
  BY <1>1, <1>2 DEF OrderInv, NoRowNoDates, Present, Exists
<1>8. LatestCovers'
  <2> SUFFICES ASSUME NEW c \in Boards, NEW r \in DOMAIN raw_fetches,
                      IsLatestRowOf(c, r), Successful(r), NEW i \in Ids
               PROVE  /\ postings'[c][i].last_seen_at <= r /\ postings'[c][i].closed_at <= r
                      /\ \A n \in DOMAIN posting_versions[c][i] :
                            posting_versions[c][i][n].observed_at <= r
    BY DEF LatestCovers, NothingAfter, IsLatestRowOf, Successful
  <2>1. NothingAfter(c, r) /\ raw_fetches[r].board = c
    BY DEF OrderInv, LatestCovers, IsLatestRowOf
  <2> QED BY <1>1, <2>1 DEF NothingAfter
<1> QED BY <1>3, <1>4, <1>5, <1>6, <1>7, <1>8

LEMMA OrderProcessRow ==
    ASSUME OrderInv, ProcessRow
    PROVE  OrderInv'
<1>0. TypeInv'  BY TypeProcessRow DEF OrderInv
<1>1. ASSUME NEW r \in RowIds, BeginRow(r) PROVE OrderInv'
  <2>1. /\ UNCHANGED <<raw_fetches, postings, posting_versions, serial, todo, configured>>
        /\ current' = r /\ pending' = DOMAIN raw_fetches[r].payload
    BY <1>1 DEF BeginRow, databaseVars
  <2>2. QueueOrder'
    BY <2>1 DEF OrderInv, QueueOrder, Successful, LacksToken
  <2>3. UpsertedSoFar'
    BY <2>1 DEF UpsertedSoFar, Row
  <2> QED BY <1>0, <2>1, <2>2, <2>3, OrderNoWrite
<1>2. ASSUME NEW C \in SUBSET pending, UpsertChunk(C) PROVE OrderInv'
  BY <1>0, <1>2, OrderUpsert
<1>3. ASSUME NEW C \in SUBSET appends, AppendChunk(C) PROVE OrderInv'
  BY <1>0, <1>3, OrderAppend
<1>4. CASE SkipCloseDetection
  <2>1. /\ UNCHANGED <<raw_fetches, postings, posting_versions, serial, todo, configured,
                       current, pending>>
        /\ pc \in BeforeMark /\ UNCHANGED raw_details
    BY <1>4 DEF SkipCloseDetection, localVars, BeforeMark
  <2>2. QueueOrder' /\ UpsertedSoFar'
    BY <2>1 DEF OrderInv, QueueOrder, UpsertedSoFar, Successful, LacksToken, Row, RowText, Text
  <2> QED BY <1>0, <2>1, <2>2, OrderNoWrite
<1>5. CASE CloseMissing
  <2> DEFINE b == Row.board
             S == {i \in Ids : Closable(postings[b][i]) /\ i \notin DOMAIN Row.payload}
             at == [i \in S |-> current]
  <2>1. /\ UNCHANGED <<raw_fetches, posting_versions, serial, todo, configured, current, pending>>
        /\ pc \in BeforeMark /\ Row' = Row /\ pc' = "mark"
    BY <1>5 DEF CloseMissing, localVars, BeforeMark, Row
  <2>10. \A i : RowText(i)' = RowText(i)
    BY <1>5, <2>1 DEF CloseMissing, RowText, Text
  <2>2. /\ current \in DOMAIN raw_fetches /\ current \in Nat \ {NoTime} /\ current <= serial
        /\ b \in Boards /\ Successful(current) /\ ~ raw_fetches[current].parsed
        /\ raw_fetches[current].board = b /\ DOMAIN Row.payload \subseteq Ids
    BY <2>1, CurrentRow DEF OrderInv, RowIds, NoTime, BeforeMark, InRow, Row
  <2>3. \A c \in Boards, i \in Ids :
           postings'[c][i] = IF c = b /\ i \in S THEN Closed(postings[c][i], at[i])
                             ELSE postings[c][i]
    BY <1>5, <2>2 DEF CloseMissing, OrderInv, TypeInv, TypeOK
  <2>4. \A i \in S : postings[b][i].last_seen_at <= current
    BY <2>2 DEF OrderInv, NothingOvertaken, NothingAfter
  <2>5. \A r \in DOMAIN raw_fetches :
           /\ ~ raw_fetches[r].parsed \/ IsLatestRowOf(b, r)
           /\ Successful(r) /\ raw_fetches[r].board = b
           => current <= r
    BY <2>1, <2>2, CurrentIsFirst DEF OrderInv, IsLatestRowOf
  <2>6. at \in [S -> Nat \ {NoTime}] /\ \A i \in S : at[i] = current
    BY <2>2
  <2>7. /\ NothingAfterSerial' /\ NothingOvertaken' /\ DatesConsistent'
        /\ ParsedRowsApplied' /\ NoRowNoDates' /\ LatestCovers'
    <3>1. S \in SUBSET Ids
      OBVIOUS
    <3>2. \A i \in S : /\ Closable(postings[b][i])
                      /\ at[i] <= serial
                      /\ postings[b][i].last_seen_at <= at[i]
      BY <2>2, <2>4, <2>6
    <3>3. \A i \in S, r \in DOMAIN raw_fetches :
             /\ ~ raw_fetches[r].parsed \/ IsLatestRowOf(b, r)
             /\ Successful(r) /\ raw_fetches[r].board = b
             => at[i] <= r
      BY <2>5, <2>6
    <3>4. TypeInv'
      BY <1>0 DEF OrderInv
    <3>5. b \in Boards /\ at \in [S -> Nat \ {NoTime}]
      BY <2>2, <2>6
    <3> HIDE DEF b, S, at
    <3> QED BY <1>0, <2>1, <2>3, <3>1, <3>2, <3>3, <3>4, <3>5, OrderClose
  <2>8. QueueOrder'
    BY <2>1 DEF OrderInv, QueueOrder, Successful, LacksToken
  <2>9. UpsertedSoFar'
    <3>1. \A i \in DOMAIN Row.payload : postings'[b][i] = postings[b][i]
      BY <2>2, <2>3
    <3> QED BY <2>1, <2>10, <3>1 DEF OrderInv, UpsertedSoFar
  <2> QED BY <1>0, <2>7, <2>8, <2>9 DEF OrderInv
<1>6. CASE MarkParsed
  <2>1. /\ UNCHANGED <<postings, posting_versions, serial, todo, configured, current, pending>>
        /\ raw_fetches' = SetParsed(current) /\ pc = "mark" /\ pc' = "strip"
        /\ pc \in BeforeMark /\ pc' \notin BeforeMark
    BY <1>6 DEF MarkParsed, localVars, BeforeMark
  <2>2. current \in DOMAIN raw_fetches
    BY <2>1, CurrentRow DEF OrderInv, BeforeMark, InRow
  <2>3. /\ DOMAIN raw_fetches' = DOMAIN raw_fetches
        /\ \A q \in DOMAIN raw_fetches :
              /\ raw_fetches'[q].payload = raw_fetches[q].payload
              /\ raw_fetches'[q].board = raw_fetches[q].board
              /\ raw_fetches'[q].parsed = (raw_fetches[q].parsed \/ q = current)
    BY <2>1, <2>2, SetParsedType DEF OrderInv, TypeInv
  <2>4. /\ NothingAfterSerial' /\ NothingOvertaken' /\ DatesConsistent' /\ NoRowNoDates'
        /\ LatestCovers'
    BY <2>1, <2>3, RowsOnly
  <2>5. QueueOrder'
    <3> SUFFICES ASSUME NEW r \in todo, NEW q \in DOMAIN raw_fetches, q \notin todo,
                        ~ raw_fetches[q].parsed, Successful(q),
                        raw_fetches[q].board = raw_fetches[r].board
                 PROVE  r < q \/ LacksToken(raw_fetches[q].board)
      <4>1. todo \subseteq DOMAIN raw_fetches  BY DEF OrderInv, TypeInv, TypeOK
      <4> QED BY <2>1, <2>3, <4>1 DEF QueueOrder, Successful, LacksToken
    <3> QED BY DEF OrderInv, QueueOrder
  <2>6. UpsertedSoFar'
    BY <2>1 DEF UpsertedSoFar
  <2>7. ParsedRowsApplied'
    <3> SUFFICES ASSUME NEW r \in DOMAIN raw_fetches, raw_fetches'[r].parsed, Successful(r),
                        NEW i \in DOMAIN raw_fetches[r].payload
                 PROVE  LET p == postings[raw_fetches[r].board][i]
                        IN  Exists(p) /\ p.first_seen_at <= r /\ r <= p.last_seen_at
      BY <2>1, <2>3 DEF ParsedRowsApplied, Present, Successful
    <3>1. CASE r = current
      <4>1. pending = {}
        BY <2>1 DEF OrderInv, TypeInv, LocalsOK
      <4>2. current \in Nat
        BY <2>1, CurrentRow DEF OrderInv, BeforeMark, InRow, RowIds
      <4> QED BY <2>1, <3>1, <4>1, <4>2 DEF OrderInv, UpsertedSoFar, Row
    <3>2. CASE r # current
      BY <2>3, <3>2 DEF OrderInv, ParsedRowsApplied, Present
    <3> QED BY <3>1, <3>2
  <2> QED BY <1>0, <2>4, <2>5, <2>6, <2>7 DEF OrderInv
<1>7. CASE StripRow
  <2>1. /\ UNCHANGED <<postings, posting_versions, serial, configured>>
        /\ todo' = todo \ {current} /\ pc' \notin BeforeMark /\ pc = "strip"
    BY <1>7 DEF StripRow, BeforeMark
  <2>2. current \in DOMAIN raw_fetches
    BY <2>1, CurrentRow DEF OrderInv, BeforeMark, InRow
  <2>3. /\ DOMAIN raw_fetches' = DOMAIN raw_fetches
        /\ \A q \in DOMAIN raw_fetches :
              /\ raw_fetches'[q].payload = raw_fetches[q].payload
              /\ raw_fetches'[q].board = raw_fetches[q].board
              /\ raw_fetches'[q].parsed = raw_fetches[q].parsed
    BY <1>7, <2>2 DEF StripRow, OrderInv, TypeInv, TypeOK, RawFetch
  <2>4. /\ NothingAfterSerial' /\ NothingOvertaken' /\ DatesConsistent' /\ NoRowNoDates'
        /\ LatestCovers'
    BY <2>1, <2>3, RowsOnly
  <2>5. ParsedRowsApplied'
    BY <2>1, <2>3, AppliedKept DEF Successful
  <2>6. raw_fetches[current].parsed
    BY <2>1 DEF OrderInv, TypeInv, LocalsOK, Row
  <2>7. QueueOrder'
    <3> SUFFICES ASSUME NEW r \in todo, NEW q \in DOMAIN raw_fetches, q \notin todo \ {current},
                        ~ raw_fetches[q].parsed, Successful(q),
                        raw_fetches[q].board = raw_fetches[r].board
                 PROVE  r < q \/ LacksToken(raw_fetches[q].board)
      <4>1. todo \subseteq DOMAIN raw_fetches  BY DEF OrderInv, TypeInv, TypeOK
      <4> QED BY <2>1, <2>3, <4>1 DEF QueueOrder, Successful, LacksToken
    <3> QED BY <2>6 DEF OrderInv, QueueOrder
  <2>8. UpsertedSoFar'
    BY <2>1 DEF UpsertedSoFar
  <2> QED BY <1>0, <2>4, <2>5, <2>7, <2>8 DEF OrderInv
<1> QED BY <1>1, <1>2, <1>3, <1>4, <1>5, <1>6, <1>7 DEF ProcessRow

LEMMA OrderParserStep ==
    ASSUME OrderInv, ParserStep \/ Crash
    PROVE  OrderInv'
<1>0. TypeInv'  BY TypeParserStep DEF OrderInv
<1>1. CASE StartRun
  <2>1. /\ UNCHANGED <<raw_fetches, postings, posting_versions, serial>>
        /\ todo' = Unparsed /\ pc' = "row"
    BY <1>1 DEF StartRun, databaseVars
  <2>2. QueueOrder'
    BY <2>1 DEF QueueOrder, Unparsed
  <2>3. UpsertedSoFar'
    BY <2>1 DEF UpsertedSoFar, BeforeMark
  <2> QED BY <1>0, <2>1, <2>2, <2>3, OrderNoWrite
<1>2. ASSUME NEW r \in RowIds, SkipFailure(r) PROVE OrderInv'
  <2>1. /\ UNCHANGED <<postings, posting_versions, serial, configured, pc>>
        /\ todo' = todo \ {r} /\ raw_fetches' = SetParsed(r) /\ pc = "row"
        /\ r \in DOMAIN raw_fetches /\ ~ Successful(r)
    BY <1>2 DEF SkipFailure, IsNextRow, Successful, OrderInv, TypeInv, TypeOK
  <2>2. /\ DOMAIN raw_fetches' = DOMAIN raw_fetches
        /\ \A q \in DOMAIN raw_fetches :
              /\ raw_fetches'[q].payload = raw_fetches[q].payload
              /\ raw_fetches'[q].board = raw_fetches[q].board
              /\ raw_fetches'[q].parsed = (raw_fetches[q].parsed \/ q = r)
    BY <2>1, SetParsedType DEF OrderInv, TypeInv
  <2>3. /\ NothingAfterSerial' /\ NothingOvertaken' /\ DatesConsistent' /\ NoRowNoDates'
        /\ LatestCovers'
    BY <2>1, <2>2, RowsOnly
  <2>4. ParsedRowsApplied'
    BY <2>1, <2>2, AppliedKept DEF Successful
  <2>5. QueueOrder'
    <3> SUFFICES ASSUME NEW s \in todo, NEW q \in DOMAIN raw_fetches, q \notin todo \ {r},
                        ~ raw_fetches[q].parsed, Successful(q),
                        raw_fetches[q].board = raw_fetches[s].board
                 PROVE  s < q \/ LacksToken(raw_fetches[q].board)
      <4>1. todo \subseteq DOMAIN raw_fetches  BY DEF OrderInv, TypeInv, TypeOK
      <4> QED BY <2>1, <2>2, <4>1 DEF QueueOrder, Successful, LacksToken
    <3> QED BY <2>1 DEF OrderInv, QueueOrder
  <2>6. UpsertedSoFar'
    BY <2>1 DEF UpsertedSoFar, BeforeMark
  <2> QED BY <1>0, <2>3, <2>4, <2>5, <2>6 DEF OrderInv
<1>3. ASSUME NEW r \in RowIds, SkipUnconfigured(r) PROVE OrderInv'
  <2>1. /\ UNCHANGED <<raw_fetches, postings, posting_versions, serial, configured, pc>>
        /\ todo' = todo \ {r} /\ pc = "row" /\ LacksToken(raw_fetches[r].board)
    BY <1>3 DEF SkipUnconfigured, databaseVars
  <2>2. QueueOrder'
    BY <2>1 DEF OrderInv, QueueOrder, Successful, LacksToken
  <2>3. UpsertedSoFar'
    BY <2>1 DEF UpsertedSoFar, BeforeMark
  <2> QED BY <1>0, <2>1, <2>2, <2>3, OrderNoWrite
<1>4. CASE ProcessRow
  BY <1>4, OrderProcessRow
<1>5. CASE BeginReconcile
  <2>1. /\ UNCHANGED <<raw_fetches, postings, posting_versions, serial, todo>>
        /\ todo = {} /\ pc' = "reconcile"
    BY <1>5 DEF BeginReconcile, databaseVars
  <2>2. QueueOrder' /\ UpsertedSoFar'
    BY <2>1 DEF QueueOrder, UpsertedSoFar, BeforeMark
  <2> QED BY <1>0, <2>1, <2>2, OrderNoWrite
<1>6. ASSUME NEW b \in Boards, CloseOrphaned(b) PROVE OrderInv'
  <2> DEFINE S == {i \in Ids : Closable(postings[b][i])}
             at == [i \in S |-> postings[b][i].last_seen_at]
  <2>1. /\ UNCHANGED <<raw_fetches, posting_versions, serial, current, todo, pc>>
        /\ pc = "reconcile"
    BY <1>6 DEF CloseOrphaned
  <2>2. todo = {}
    BY <2>1 DEF OrderInv, TypeInv, LocalsOK
  <2>3. \A c \in Boards, i \in Ids :
           postings'[c][i] = IF c = b /\ i \in S THEN Closed(postings[c][i], at[i])
                             ELSE postings[c][i]
    BY <1>6 DEF CloseOrphaned, OrphanClosedAt, OrderInv, TypeInv, TypeOK
  <2>4. \A i \in S : at[i] = postings[b][i].last_seen_at
    OBVIOUS
  <2>5. \A i \in S : postings[b][i].last_seen_at \in Nat \ {NoTime}
    <3> TAKE i \in S
    <3>1. Exists(postings[b][i])
      BY DEF OrderInv, NoRowNoDates, Present, Closable
    <3>2. postings[b][i].first_seen_at <= postings[b][i].last_seen_at
      BY <3>1 DEF OrderInv, DatesConsistent, Present
    <3> QED BY <3>1, <3>2, DateType DEF OrderInv, TypeInv, Exists, NoTime
  <2>6. at \in [S -> Nat \ {NoTime}]
    BY <2>5
  <2>7. \A i \in S : /\ Closable(postings[b][i])
                     /\ at[i] <= serial /\ postings[b][i].last_seen_at <= at[i]
    BY <2>4, <2>5 DEF OrderInv, NothingAfterSerial, NothingAfter
  <2>8. \A i \in S, r \in DOMAIN raw_fetches :
           /\ ~ raw_fetches[r].parsed \/ IsLatestRowOf(b, r)
           /\ Successful(r) /\ raw_fetches[r].board = b
           => at[i] <= r
    BY <2>4 DEF OrderInv, NothingOvertaken, LatestCovers, NothingAfter
  <2>9. /\ NothingAfterSerial' /\ NothingOvertaken' /\ DatesConsistent'
        /\ ParsedRowsApplied' /\ NoRowNoDates' /\ LatestCovers'
    <3> HIDE DEF at, S
    <3>1. S \in SUBSET Ids  BY DEF S
    <3> QED BY <1>0, <2>1, <2>3, <2>6, <2>7, <2>8, <3>1, OrderClose
  <2>10. QueueOrder' /\ UpsertedSoFar'
    BY <2>1, <2>2 DEF QueueOrder, UpsertedSoFar, BeforeMark
  <2> QED BY <1>0, <2>9, <2>10 DEF OrderInv
<1>7. ASSUME NEW t \in 1..(MaxFetches + 1), DeleteOldParsed(t) PROVE OrderInv'
  <2>1. /\ UNCHANGED <<postings, posting_versions, serial, todo>> /\ todo = {} /\ pc' = "idle"
        /\ raw_fetches' = [r \in {q \in DOMAIN raw_fetches : ~ Expired(q, t)} |-> raw_fetches[r]]
    BY <1>7 DEF DeleteOldParsed, localVars, OrderInv, TypeInv, LocalsOK
  <2>2. \A r \in DOMAIN raw_fetches' : r \in DOMAIN raw_fetches /\ raw_fetches'[r] = raw_fetches[r]
    BY <2>1
  <2>6. \A r \in DOMAIN raw_fetches \ DOMAIN raw_fetches', q \in DOMAIN raw_fetches' :
           q < r => ~ raw_fetches[q].parsed
    <3>1. DOMAIN raw_fetches \subseteq Nat
      BY RowType DEF OrderInv, TypeInv, RowIds
    <3> QED BY <2>1, <3>1 DEF Expired
  <2>3. /\ NothingAfterSerial' /\ NothingOvertaken' /\ DatesConsistent' /\ NoRowNoDates'
        /\ LatestCovers'
    BY <2>1, <2>2, <2>6, RowsOnly
  <2>4. ParsedRowsApplied'
    BY <2>1, <2>2, AppliedKept DEF Successful
  <2>5. QueueOrder' /\ UpsertedSoFar'
    BY <2>1 DEF QueueOrder, UpsertedSoFar, BeforeMark
  <2> QED BY <1>0, <2>3, <2>4, <2>5 DEF OrderInv
<1>8. CASE Crash
  <2>1. /\ UNCHANGED <<raw_fetches, postings, posting_versions, serial>>
        /\ todo' = {} /\ pc' = "idle"
    BY <1>8 DEF Crash, databaseVars
  <2>2. QueueOrder' /\ UpsertedSoFar'
    BY <2>1 DEF QueueOrder, UpsertedSoFar, BeforeMark
  <2> QED BY <1>0, <2>1, <2>2, OrderNoWrite
<1> QED BY <1>1, <1>2, <1>3, <1>4, <1>5, <1>6, <1>7, <1>8 DEF ParserStep

(* Only the last row of a board is parsed again: what was observed since is *)
(* nothing.                                                                 *)
LEMMA OrderDetailStep ==
    ASSUME OrderInv, DetailStep
    PROVE  OrderInv'
<1>0. TypeInv'  BY TypeDetailStep DEF OrderInv
<1>1. /\ UNCHANGED <<postings, posting_versions, serial>> /\ todo' = {}
      /\ pc' \in {"idle", "details"}
      /\ \/ UNCHANGED raw_fetches
         \/ \E b \in TwoStage : MarkLatestRawFetchUnparsed(b)
  <2>1. UNCHANGED <<postings, posting_versions, serial, todo>> /\ pc' \in {"idle", "details"}
    BY DEF DetailStep, StartDetails, StoreDetail, MarkLatestRawFetchUnparsed, EndDetails,
       databaseVars
  <2>2. pc \in {"idle", "details"}
    BY DEF DetailStep, StartDetails, StoreDetail, MarkLatestRawFetchUnparsed, EndDetails
  <2>3. todo = {}
    BY <2>2 DEF OrderInv, TypeInv, LocalsOK
  <2> QED BY <2>1, <2>3 DEF DetailStep, StartDetails, StoreDetail, EndDetails, databaseVars
<1>2. QueueOrder' /\ UpsertedSoFar'
  BY <1>1 DEF QueueOrder, UpsertedSoFar, BeforeMark
<1>3. CASE UNCHANGED raw_fetches
  BY <1>0, <1>1, <1>2, <1>3, OrderNoWrite
<1>4. ASSUME NEW b \in TwoStage, MarkLatestRawFetchUnparsed(b) PROVE OrderInv'
  <2>1. b \in Boards  BY BoardsAssumption
  <2>2. /\ DOMAIN raw_fetches' = DOMAIN raw_fetches
        /\ \A r \in DOMAIN raw_fetches :
              /\ raw_fetches'[r].board = raw_fetches[r].board
              /\ raw_fetches'[r].payload = raw_fetches[r].payload
              /\ raw_fetches'[r].parsed = (raw_fetches[r].parsed /\ ~ IsLatestRowOf(b, r))
    BY <1>4 DEF MarkLatestRawFetchUnparsed, OrderInv, TypeInv, TypeOK, RawFetch
  <2>3. NothingOvertaken'
    <3> SUFFICES ASSUME NEW r \in DOMAIN raw_fetches, ~ raw_fetches'[r].parsed, Successful(r)
                 PROVE  NothingAfter(raw_fetches[r].board, r)
      BY <1>1, <2>2 DEF NothingOvertaken, NothingAfter, Successful
    <3>1. CASE IsLatestRowOf(b, r)
      BY <2>1, <3>1 DEF OrderInv, LatestCovers, IsLatestRowOf
    <3>2. CASE ~ raw_fetches[r].parsed
      BY <3>2 DEF OrderInv, NothingOvertaken
    <3> QED BY <2>2, <3>1, <3>2
  <2>4. NothingAfterSerial' /\ DatesConsistent' /\ NoRowNoDates'
    BY <1>1 DEF OrderInv, NothingAfterSerial, NothingAfter, DatesConsistent, NoRowNoDates, Present
  <2>5. ParsedRowsApplied'
    BY <1>1, <2>2, AppliedKept DEF Successful
  <2>6. LatestCovers'
    BY <1>1, <2>2 DEF OrderInv, LatestCovers, NothingAfter, IsLatestRowOf, Successful
  <2> QED BY <1>0, <1>2, <2>3, <2>4, <2>5, <2>6 DEF OrderInv
<1> QED BY <1>1, <1>3, <1>4

LEMMA OrderStutter ==
    ASSUME OrderInv, UNCHANGED vars
    PROVE  OrderInv'
<1>1. TypeInv'  BY TypeStutter DEF OrderInv
<1>2. QueueOrder' /\ UpsertedSoFar'
  BY DEF OrderInv, QueueOrder, UpsertedSoFar, vars, Successful, LacksToken, Row, RowText, Text
<1> QED BY <1>1, <1>2, OrderNoWrite DEF vars

LEMMA OrderInvariant == Spec => []OrderInv
<1>1. OrderInv /\ [Next]_vars => OrderInv'
  BY OrderEnvironment, OrderParserStep, OrderDetailStep, OrderStutter DEF Next
<1> QED BY OrderInit, <1>1, PTL DEF Spec

-----------------------------------------------------------------------------
(* What follows from it.                                                   *)

(* While a successful fetch waits to be parsed, its board's postings and     *)
(* versions hold nothing observed after it.                                  *)
THEOREM NeverOvertaken == Spec => []NothingOvertaken
<1>1. OrderInv => NothingOvertaken  BY DEF OrderInv
<1> QED BY OrderInvariant, <1>1, PTL

(* first_seen_at, last_seen_at and closed_at of a posting stay in order.     *)
THEOREM DatesStayConsistent == Spec => []DatesConsistent
<1>1. OrderInv => DatesConsistent  BY DEF OrderInv
<1> QED BY OrderInvariant, <1>1, PTL

(* A row marked parsed has been applied in full, also after interrupted runs. *)
THEOREM ParsedMeansApplied == Spec => []ParsedRowsApplied
<1>1. OrderInv => ParsedRowsApplied  BY DEF OrderInv
<1> QED BY OrderInvariant, <1>1, PTL

-----------------------------------------------------------------------------
(* ParseRun keeps the promises of PostingLifecycle: every step of it leaves*)
(* each posting alone, observes it or closes it, as that module allows.    *)

(* A posting seen at t, which is not before it was last seen.              *)
Observes(b, i, t) ==
    /\ postings[b][i].last_seen_at <= t
    /\ \E c \in Texts : postings'[b][i] = Upserted(postings[b][i], t, c)

(* A posting closed at t for the first time.                               *)
Closes(b, i, t) ==
    /\ Closable(postings[b][i]) /\ postings[b][i].last_seen_at <= t
    /\ postings'[b][i] = Closed(postings[b][i], t)

PostingStep(b, i) ==
    \/ postings'[b][i] = postings[b][i]
    \/ \E t \in RowIds : Observes(b, i, t) \/ Closes(b, i, t)

-----------------------------------------------------------------------------

LEMMA UpsertSteps ==
    ASSUME OrderInv, NEW C \in SUBSET pending, UpsertChunk(C),
           NEW b \in Boards, NEW i \in Ids
    PROVE  PostingStep(b, i)
<1>1. pc \in BeforeMark /\ pc \in InRow
  BY DEF UpsertChunk, BeforeMark, InRow
<1>2. /\ current \in DOMAIN raw_fetches /\ current \in RowIds /\ ~ raw_fetches[current].parsed
      /\ Successful(current) /\ Row.payload \in Payloads /\ C \subseteq DOMAIN Row.payload
  BY <1>1, CurrentRow DEF OrderInv, TypeInv, LocalsOK, Row
<1>3. CASE b = Row.board /\ i \in C
  <2>1. postings[b][i].last_seen_at <= current
    BY <1>2, <1>3 DEF OrderInv, NothingOvertaken, NothingAfter, Row
  <2>2. RowText(i) \in Texts
    BY <1>2, <1>3, TextType DEF OrderInv, TypeInv, RowText
  <2>3. postings'[b][i] = Upserted(postings[b][i], current, RowText(i))
    BY <1>3 DEF UpsertChunk, OrderInv, TypeInv, TypeOK
  <2> QED BY <1>2, <2>1, <2>2, <2>3 DEF PostingStep, Observes
<1>4. CASE ~ (b = Row.board /\ i \in C)
  <2>1. postings'[b][i] = postings[b][i]
    BY <1>4 DEF UpsertChunk, OrderInv, TypeInv, TypeOK
  <2> QED BY <2>1 DEF PostingStep
<1> QED BY <1>3, <1>4

LEMMA CloseMissingSteps ==
    ASSUME OrderInv, CloseMissing, NEW b \in Boards, NEW i \in Ids
    PROVE  PostingStep(b, i)
<1>1. pc \in BeforeMark /\ pc \in InRow
  BY DEF CloseMissing, BeforeMark, InRow
<1>2. /\ current \in DOMAIN raw_fetches /\ current \in RowIds /\ ~ raw_fetches[current].parsed
      /\ Successful(current)
  BY <1>1, CurrentRow DEF OrderInv, Row
<1>3. CASE b = Row.board /\ Closable(postings[b][i]) /\ i \notin DOMAIN Row.payload
  <2>1. postings[b][i].last_seen_at <= current
    BY <1>2, <1>3 DEF OrderInv, NothingOvertaken, NothingAfter, Row
  <2>2. postings'[b][i] = Closed(postings[b][i], current)
    BY <1>3 DEF CloseMissing, OrderInv, TypeInv, TypeOK
  <2> QED BY <1>2, <1>3, <2>1, <2>2 DEF PostingStep, Closes
<1>4. CASE ~ (b = Row.board /\ Closable(postings[b][i]) /\ i \notin DOMAIN Row.payload)
  <2>1. postings'[b][i] = postings[b][i]
    BY <1>4 DEF CloseMissing, OrderInv, TypeInv, TypeOK
  <2> QED BY <2>1 DEF PostingStep
<1> QED BY <1>3, <1>4

LEMMA CloseOrphanedSteps ==
    ASSUME OrderInv, NEW d \in Boards, CloseOrphaned(d), NEW b \in Boards, NEW i \in Ids
    PROVE  PostingStep(b, i)
<1> DEFINE t == postings[b][i].last_seen_at
<1>1. CASE b = d /\ Closable(postings[b][i])
  <2>1. Exists(postings[b][i])
    BY <1>1 DEF OrderInv, NoRowNoDates, Present, Closable
  <2>2. postings[b][i].first_seen_at <= t
    BY <2>1 DEF OrderInv, DatesConsistent, Present
  <2>3. postings[b][i] \in Posting  BY DateType DEF OrderInv, TypeInv
  <2>4. t \in RowIds
    BY <2>1, <2>2, <2>3, BoundsAssumption DEF Posting, Exists, NoTime, Times, RowIds
  <2>5. postings'[b][i] = Closed(postings[b][i], t)
    BY <1>1 DEF CloseOrphaned, OrphanClosedAt, OrderInv, TypeInv, TypeOK
  <2>6. t <= t  BY <2>4 DEF RowIds
  <2> QED BY <1>1, <2>4, <2>5, <2>6 DEF PostingStep, Closes
<1>2. CASE ~ (b = d /\ Closable(postings[b][i]))
  <2>1. postings'[b][i] = postings[b][i]
    BY <1>2 DEF CloseOrphaned, OrderInv, TypeInv, TypeOK
  <2> QED BY <2>1 DEF PostingStep
<1> QED BY <1>1, <1>2

(* Every step of the specification is one of the three for every posting.  *)
LEMMA EveryStep ==
    ASSUME OrderInv, [Next]_vars, NEW b \in Boards, NEW i \in Ids
    PROVE  PostingStep(b, i)
<1>1. CASE UNCHANGED postings
  BY <1>1 DEF PostingStep
<1>2. CASE \E C \in SUBSET pending : UpsertChunk(C)
  BY <1>2, UpsertSteps
<1>3. CASE CloseMissing
  BY <1>3, CloseMissingSteps
<1>4. CASE \E d \in Boards : CloseOrphaned(d)
  BY <1>4, CloseOrphanedSteps
<1>5. Environment \/ DetailStep \/ Crash => UNCHANGED postings
  BY DEF Environment, NewDay, EditCompanies, IngestFailure, IngestPayload, InsertRawFetch,
     DetailStep, StartDetails, StoreDetail, MarkLatestRawFetchUnparsed, EndDetails,
     Crash, databaseVars
<1>6. ProcessRow => \/ \E C \in SUBSET pending : UpsertChunk(C)
                    \/ CloseMissing
                    \/ UNCHANGED postings
  BY DEF ProcessRow, BeginRow, AppendChunk, SkipCloseDetection, MarkParsed, StripRow, databaseVars
<1>7. ParserStep => \/ ProcessRow
                    \/ \E d \in Boards : CloseOrphaned(d)
                    \/ UNCHANGED postings
  BY DEF ParserStep, StartRun, SkipFailure, SkipUnconfigured, BeginReconcile, DeleteOldParsed,
     databaseVars
<1> QED BY <1>1, <1>2, <1>3, <1>4, <1>5, <1>6, <1>7 DEF Next, vars

-----------------------------------------------------------------------------
(* The state of the abstract specification, now and after the step.        *)
Life     == [k \in Boards \X Ids |-> DatesOf(postings[k[1]][k[2]])]
NextLife == [k \in Boards \X Ids |-> DatesOf(postings'[k[1]][k[2]])]

LEMMA LifeAt ==
    ASSUME NEW b \in Boards, NEW i \in Ids
    PROVE  /\ Life[<<b, i>>] = DatesOf(postings[b][i])
           /\ NextLife[<<b, i>>] = DatesOf(postings'[b][i])
BY DEF Life, NextLife

LEMMA DatesOfUpserted ==
    ASSUME NEW p, NEW t, NEW c
    PROVE  DatesOf(Upserted(p, t, c)) =
              [first_seen_at |-> IF DatesOf(p).first_seen_at = 0 THEN t
                                 ELSE DatesOf(p).first_seen_at,
               last_seen_at  |-> t,
               is_open       |-> TRUE,
               closed_at     |-> DatesOf(p).closed_at]
<1> DEFINE first == IF p.first_seen_at = 0 THEN t ELSE p.first_seen_at
           same  == IF DatesOf(p).first_seen_at = 0 THEN t ELSE DatesOf(p).first_seen_at
           u == Upserted(p, t, c)
<1>1. u = [first_seen_at |-> first, last_seen_at |-> t, is_open |-> TRUE,
           closed_at |-> p.closed_at, content |-> c]
  <2>1. (IF Exists(p) THEN p.first_seen_at ELSE t) = first
    BY DEF Exists, NoTime
  <2> HIDE DEF first
  <2> QED BY <2>1 DEF Upserted
<1>2. DatesOf(p).first_seen_at = p.first_seen_at /\ DatesOf(p).closed_at = p.closed_at
  BY DEF DatesOf
<1>3. same = first
  BY <1>2
<1> HIDE DEF first, same, u
<1>4. u.first_seen_at = first /\ u.last_seen_at = t /\ u.is_open /\ u.is_open = TRUE
        /\ u.closed_at = p.closed_at
  BY <1>1
<1>5. DatesOf(u) = [first_seen_at |-> first, last_seen_at |-> t, is_open |-> TRUE,
                    closed_at |-> p.closed_at]
  BY <1>4 DEF DatesOf
<1>6. DatesOf(u) = [first_seen_at |-> same, last_seen_at |-> t, is_open |-> TRUE,
                    closed_at |-> DatesOf(p).closed_at]
  BY <1>2, <1>3, <1>5
<1> QED BY <1>6 DEF u, same

LEMMA DatesOfClosed ==
    ASSUME NEW p \in Posting, NEW t \in Times
    PROVE  DatesOf(Closed(p, t)) = [DatesOf(p) EXCEPT !.is_open = FALSE, !.closed_at = t]
<1> DEFINE Dates == [first_seen_at : Times, last_seen_at : Times,
                     is_open : BOOLEAN, closed_at : Times]
           c == Closed(p, t)
           d == DatesOf(p)
           e == [d EXCEPT !.is_open = FALSE, !.closed_at = t]
<1>1. /\ c.first_seen_at = p.first_seen_at /\ c.last_seen_at = p.last_seen_at
      /\ c.is_open = FALSE /\ c.closed_at = t
  BY DEF Closed, Posting
<1>2. /\ d \in Dates
      /\ d.first_seen_at = p.first_seen_at /\ d.last_seen_at = p.last_seen_at
  BY DEF DatesOf, Posting
<1> HIDE DEF c, d
<1>3. /\ e \in Dates
      /\ e.first_seen_at = p.first_seen_at /\ e.last_seen_at = p.last_seen_at
      /\ e.is_open = FALSE /\ e.closed_at = t
  BY <1>2
<1>4. /\ DatesOf(c) \in Dates
      /\ DatesOf(c).first_seen_at = p.first_seen_at /\ DatesOf(c).last_seen_at = p.last_seen_at
      /\ DatesOf(c).is_open = FALSE /\ DatesOf(c).closed_at = t
  BY <1>1 DEF DatesOf, Posting
<1> HIDE DEF e
<1>5. DatesOf(c) = e
  BY <1>3, <1>4
<1> QED BY <1>5 DEF c, d, e

LEMMA ObserveMaps ==
    ASSUME NEW b \in Boards, NEW i \in Ids, NEW t \in RowIds, Observes(b, i, t)
    PROVE  Lifecycle!Observe(<<b, i>>, t)
<1> DEFINE k == <<b, i>>
           p == postings[b][i]
<1>1. PICK c \in Texts : postings'[b][i] = Upserted(p, t, c)
  BY DEF Observes
<1>2. Life[k] = DatesOf(p) /\ NextLife[k] = DatesOf(Upserted(p, t, c))
  BY <1>1, LifeAt
<1>3. DatesOf(p).last_seen_at <= t
  BY DEF Observes, DatesOf
<1>4. NextLife[k] = [first_seen_at |-> IF Life[k].first_seen_at = 0 THEN t
                                       ELSE Life[k].first_seen_at,
                     last_seen_at  |-> t,
                     is_open       |-> TRUE,
                     closed_at     |-> Life[k].closed_at]
  BY <1>2, DatesOfUpserted
<1>5. Life[k].last_seen_at <= t
  BY <1>2, <1>3
<1> QED BY <1>4, <1>5 DEF Lifecycle!Observe, Lifecycle!Never, Life, NextLife

LEMMA CloseMaps ==
    ASSUME NEW b \in Boards, NEW i \in Ids, NEW t \in RowIds, Closes(b, i, t),
           postings[b][i] \in Posting
    PROVE  Lifecycle!Close(<<b, i>>, t)
<1> DEFINE k == <<b, i>>
           p == postings[b][i]
<1>1. Life[k] = DatesOf(p) /\ NextLife[k] = DatesOf(Closed(p, t))
  BY LifeAt DEF Closes
<1> t \in Times
  BY BoundsAssumption DEF RowIds, Times
<1>2. DatesOf(p).is_open /\ DatesOf(p).closed_at = 0 /\ DatesOf(p).last_seen_at <= t
  BY DEF Closes, Closable, DatesOf, NoTime
<1>3. NextLife[k] = [Life[k] EXCEPT !.is_open = FALSE, !.closed_at = t]
  BY <1>1, DatesOfClosed
<1>4. Life[k].is_open /\ Life[k].closed_at = 0 /\ Life[k].last_seen_at <= t
  BY <1>1, <1>2
<1> QED BY <1>3, <1>4 DEF Lifecycle!Close, Lifecycle!Never, Life, NextLife

LEMMA LifecycleInit == Init => Lifecycle!Init
<1> SUFFICES ASSUME Init PROVE Lifecycle!Init
  OBVIOUS
<1>1. ASSUME NEW b \in Boards, NEW i \in Ids
      PROVE  DatesOf(postings[b][i]) = Lifecycle!Unseen
  <2>1. postings[b][i] = Absent  BY DEF Init
  <2> QED BY <2>1 DEF DatesOf, Absent, NoTime, Lifecycle!Unseen, Lifecycle!Never
<1>2. \A k \in Boards \X Ids : DatesOf(postings[k[1]][k[2]]) = Lifecycle!Unseen
  BY <1>1
<1> HIDE DEF DatesOf, Lifecycle!Unseen
<1> QED BY <1>2 DEF Lifecycle!Init

LEMMA LifecycleStep ==
    ASSUME OrderInv, OrderInv', [Next]_vars
    PROVE  Lifecycle!Next
<1>1. NextLife \in [Boards \X Ids -> Lifecycle!Dates]
  <2> SUFFICES ASSUME NEW b \in Boards, NEW i \in Ids
               PROVE  DatesOf(postings'[b][i]) \in Lifecycle!Dates
    BY DEF NextLife
  <2>1. postings'[b][i] \in Posting
    BY DEF OrderInv, TypeInv, TypeOK
  <2> QED BY <2>1, BoundsAssumption
          DEF DatesOf, Posting, Lifecycle!Dates, Lifecycle!Never, Times, RowIds
<1>2. ASSUME NEW b \in Boards, NEW i \in Ids
      PROVE  \/ NextLife[<<b, i>>] = Life[<<b, i>>]
             \/ \E t \in RowIds : Lifecycle!Observe(<<b, i>>, t) \/ Lifecycle!Close(<<b, i>>, t)
  <2>1. PostingStep(b, i)  BY EveryStep
  <2>2. postings[b][i] \in Posting  BY DateType DEF OrderInv, TypeInv
  <2> QED BY <2>1, <2>2, LifeAt, ObserveMaps, CloseMaps DEF PostingStep
<1>3. \A k \in Boards \X Ids :
         \/ NextLife[k] = Life[k]
         \/ \E t \in RowIds : Lifecycle!Observe(k, t) \/ Lifecycle!Close(k, t)
  BY <1>2
<1> QED BY <1>1, <1>3 DEF Lifecycle!Next, Life, NextLife

(* However rows are parsed, boards dropped and re-added, rows deleted and     *)
(* runs interrupted: a posting is never deleted, its first_seen_at and its    *)
(* closed_at are written once, it is never seen earlier than before and is    *)
(* closed no earlier than it was last seen.                                   *)
THEOREM ParseRunKeepsLifecycle == Spec => KeepsLifecycle
<1>1. OrderInv /\ OrderInv' /\ [Next]_vars
        => [Lifecycle!Next]_([k \in Boards \X Ids |-> DatesOf(postings[k[1]][k[2]])])
  BY LifecycleStep
<1> QED BY LifecycleInit, <1>1, OrderInvariant, PTL DEF Spec, KeepsLifecycle, Lifecycle!Spec
=============================================================================
