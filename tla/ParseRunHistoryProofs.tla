----------------------- MODULE ParseRunHistoryProofs -----------------------
(***************************************************************************)
(* What the archive remembers: theorems about ParseRun, with rebuilds from  *)
(* its rows (FullRebuild), that relate its tables to the fetches they were  *)
(* made from - versions, closes, anomalies, open postings, and what         *)
(* stripping and retention may take away.                                   *)
(***************************************************************************)
EXTENDS ParseRunProofs, FullRebuild

-----------------------------------------------------------------------------
(* What a step does to each table.  The invariants below are argued from    *)
(* these effects, whichever action has them.                                *)

SameFetch(r) ==
    /\ raw_fetches'[r].board = raw_fetches[r].board
    /\ raw_fetches'[r].day = raw_fetches[r].day
    /\ raw_fetches'[r].payload = raw_fetches[r].payload
    /\ raw_fetches'[r].items = raw_fetches[r].items

(* The row that a details run has parsed again.                            *)
Flagged(r) ==
    /\ pc = "details" /\ raw_fetches[r].board \in TwoStage
    /\ IsLatestRowOf(raw_fetches[r].board, r)

(* A row is inserted after all others; it keeps what was fetched; it is     *)
(* marked once it has been worked on, and unmarked if it is its board's     *)
(* last; and a parsed row older than a deleted one goes with it.            *)
RowEffect ==
    /\ \A r \in DOMAIN raw_fetches' \cap DOMAIN raw_fetches :
          /\ SameFetch(r)
          /\ raw_fetches[r].parsed => raw_fetches'[r].parsed \/ Flagged(r)
          /\ raw_fetches'[r].parsed /\ ~ raw_fetches[r].parsed /\ Successful(r)
             => pc = "mark" /\ r = current /\ current' = current
          /\ raw_fetches[r].stripped => raw_fetches'[r].stripped
          /\ raw_fetches'[r].stripped /\ ~ raw_fetches[r].stripped
             => pc = "strip" /\ r = current /\ raw_fetches[r].board \notin TwoStage
    /\ \A r \in DOMAIN raw_fetches' \ DOMAIN raw_fetches :
          /\ r = serial + 1 /\ ~ raw_fetches'[r].parsed /\ ~ raw_fetches'[r].stripped
          /\ raw_fetches'[r].day = day
          /\ UNCHANGED <<day, postings, posting_versions, feed_anomalies, pc, localVars, skipped>>
    /\ \A r \in DOMAIN raw_fetches \ DOMAIN raw_fetches' :
          /\ pc = "reconcile" /\ pc' = "idle" /\ raw_fetches[r].parsed
          /\ \A q \in DOMAIN raw_fetches : raw_fetches[q].parsed /\ q < r => q \notin DOMAIN raw_fetches'

UpsertEffect(b, i) ==
    /\ pc = "upsert" /\ b = Row.board /\ i \in DOMAIN Row.payload
    /\ pc' \in BeforeMark /\ appends' = appends
    /\ postings'[b][i] = Upserted(postings[b][i], current, RowText(i))

MissingEffect(b, i) ==
    /\ pc = "guard" /\ b = Row.board /\ i \notin DOMAIN Row.payload
    /\ ~ GuardTripped(CurrentCount, previous)
    /\ postings'[b][i] = Closed(postings[b][i], current)

OrphanEffect(b, i) ==
    /\ pc = "reconcile" /\ Closable(postings[b][i])
    /\ postings'[b][i] = Closed(postings[b][i], postings[b][i].last_seen_at)

PostingEffect(b, i) ==
    \/ postings'[b][i] = postings[b][i]
    \/ UpsertEffect(b, i) \/ MissingEffect(b, i) \/ OrphanEffect(b, i)

AppendEffect(b, i) ==
    /\ pc = "append" /\ b = Row.board /\ i \in appends \ appends' /\ UNCHANGED postings
    /\ posting_versions'[b][i] =
          Append(posting_versions[b][i], [observed_at |-> current, content |-> RowText(i)])

VersionEffect(b, i) ==
    posting_versions'[b][i] = posting_versions[b][i] \/ AppendEffect(b, i)

(* process_row starts on a row, or goes on with the one it has.            *)
RowBegins ==
    /\ pc = "row" /\ current' \in Unparsed /\ Successful(current') /\ current = NoRow
    /\ previous' = PreviousCount(current')
    /\ pending' = DOMAIN raw_fetches[current'].payload
    /\ appends' = ChangedIds(raw_fetches[current'].board, raw_fetches[current'].payload)
    /\ UNCHANGED <<raw_fetches, raw_details, postings, posting_versions>>

RowGoesOn ==
    /\ pc \in BeforeMark /\ current' = current /\ previous' = previous
    /\ UNCHANGED raw_details
    /\ pending' \subseteq pending /\ \A i \in pending \ pending' : UpsertEffect(Row.board, i)
    /\ appends' \subseteq appends /\ \A i \in appends \ appends' : AppendEffect(Row.board, i)

LocalEffect == pc' \in BeforeMark => RowBegins \/ RowGoesOn

-----------------------------------------------------------------------------
LEMMA RowEffects == OrderInv /\ [Next]_vars => RowEffect
<1> SUFFICES ASSUME OrderInv, [Next]_vars PROVE RowEffect
  OBVIOUS
<1>0. /\ raw_fetches \in [DOMAIN raw_fetches -> RawFetch]
      /\ DOMAIN raw_fetches \subseteq 1..serial /\ serial \in Nat
      /\ \A r \in DOMAIN raw_fetches : raw_fetches[r] \in RawFetch /\ r \in Nat
  BY RowType, BoundsAssumption DEF OrderInv, TypeInv, TypeOK, Times, RowIds
<1>1. CASE UNCHANGED raw_fetches
  BY <1>1 DEF RowEffect, SameFetch
<1>2. ASSUME NEW b \in Boards, NEW p \in Payloads \cup {NoPayload}, NEW n \in Nat,
             InsertRawFetch(b, p, n)
      PROVE  RowEffect
  <2>1. /\ raw_fetches' = [r \in DOMAIN raw_fetches \cup {serial + 1} |->
                              IF r = serial + 1 THEN NewRow(b, p, n) ELSE raw_fetches[r]]
        /\ serial + 1 \notin DOMAIN raw_fetches
    BY <1>0, <1>2 DEF InsertRawFetch
  <2>2. /\ DOMAIN raw_fetches' = DOMAIN raw_fetches \cup {serial + 1}
        /\ \A r \in DOMAIN raw_fetches : raw_fetches'[r] = raw_fetches[r]
        /\ raw_fetches'[serial + 1] = NewRow(b, p, n)
    BY <2>1
  <2> QED BY <1>2, <2>2 DEF RowEffect, SameFetch, InsertRawFetch, NewRow
<1>3. ASSUME NEW b \in Boards, IngestFailure(b) PROVE RowEffect
  BY <1>2, <1>3 DEF IngestFailure
<1>4. ASSUME NEW b \in Boards, IngestPayload(b) PROVE RowEffect
  <2>1. PICK p \in Payloads, extra \in 0..MaxDuplicates :
           InsertRawFetch(b, p, Cardinality(DOMAIN p) + extra)
    BY <1>4 DEF IngestPayload
  <2>2. Cardinality(DOMAIN p) + extra \in Nat
    BY PayloadType, BoundsAssumption
  <2> QED BY <1>2, <2>1, <2>2
<1>5. ASSUME NEW r \in RowIds, SkipFailure(r) PROVE RowEffect
  <2>1. r \in DOMAIN raw_fetches /\ ~ Successful(r)
    BY <1>5 DEF SkipFailure, IsNextRow, OrderInv, TypeInv, TypeOK, Successful
  <2> QED BY <1>0, <1>5, <2>1 DEF SkipFailure, SetParsed, RowEffect, SameFetch, RawFetch
<1>6. CASE MarkParsed
  <2>1. current \in DOMAIN raw_fetches
    BY <1>6, CurrentRow DEF MarkParsed, OrderInv, BeforeMark, InRow
  <2> QED BY <1>0, <1>6, <2>1
          DEF MarkParsed, SetParsed, RowEffect, SameFetch, RawFetch, localVars
<1>7. CASE StripRow
  <2>1. current \in DOMAIN raw_fetches
    BY <1>7, CurrentRow DEF StripRow, OrderInv, BeforeMark, InRow
  <2> QED BY <1>0, <1>7, <2>1
          DEF StripRow, StripsRow, CarriesText, Row, RowEffect, SameFetch, RawFetch
<1>8. ASSUME NEW t \in 1..(MaxFetches + 1), DeleteOldParsed(t) PROVE RowEffect
  <2>1. raw_fetches' = [r \in {q \in DOMAIN raw_fetches : ~ Expired(q, t)} |-> raw_fetches[r]]
    BY <1>8 DEF DeleteOldParsed
  <2>2. t \in Nat
    BY BoundsAssumption
  <2> QED BY <1>0, <1>8, <2>1, <2>2 DEF DeleteOldParsed, Expired, RowEffect, SameFetch
<1>9. /\ NewDay => UNCHANGED raw_fetches
      /\ \A b \in Configurable : EditCompanies(b) => UNCHANGED raw_fetches
      /\ StartRun => UNCHANGED raw_fetches
      /\ \A r \in RowIds : SkipUnconfigured(r) => UNCHANGED raw_fetches
      /\ \A r \in RowIds : BeginRow(r) => UNCHANGED raw_fetches
      /\ \A C \in SUBSET pending : UpsertChunk(C) => UNCHANGED raw_fetches
      /\ \A C \in SUBSET appends : AppendChunk(C) => UNCHANGED raw_fetches
      /\ SkipCloseDetection => UNCHANGED raw_fetches
      /\ CloseMissing => UNCHANGED raw_fetches
      /\ BeginReconcile => UNCHANGED raw_fetches
      /\ \A b \in Boards : CloseOrphaned(b) => UNCHANGED raw_fetches
      /\ StartDetails \/ EndDetails => UNCHANGED raw_fetches
      /\ \A b \in TwoStage, i \in Ids : StoreDetail(b, i) => UNCHANGED raw_fetches
      /\ Crash => UNCHANGED raw_fetches
      /\ UNCHANGED vars => UNCHANGED raw_fetches
  BY DEF NewDay, EditCompanies, StartRun, SkipUnconfigured, BeginRow, UpsertChunk, AppendChunk,
     SkipCloseDetection, CloseMissing, BeginReconcile, CloseOrphaned, StartDetails, StoreDetail,
     EndDetails, Crash, vars, databaseVars
<1>10. ASSUME NEW b \in TwoStage, MarkLatestRawFetchUnparsed(b) PROVE RowEffect
  <2>1. /\ DOMAIN raw_fetches' = DOMAIN raw_fetches /\ pc = "details"
        /\ \A r \in DOMAIN raw_fetches :
              raw_fetches'[r] = IF IsLatestRowOf(b, r) THEN [raw_fetches[r] EXCEPT !.parsed = FALSE]
                                ELSE raw_fetches[r]
    BY <1>10 DEF MarkLatestRawFetchUnparsed
  <2>2. \A r \in DOMAIN raw_fetches :
           /\ SameFetch(r) /\ raw_fetches'[r].stripped = raw_fetches[r].stripped
           /\ raw_fetches'[r].parsed = (raw_fetches[r].parsed /\ ~ IsLatestRowOf(b, r))
    BY <1>0, <2>1 DEF SameFetch, RawFetch
  <2>3. \A r \in DOMAIN raw_fetches : IsLatestRowOf(b, r) => Flagged(r)
    BY <2>1 DEF IsLatestRowOf, Flagged
  <2> HIDE DEF SameFetch, Flagged
  <2> QED BY <2>1, <2>2, <2>3 DEF RowEffect
<1> QED BY <1>1, <1>3, <1>4, <1>5, <1>6, <1>7, <1>8, <1>9, <1>10
        DEF Next, Environment, ParserStep, ProcessRow, DetailStep

LEMMA PostingEffects ==
    ASSUME OrderInv, [Next]_vars, NEW b \in Boards, NEW i \in Ids
    PROVE  PostingEffect(b, i)
<1>0. postings \in [Boards -> [Ids -> Posting]]
  BY DEF OrderInv, TypeInv, TypeOK
<1>1. ASSUME NEW C \in SUBSET pending, UpsertChunk(C) PROVE PostingEffect(b, i)
  <2>1. C \subseteq DOMAIN Row.payload
    BY <1>1 DEF UpsertChunk, OrderInv, TypeInv, LocalsOK, BeforeMark, InRow
  <2> QED BY <1>0, <1>1, <2>1
          DEF UpsertChunk, AfterWrites, BeforeMark, PostingEffect, UpsertEffect
<1>2. CASE CloseMissing
  BY <1>0, <1>2 DEF CloseMissing, PostingEffect, MissingEffect
<1>3. ASSUME NEW c \in Boards, CloseOrphaned(c) PROVE PostingEffect(b, i)
  BY <1>0, <1>3 DEF CloseOrphaned, OrphanClosedAt, PostingEffect, OrphanEffect
<1>4. /\ NewDay => UNCHANGED postings
      /\ \A c \in Configurable : EditCompanies(c) => UNCHANGED postings
      /\ \A c \in Boards : IngestFailure(c) \/ IngestPayload(c) => UNCHANGED postings
      /\ StartRun => UNCHANGED postings
      /\ \A r \in RowIds : SkipFailure(r) \/ SkipUnconfigured(r) \/ BeginRow(r) => UNCHANGED postings
      /\ \A C \in SUBSET appends : AppendChunk(C) => UNCHANGED postings
      /\ SkipCloseDetection \/ MarkParsed \/ StripRow \/ BeginReconcile => UNCHANGED postings
      /\ \A t \in 1..(MaxFetches + 1) : DeleteOldParsed(t) => UNCHANGED postings
      /\ DetailStep => UNCHANGED postings
      /\ Crash \/ UNCHANGED vars => UNCHANGED postings
  BY DEF NewDay, EditCompanies, IngestFailure, IngestPayload, InsertRawFetch, StartRun,
     SkipFailure, SkipUnconfigured, BeginRow, AppendChunk, SkipCloseDetection, MarkParsed,
     StripRow, BeginReconcile, DeleteOldParsed, DetailStep, StartDetails, StoreDetail,
     MarkLatestRawFetchUnparsed, EndDetails, Crash, vars, databaseVars
<1> QED BY <1>1, <1>2, <1>3, <1>4
        DEF Next, Environment, ParserStep, ProcessRow, PostingEffect

LEMMA VersionEffects ==
    ASSUME OrderInv, [Next]_vars, NEW b \in Boards, NEW i \in Ids
    PROVE  VersionEffect(b, i)
<1>0. posting_versions \in [Boards -> [Ids -> Seq(Version)]]
  BY DEF OrderInv, TypeInv, TypeOK
<1>1. ASSUME NEW C \in SUBSET appends, AppendChunk(C) PROVE VersionEffect(b, i)
  BY <1>0, <1>1 DEF AppendChunk, VersionEffect, AppendEffect
<1>2. /\ NewDay => UNCHANGED posting_versions
      /\ \A c \in Configurable : EditCompanies(c) => UNCHANGED posting_versions
      /\ \A c \in Boards : IngestFailure(c) \/ IngestPayload(c) => UNCHANGED posting_versions
      /\ StartRun => UNCHANGED posting_versions
      /\ \A r \in RowIds : SkipFailure(r) \/ SkipUnconfigured(r) \/ BeginRow(r)
                           => UNCHANGED posting_versions
      /\ \A C \in SUBSET pending : UpsertChunk(C) => UNCHANGED posting_versions
      /\ SkipCloseDetection \/ CloseMissing \/ MarkParsed \/ StripRow \/ BeginReconcile
         => UNCHANGED posting_versions
      /\ \A c \in Boards : CloseOrphaned(c) => UNCHANGED posting_versions
      /\ \A t \in 1..(MaxFetches + 1) : DeleteOldParsed(t) => UNCHANGED posting_versions
      /\ DetailStep => UNCHANGED posting_versions
      /\ Crash \/ UNCHANGED vars => UNCHANGED posting_versions
  BY DEF NewDay, EditCompanies, IngestFailure, IngestPayload, InsertRawFetch, StartRun,
     SkipFailure, SkipUnconfigured, BeginRow, UpsertChunk, SkipCloseDetection, CloseMissing,
     MarkParsed, StripRow, BeginReconcile, CloseOrphaned, DeleteOldParsed, DetailStep,
     StartDetails, StoreDetail, MarkLatestRawFetchUnparsed, EndDetails, Crash, vars, databaseVars
<1> QED BY <1>1, <1>2 DEF Next, Environment, ParserStep, ProcessRow, VersionEffect

LEMMA LocalEffects == OrderInv /\ [Next]_vars => LocalEffect
<1> SUFFICES ASSUME OrderInv, [Next]_vars, pc' \in BeforeMark PROVE RowBegins \/ RowGoesOn
  BY DEF LocalEffect
<1>1. ASSUME NEW r \in RowIds, BeginRow(r) PROVE RowBegins
  <2>1. pc = "row" /\ current' = r /\ r \in todo /\ Successful(r)
    BY <1>1 DEF BeginRow, IsNextRow, Successful
  <2>2. ~ raw_fetches[r].parsed /\ r \in DOMAIN raw_fetches /\ current = NoRow
    BY <2>1 DEF OrderInv, TypeInv, TypeOK, LocalsOK, InRow, BeforeMark
  <2> QED BY <1>1, <2>1, <2>2 DEF BeginRow, RowBegins, Unparsed, databaseVars
<1>2. ASSUME NEW C \in SUBSET pending, UpsertChunk(C) PROVE RowGoesOn
  <2>1. /\ C \subseteq DOMAIN Row.payload /\ C \subseteq Ids /\ Row.board \in Boards
        /\ postings \in [Boards -> [Ids -> Posting]]
    BY <1>2, CurrentRow
       DEF UpsertChunk, OrderInv, TypeInv, TypeOK, LocalsOK, BeforeMark, InRow
  <2>2. /\ pc = "upsert" /\ pc' \in BeforeMark /\ pending' = pending \ C
        /\ UNCHANGED <<raw_details, current, previous, appends>>
    BY <1>2 DEF UpsertChunk, AfterChunk, AfterWrites, BeforeMark
  <2>3. \A i \in C : UpsertEffect(Row.board, i)
    BY <1>2, <2>1, <2>2 DEF UpsertChunk, UpsertEffect
  <2> QED BY <2>2, <2>3 DEF RowGoesOn, BeforeMark
<1>3. ASSUME NEW C \in SUBSET appends, AppendChunk(C) PROVE RowGoesOn
  <2>1. /\ C \subseteq Ids /\ Row.board \in Boards
        /\ posting_versions \in [Boards -> [Ids -> Seq(Version)]]
    BY <1>3, CurrentRow DEF AppendChunk, OrderInv, TypeInv, TypeOK, BeforeMark, InRow
  <2>2. /\ pc = "append" /\ appends' = appends \ C
        /\ UNCHANGED <<raw_details, current, previous, pending, postings>>
    BY <1>3 DEF AppendChunk
  <2>3. \A i \in C : AppendEffect(Row.board, i)
    BY <1>3, <2>1, <2>2 DEF AppendChunk, AppendEffect
  <2> QED BY <2>2, <2>3 DEF RowGoesOn, BeforeMark
<1>4. CASE SkipCloseDetection \/ CloseMissing
  BY <1>4 DEF SkipCloseDetection, CloseMissing, localVars, RowGoesOn, BeforeMark
<1>5. ASSUME NEW c \in Boards, IngestFailure(c) \/ IngestPayload(c) PROVE RowGoesOn
  BY <1>5 DEF IngestFailure, IngestPayload, InsertRawFetch, localVars, RowGoesOn, BeforeMark
<1>6. CASE NewDay \/ UNCHANGED vars
  BY <1>6 DEF NewDay, vars, databaseVars, localVars, RowGoesOn, BeforeMark
<1>7. /\ \A c \in Configurable : ~ EditCompanies(c)
      /\ ~ StartRun /\ ~ MarkParsed /\ ~ StripRow /\ ~ BeginReconcile /\ ~ Crash
      /\ \A r \in RowIds : ~ SkipFailure(r) /\ ~ SkipUnconfigured(r)
      /\ \A c \in Boards : ~ CloseOrphaned(c)
      /\ \A t \in 1..(MaxFetches + 1) : ~ DeleteOldParsed(t)
      /\ ~ DetailStep
  BY DEF EditCompanies, StartRun, MarkParsed, StripRow, BeginReconcile, Crash, SkipFailure,
     SkipUnconfigured, CloseOrphaned, DeleteOldParsed, DetailStep, StartDetails, StoreDetail,
     MarkLatestRawFetchUnparsed, EndDetails, BeforeMark
<1> QED BY <1>1, <1>2, <1>3, <1>4, <1>5, <1>6, <1>7 DEF Next, Environment, ParserStep, ProcessRow

(* The row at work stays what it is while it is worked on.                 *)
LEMMA RowStays ==
    ASSUME OrderInv, [Next]_vars, RowGoesOn
    PROVE  /\ current \in DOMAIN raw_fetches /\ current \in DOMAIN raw_fetches'
           /\ Row' = raw_fetches'[current] /\ SameFetch(current)
           /\ \A i : RowText(i)' = RowText(i)
<1>1. current \in DOMAIN raw_fetches
  BY CurrentRow DEF RowGoesOn, OrderInv, InRow
<1>2. pc # "reconcile"
  BY DEF RowGoesOn, BeforeMark
<1>3. current \in DOMAIN raw_fetches' /\ SameFetch(current) /\ Row' = raw_fetches'[current]
  BY <1>1, <1>2, RowEffects DEF RowEffect, RowGoesOn, Row
<1> QED BY <1>1, <1>3 DEF RowGoesOn, SameFetch, Row, RowText, Text

(* What a step leaves of a posting.                                        *)
LEMMA PostingFields ==
    ASSUME OrderInv, NEW b \in Boards, NEW i \in Ids
    PROVE  /\ UpsertEffect(b, i) =>
                 /\ postings'[b][i].last_seen_at = current
                 /\ postings'[b][i].closed_at = postings[b][i].closed_at
                 /\ postings'[b][i].is_open
                 /\ postings'[b][i].content = RowText(i)
           /\ MissingEffect(b, i) \/ OrphanEffect(b, i) =>
                 /\ postings'[b][i].first_seen_at = postings[b][i].first_seen_at
                 /\ postings'[b][i].last_seen_at = postings[b][i].last_seen_at
                 /\ postings'[b][i].content = postings[b][i].content
                 /\ ~ postings'[b][i].is_open
           /\ MissingEffect(b, i) => postings'[b][i].closed_at = current
           /\ OrphanEffect(b, i) => postings'[b][i].closed_at = postings[b][i].last_seen_at
<1>1. postings[b][i] \in Posting
  BY DateType DEF OrderInv, TypeInv
<1>2. ASSUME UpsertEffect(b, i)
      PROVE  /\ postings'[b][i].last_seen_at = current
             /\ postings'[b][i].closed_at = postings[b][i].closed_at
             /\ postings'[b][i].is_open
             /\ postings'[b][i].content = RowText(i)
  BY <1>2 DEF UpsertEffect, Upserted
<1>3. ASSUME MissingEffect(b, i) PROVE postings'[b][i] = Closed(postings[b][i], current)
  BY <1>3 DEF MissingEffect
<1>4. ASSUME OrphanEffect(b, i)
      PROVE  postings'[b][i] = Closed(postings[b][i], postings[b][i].last_seen_at)
  BY <1>4 DEF OrphanEffect
<1> QED BY <1>1, <1>2, <1>3, <1>4 DEF Closed, Posting

(* What a step leaves of the versions of a posting.                        *)
LEMMA Appended ==
    ASSUME OrderInv, NEW b \in Boards, NEW i \in Ids, AppendEffect(b, i)
    PROVE  LET vs  == posting_versions[b][i]
               new == posting_versions'[b][i]
           IN  /\ pc \in BeforeMark /\ pending = {} /\ postings' = postings
               /\ b = Row.board /\ i \in DOMAIN Row.payload
               /\ Len(vs) \in Nat /\ Len(new) = Len(vs) + 1
               /\ DOMAIN vs = 1..Len(vs) /\ DOMAIN new = 1..Len(new)
               /\ \A n \in DOMAIN vs : n \in DOMAIN new /\ new[n] = vs[n]
               /\ new[Len(new)].observed_at = current /\ new[Len(new)].content = RowText(i)
               /\ \A n \in DOMAIN new : n # Len(new) => n \in DOMAIN vs
<1> DEFINE vs  == posting_versions[b][i]
           new == posting_versions'[b][i]
           v   == [observed_at |-> current, content |-> RowText(i)]
<1>1. pc \in BeforeMark /\ pc \in InRow /\ pending = {} /\ i \in DOMAIN Row.payload
  BY DEF AppendEffect, BeforeMark, InRow, OrderInv, TypeInv, LocalsOK
<1>2. vs \in Seq(Version) /\ new = Append(vs, v)
  BY DateType DEF AppendEffect, OrderInv, TypeInv
<1>3. v.observed_at = current /\ v.content = RowText(i)
  OBVIOUS
<1> HIDE DEF vs, new, v
<1>4. /\ Len(vs) \in Nat /\ Len(new) = Len(vs) + 1
      /\ DOMAIN vs = 1..Len(vs) /\ DOMAIN new = 1..Len(new)
      /\ \A n \in DOMAIN vs : new[n] = vs[n]
      /\ new[Len(new)] = v
  BY <1>2
<1>5. /\ \A n \in DOMAIN vs : n \in DOMAIN new /\ new[n] = vs[n]
      /\ \A n \in DOMAIN new : n # Len(new) => n \in DOMAIN vs
  BY <1>4
<1> QED BY <1>1, <1>3, <1>4, <1>5 DEF vs, new, AppendEffect

-----------------------------------------------------------------------------
(* A rebuild: no table holds anything that a row would have to agree with.  *)

Emptied ==
    /\ \A b \in Boards, i \in Ids : postings[b][i] = Absent /\ posting_versions[b][i] = <<>>
    /\ \A r \in DOMAIN raw_fetches : ~ raw_fetches[r].parsed
    /\ pc = "row" /\ current = NoRow /\ skipped = {}

LEMMA RebuildEmpties ==
    ASSUME OrderInv, StartFullRun
    PROVE  /\ Emptied' /\ todo' = DOMAIN raw_fetches' /\ DOMAIN raw_fetches' = DOMAIN raw_fetches
           /\ raw_fetches' \in [DOMAIN raw_fetches -> RawFetch]
           /\ \A r \in DOMAIN raw_fetches :
                 SameFetch(r) /\ raw_fetches'[r].stripped = raw_fetches[r].stripped
<1>1. \A r \in DOMAIN raw_fetches : raw_fetches[r] \in RawFetch
  BY RowType DEF OrderInv, TypeInv
<1>2. /\ raw_fetches' = [r \in DOMAIN raw_fetches |-> [raw_fetches[r] EXCEPT !.parsed = FALSE]]
      /\ postings' = [b \in Boards |-> [i \in Ids |-> Absent]]
      /\ posting_versions' = [b \in Boards |-> [i \in Ids |-> <<>>]]
      /\ pc' = "row" /\ todo' = DOMAIN raw_fetches /\ skipped' = {} /\ current' = current
      /\ current = NoRow
  BY DEF StartFullRun, ResetParsedState, OrderInv, TypeInv, LocalsOK, InRow, BeforeMark
<1>3. \A r \in DOMAIN raw_fetches :
         /\ raw_fetches'[r] \in RawFetch /\ ~ raw_fetches'[r].parsed /\ SameFetch(r)
         /\ raw_fetches'[r].stripped = raw_fetches[r].stripped
  BY <1>1, <1>2 DEF RawFetch, SameFetch
<1> QED BY <1>2, <1>3 DEF Emptied

LEMMA RebuildKeepsOrder ==
    ASSUME OrderInv, StartFullRun
    PROVE  OrderInv'
<1>1. /\ Emptied' /\ todo' = DOMAIN raw_fetches' /\ DOMAIN raw_fetches' = DOMAIN raw_fetches
      /\ raw_fetches' \in [DOMAIN raw_fetches -> RawFetch]
      /\ \A r \in DOMAIN raw_fetches : SameFetch(r)
  BY RebuildEmpties
<1>2. /\ UNCHANGED <<day, configured, serial, raw_details, feed_anomalies, current, previous,
                     pending, appends, orphaned, candidates, joined, crashes>>
      /\ pc = "idle"
  BY DEF StartFullRun, ResetParsedState
<1>3. TypeOK'
  <2>1. postings' \in [Boards -> [Ids -> Posting]]
    <3>1. Absent \in Posting
      BY BoundsAssumption DEF Absent, Posting, Times, NoTime
    <3> QED BY <3>1 DEF StartFullRun, ResetParsedState
  <2>2. posting_versions' \in [Boards -> [Ids -> Seq(Version)]]
    <3>1. <<>> \in Seq(Version)
      OBVIOUS
    <3> QED BY <3>1 DEF StartFullRun, ResetParsedState
  <2> QED BY <1>1, <1>2, <2>1, <2>2 DEF OrderInv, TypeInv, TypeOK, Emptied, Steps
<1>4. LocalsOK'
  <2>1. current = NoRow /\ pending = {} /\ appends = {}
    BY <1>2 DEF OrderInv, TypeInv, LocalsOK, InRow, BeforeMark
  <2> QED BY <1>1, <1>2, <2>1 DEF LocalsOK, Emptied, InRow, BeforeMark
<1>5. QueueOrder' /\ UpsertedSoFar' /\ ParsedRowsApplied'
  BY <1>1 DEF Emptied, QueueOrder, UpsertedSoFar, BeforeMark, ParsedRowsApplied
<1>6. DatesConsistent' /\ NoRowNoDates'
  BY <1>1 DEF Emptied, DatesConsistent, NoRowNoDates, Present, Exists, Absent, NoTime
<1>7. \A t \in Nat : \A b \in Boards, i \in Ids :
         /\ postings'[b][i].last_seen_at <= t /\ postings'[b][i].closed_at <= t
         /\ \A n \in DOMAIN posting_versions'[b][i] : posting_versions'[b][i][n].observed_at <= t
  BY <1>1 DEF Emptied, Absent, NoTime
<1>8. NothingAfterSerial'
  <2>1. serial' \in Nat
    BY <1>2, BoundsAssumption DEF OrderInv, TypeInv, TypeOK, Times
  <2> QED BY <1>7, <2>1 DEF NothingAfterSerial, NothingAfter
<1>9. NothingOvertaken'
  <2>1. \A r \in DOMAIN raw_fetches' : r \in Nat /\ raw_fetches'[r].board \in Boards
    BY <1>1, RowType DEF OrderInv, TypeInv, RowIds, RawFetch
  <2> QED BY <1>7, <2>1 DEF NothingOvertaken, NothingAfter
<1>10. LatestCovers'
  <2>1. \A r \in DOMAIN raw_fetches' : r \in Nat
    BY <1>1, RowType DEF OrderInv, TypeInv, RowIds
  <2> QED BY <1>7, <2>1 DEF LatestCovers, NothingAfter
<1> QED BY <1>3, <1>4, <1>5, <1>6, <1>8, <1>9, <1>10 DEF OrderInv, TypeInv

LEMMA OrderOfRebuilds == RebuildSpec => []OrderInv
<1>1. OrderInv /\ [Next \/ StartFullRun]_vars => OrderInv'
  BY OrderParserStep, OrderDetailStep, OrderEnvironment, OrderStutter, RebuildKeepsOrder DEF Next
<1> QED BY OrderInit, <1>1, PTL DEF RebuildSpec

(* Rows are applied in order, once and in full, also when all of them are   *)
(* applied again, and whatever interrupts the rebuild.                      *)
THEOREM RebuildsKeepOrder ==
    RebuildSpec => [](TypeOK /\ NothingOvertaken /\ DatesConsistent /\ ParsedRowsApplied)
<1>1. OrderInv => TypeOK /\ NothingOvertaken /\ DatesConsistent /\ ParsedRowsApplied
  BY DEF OrderInv, TypeInv
<1> QED BY OrderOfRebuilds, <1>1, PTL

(* The daily run is a rebuild that never happens, so that what is proved    *)
(* of RebuildSpec holds of Spec.                                            *)
LEMMA DailyRunsRebuildNothing == Spec => RebuildSpec
<1>1. [Next]_vars => [Next \/ StartFullRun]_vars
  OBVIOUS
<1> QED BY <1>1, PTL DEF Spec, RebuildSpec

-----------------------------------------------------------------------------
(* Versions, also when a row is parsed again, after an interrupted run or   *)
(* with the details of its postings.                                        *)

LEMMA DetailEffects ==
    ASSUME [Next]_vars
    PROVE  \/ /\ UNCHANGED raw_details
              /\ candidates' \subseteq candidates \/ candidates' = MissingDetail
           \/ \E b \in TwoStage, i \in Ids : StoreDetail(b, i)
BY DEF Next, Environment, ParserStep, ProcessRow, NewDay, EditCompanies, IngestFailure,
   IngestPayload, InsertRawFetch, StartRun, SkipFailure, SkipUnconfigured, BeginRow, UpsertChunk,
   AppendChunk, SkipCloseDetection, CloseMissing, MarkParsed, StripRow, BeginReconcile,
   CloseOrphaned, DeleteOldParsed, DetailStep, StartDetails, MarkLatestRawFetchUnparsed,
   EndDetails, Crash, vars, databaseVars, localVars

(* A detail is stored once; what was hashed before had none.               *)
DetailsGrow ==
    /\ \A k \in candidates : raw_details[k[1]][k[2]] = NoDetail
    /\ \A b \in Boards, i \in Ids :
          /\ \A n \in DOMAIN posting_versions[b][i] :
                posting_versions[b][i][n].content.detail \in {NoDetail, raw_details[b][i]}
          /\ postings[b][i].content # NoContent =>
                postings[b][i].content.detail \in {NoDetail, raw_details[b][i]}

(* What VersionsOrdered says of two versions.                              *)
Follows(w, v) ==
    \/ v.observed_at < w.observed_at
    \/ /\ v.observed_at = w.observed_at
       /\ v.content.detail = NoDetail /\ w.content.detail # NoDetail

(* What is still to be appended follows every version there is.            *)
AppendsFollow ==
    pc \in BeforeMark =>
        \A i \in appends : \A n \in DOMAIN posting_versions[Row.board][i] :
            Follows([observed_at |-> current, content |-> RowText(i)],
                    posting_versions[Row.board][i][n])

MayBeParsed(r) == ~ raw_fetches[r].parsed \/ IsLatestRowOf(raw_fetches[r].board, r)

(* Where a row that is parsed again has appended a version, the posting has  *)
(* what the row lists, and the detail that the version has: only a detail    *)
(* that is new makes it count as changed again.                              *)
VersionIsHeld(r, i, v) ==
    LET row == raw_fetches[r]
        p   == postings[row.board][i]
    IN  v.observed_at = r =>
           /\ i \in DOMAIN row.payload /\ p.content # NoContent
           /\ p.content.listed = row.payload[i]
           /\ v.content.detail # NoDetail => p.content.detail # NoDetail

VersionsHeld ==
    \A r \in DOMAIN raw_fetches, i \in Ids :
        MayBeParsed(r) /\ Successful(r) =>
            \A n \in DOMAIN posting_versions[raw_fetches[r].board][i] :
                VersionIsHeld(r, i, posting_versions[raw_fetches[r].board][i][n])

VersionsInv == VersionsOrdered /\ DetailsGrow /\ AppendsFollow /\ VersionsHeld

LEMMA VersionsStart == Init => VersionsInv
BY DEF Init, VersionsInv, VersionsOrdered, DetailsGrow, AppendsFollow, VersionsHeld, Absent,
   BeforeMark

LEMMA DetailsGrowStep ==
    ASSUME OrderInv, DetailsGrow, [Next]_vars
    PROVE  DetailsGrow'
<1>1. CASE /\ UNCHANGED raw_details
           /\ candidates' \subseteq candidates \/ candidates' = MissingDetail
  <2>1. \A k \in candidates' : raw_details'[k[1]][k[2]] = NoDetail
    BY <1>1 DEF DetailsGrow, MissingDetail
  <2>2. ASSUME NEW b \in Boards, NEW i \in Ids, NEW n \in DOMAIN posting_versions'[b][i]
        PROVE  posting_versions'[b][i][n].content.detail \in {NoDetail, raw_details[b][i]}
    <3>1. CASE posting_versions'[b][i] = posting_versions[b][i]
      BY <2>2, <3>1 DEF DetailsGrow
    <3>2. CASE AppendEffect(b, i)
      <4>1. CASE n = Len(posting_versions'[b][i])
        <5>1. posting_versions'[b][i][n].content = RowText(i) /\ b = Row.board
          BY <3>2, <4>1, Appended
        <5> QED BY <5>1 DEF RowText, Text
      <4>2. CASE n # Len(posting_versions'[b][i])
        <5>1. n \in DOMAIN posting_versions[b][i]
              /\ posting_versions'[b][i][n] = posting_versions[b][i][n]
          BY <2>2, <3>2, <4>2, Appended
        <5> QED BY <5>1 DEF DetailsGrow
      <4> QED BY <4>1, <4>2
    <3> QED BY <3>1, <3>2, VersionEffects DEF VersionEffect
  <2>3. ASSUME NEW b \in Boards, NEW i \in Ids, postings'[b][i].content # NoContent
        PROVE  postings'[b][i].content.detail \in {NoDetail, raw_details[b][i]}
    <3>1. CASE UpsertEffect(b, i)
      <4>1. postings'[b][i].content = RowText(i) /\ b = Row.board
        BY <3>1, PostingFields DEF UpsertEffect
      <4> QED BY <4>1 DEF RowText, Text
    <3>2. CASE ~ UpsertEffect(b, i)
      <4>1. postings'[b][i].content = postings[b][i].content
        BY <3>2, PostingEffects, PostingFields DEF PostingEffect
      <4> QED BY <2>3, <4>1 DEF DetailsGrow
    <3> QED BY <3>1, <3>2
  <2> QED BY <1>1, <2>1, <2>2, <2>3 DEF DetailsGrow
<1>2. ASSUME NEW b \in TwoStage, NEW i \in Ids, StoreDetail(b, i) PROVE DetailsGrow'
  <2>1. /\ raw_details[b][i] = NoDetail /\ b \in Boards
        /\ UNCHANGED <<postings, posting_versions>>
        /\ candidates' = candidates \ {<<b, i>>}
    BY <1>2, BoardsAssumption DEF StoreDetail, DetailsGrow
  <2>2. \A c \in Boards, j \in Ids : c # b \/ j # i => raw_details'[c][j] = raw_details[c][j]
    BY <1>2 DEF StoreDetail, OrderInv, TypeInv, TypeOK
  <2>3. \A k \in candidates' : raw_details'[k[1]][k[2]] = NoDetail
    <3> SUFFICES ASSUME NEW k \in candidates' PROVE raw_details'[k[1]][k[2]] = NoDetail
      OBVIOUS
    <3>1. k \in candidates /\ k \in TwoStage \X Ids /\ k # <<b, i>>
      BY <2>1 DEF OrderInv, TypeInv, TypeOK
    <3>2. k[1] \in Boards /\ k[2] \in Ids /\ (k[1] # b \/ k[2] # i)
      BY <3>1, BoardsAssumption
    <3> QED BY <2>2, <3>1, <3>2 DEF DetailsGrow
  <2>4. ASSUME NEW c \in Boards, NEW j \in Ids
        PROVE  /\ \A n \in DOMAIN posting_versions[c][j] :
                     posting_versions[c][j][n].content.detail \in {NoDetail, raw_details'[c][j]}
               /\ postings[c][j].content # NoContent =>
                     postings[c][j].content.detail \in {NoDetail, raw_details'[c][j]}
    BY <2>1, <2>2 DEF DetailsGrow
  <2> QED BY <2>1, <2>3, <2>4 DEF DetailsGrow
<1> QED BY <1>1, <1>2, DetailEffects

LEMMA VersionsOrderedStep ==
    ASSUME OrderInv, VersionsInv, [Next]_vars
    PROVE  VersionsOrdered'
<1> SUFFICES ASSUME NEW b \in Boards, NEW i \in Ids
             PROVE  LET vs == posting_versions'[b][i]
                    IN  \A m, n \in DOMAIN vs : m < n => Follows(vs[n], vs[m])
  BY DEF VersionsOrdered, Follows
<1> DEFINE vs  == posting_versions[b][i]
           new == posting_versions'[b][i]
<1>1. \A m, n \in DOMAIN vs : m < n => Follows(vs[n], vs[m])
  BY DEF VersionsInv, VersionsOrdered, Follows
<1>2. CASE new = vs
  BY <1>1, <1>2
<1>3. CASE AppendEffect(b, i)
  <2>1. /\ DOMAIN vs = 1..Len(vs) /\ DOMAIN new = 1..Len(new)
        /\ Len(vs) \in Nat /\ Len(new) = Len(vs) + 1
        /\ new[Len(new)].observed_at = current /\ new[Len(new)].content = RowText(i)
        /\ \A n \in DOMAIN vs : new[n] = vs[n]
        /\ pc \in BeforeMark /\ b = Row.board /\ i \in appends
    BY <1>3, Appended DEF AppendEffect
  <2>2. \A n \in DOMAIN vs : Follows([observed_at |-> current, content |-> RowText(i)], vs[n])
    BY <2>1 DEF VersionsInv, AppendsFollow
  <2>3. \A n \in DOMAIN vs : Follows(new[Len(new)], vs[n])
    BY <2>1, <2>2 DEF Follows
  <2> HIDE DEF vs, new, Follows
  <2>4. ASSUME NEW m \in DOMAIN new, NEW n \in DOMAIN new, m < n
        PROVE  Follows(new[n], new[m])
    <3>1. m \in DOMAIN vs /\ (n \in DOMAIN vs \/ n = Len(new))
      BY <2>1, <2>4
    <3> QED BY <1>1, <2>1, <2>3, <2>4, <3>1
  <2> QED BY <2>4 DEF new
<1> QED BY <1>2, <1>3, VersionEffects DEF VersionEffect

LEMMA AppendsFollowStep ==
    ASSUME OrderInv, OrderInv', VersionsInv, [Next]_vars
    PROVE  AppendsFollow'
<1> SUFFICES ASSUME pc' \in BeforeMark, NEW i \in appends',
                    NEW n \in DOMAIN posting_versions'[Row'.board][i]
             PROVE  Follows([observed_at |-> current', content |-> RowText(i)'],
                            posting_versions'[Row'.board][i][n])
  BY DEF AppendsFollow, Follows
<1>1. CASE RowBegins
  <2> DEFINE r == current'
             b == raw_fetches[r].board
             v == posting_versions[b][i][n]
             text == Text(b, raw_fetches[r].payload, i)
  <2>1. /\ r \in DOMAIN raw_fetches /\ ~ raw_fetches[r].parsed /\ Successful(r)
        /\ Row' = raw_fetches[r] /\ posting_versions' = posting_versions
        /\ i \in DOMAIN raw_fetches[r].payload
        /\ postings[b][i].content # text /\ RowText(i)' = text
        /\ raw_details' = raw_details
    BY <1>1 DEF RowBegins, Unparsed, Row, ChangedIds, RowText, Text
  <2>2. b \in Boards /\ i \in Ids /\ r \in Nat /\ raw_fetches[r].payload \in Payloads
    BY <2>1, RowType, PayloadType DEF OrderInv, TypeInv, RawFetch, RowIds
  <2>3. n \in DOMAIN posting_versions[b][i]
    BY <2>1
  <2>4. text.listed = raw_fetches[r].payload[i] /\ text.detail = raw_details[b][i]
        /\ text \in Texts
    BY <2>1, <2>2, TextType DEF OrderInv, TypeInv, Text
  <2>5. postings[b][i].content \in Texts \cup {NoContent}
    BY <2>2, DateType DEF OrderInv, TypeInv, Posting
  <2>6. v.observed_at \in Nat /\ v.observed_at <= r
    BY <2>1, <2>2, <2>3, DateType DEF OrderInv, TypeInv, NothingOvertaken, NothingAfter
  <2>7. v.content.detail \in {NoDetail, raw_details[b][i]}
        /\ (postings[b][i].content # NoContent =>
               postings[b][i].content.detail \in {NoDetail, raw_details[b][i]})
    BY <2>2, <2>3 DEF VersionsInv, DetailsGrow
  <2>8. VersionIsHeld(r, i, v)
    BY <2>1, <2>2, <2>3 DEF VersionsInv, VersionsHeld, MayBeParsed
  <2>9. Row'.board = b /\ posting_versions'[b][i][n] = v
    BY <2>1
  <2> HIDE DEF r, v, text
  <2>10. CASE v.observed_at = r
    <3> DEFINE c == postings[b][i].content
    <3>1. /\ c \in Texts /\ c.listed = text.listed
          /\ v.content.detail # NoDetail => c.detail # NoDetail
      BY <2>4, <2>5, <2>8, <2>10 DEF VersionIsHeld
    <3>2. c.detail # text.detail
      BY <2>1, <2>4, <3>1 DEF Texts
    <3>3. v.content.detail = NoDetail /\ text.detail # NoDetail
      BY <2>4, <2>7, <3>1, <3>2, TextsAssumption
    <3> QED BY <2>1, <2>9, <2>10, <3>3 DEF Follows, r
  <2>11. CASE v.observed_at # r
    <3>1. v.observed_at < r
      BY <2>2, <2>6, <2>11
    <3> QED BY <2>9, <3>1 DEF Follows, r
  <2> QED BY <2>10, <2>11
<1>2. CASE RowGoesOn
  <2>1. /\ Row'.board = Row.board /\ i \in appends /\ current' = current /\ pc \in BeforeMark
        /\ Row.board \in Boards /\ i \in Ids /\ RowText(i)' = RowText(i)
    BY <1>2, RowStays, CurrentRow
       DEF RowGoesOn, SameFetch, Row, OrderInv, TypeInv, TypeOK, InRow
  <2>2. posting_versions'[Row.board][i] = posting_versions[Row.board][i]
    BY <2>1, VersionEffects DEF VersionEffect, AppendEffect
  <2> QED BY <2>1, <2>2 DEF VersionsInv, AppendsFollow
<1> QED BY <1>1, <1>2, LocalEffects DEF LocalEffect

(* What may be parsed again after a step could be parsed again before it.   *)
LEMMA MayBeParsedBefore ==
    ASSUME OrderInv, [Next]_vars, NEW r \in DOMAIN raw_fetches', r \in DOMAIN raw_fetches,
           MayBeParsed(r)'
    PROVE  MayBeParsed(r)
<1> SUFFICES ASSUME raw_fetches[r].parsed, ~ IsLatestRowOf(raw_fetches[r].board, r)
             PROVE  FALSE
  BY DEF MayBeParsed
<1>1. SameFetch(r) /\ raw_fetches'[r].parsed
  BY RowEffects DEF RowEffect, Flagged
<1>2. IsLatestRowOf(raw_fetches[r].board, r)'
  BY <1>1 DEF MayBeParsed, SameFetch, IsLatestRowOf
<1>3. PICK s \in DOMAIN raw_fetches :
         raw_fetches[s].board = raw_fetches[r].board /\ ~ (s <= r)
  BY DEF IsLatestRowOf
<1>4. s \notin DOMAIN raw_fetches'
  <2> SUFFICES ASSUME s \in DOMAIN raw_fetches' PROVE FALSE
    OBVIOUS
  <2>1. SameFetch(s)
    BY RowEffects DEF RowEffect
  <2> QED BY <1>1, <1>2, <1>3, <2>1 DEF IsLatestRowOf, SameFetch
<1>5. r < s
  BY <1>3, RowType DEF OrderInv, TypeInv, RowIds
<1> QED BY <1>4, <1>5, RowEffects DEF RowEffect

LEMMA VersionsHeldStep ==
    ASSUME OrderInv, OrderInv', VersionsInv, [Next]_vars
    PROVE  VersionsHeld'
<1> SUFFICES ASSUME NEW r \in DOMAIN raw_fetches', NEW i \in Ids,
                    MayBeParsed(r)', Successful(r)',
                    NEW n \in DOMAIN posting_versions'[raw_fetches'[r].board][i],
                    posting_versions'[raw_fetches'[r].board][i][n].observed_at = r
             PROVE  LET row == raw_fetches'[r]
                        p   == postings'[row.board][i]
                        v   == posting_versions'[row.board][i][n]
                    IN  /\ i \in DOMAIN row.payload /\ p.content # NoContent
                        /\ p.content.listed = row.payload[i]
                        /\ v.content.detail # NoDetail => p.content.detail # NoDetail
  BY DEF VersionsHeld, VersionIsHeld
<1> DEFINE b == raw_fetches'[r].board
           vs == posting_versions[b][i]
           v == posting_versions'[b][i][n]
<1>0. b \in Boards /\ r \in Nat /\ serial \in Nat
  BY RowType, BoundsAssumption DEF OrderInv, TypeInv, TypeOK, Times, RawFetch, RowIds
<1>1. r \in DOMAIN raw_fetches
  <2> SUFFICES ASSUME r \notin DOMAIN raw_fetches PROVE FALSE
    OBVIOUS
  <2>1. r = serial + 1 /\ posting_versions' = posting_versions
    BY RowEffects DEF RowEffect
  <2>2. vs[n].observed_at <= serial
    BY <1>0, <2>1 DEF OrderInv, NothingAfterSerial, NothingAfter
  <2> QED BY <1>0, <2>1, <2>2
<1>2. /\ raw_fetches[r].board = b /\ raw_fetches'[r].payload = raw_fetches[r].payload
      /\ MayBeParsed(r) /\ Successful(r) /\ raw_fetches[r].payload \in Payloads
  BY <1>1, RowEffects, MayBeParsedBefore, RowType
     DEF RowEffect, SameFetch, Successful, OrderInv, TypeInv
<1> HIDE DEF b
<1>3. ASSUME pc \in BeforeMark, b = Row.board PROVE current <= r
  BY <1>1, <1>2, <1>3, CurrentIsFirst, CurrentRow
     DEF MayBeParsed, IsLatestRowOf, OrderInv, InRow, Row
<1>4. ASSUME pc \in BeforeMark, b = Row.board, r = current, postings'[b][i].content = RowText(i),
             i \in DOMAIN Row.payload
      PROVE  /\ i \in DOMAIN raw_fetches[r].payload /\ postings'[b][i].content # NoContent
             /\ postings'[b][i].content.listed = raw_fetches[r].payload[i]
             /\ postings'[b][i].content.detail = raw_details[b][i]
  BY <1>0, <1>2, <1>4, TextType DEF OrderInv, TypeInv, RowText, Text, Row
<1>5. CASE AppendEffect(b, i) /\ n = Len(posting_versions'[b][i])
  <2>1. /\ r = current /\ postings' = postings /\ pc \in BeforeMark /\ pending = {}
        /\ i \in DOMAIN Row.payload /\ b = Row.board /\ v.content = RowText(i)
    BY <1>0, <1>5, Appended DEF b
  <2>2. postings'[b][i].content = RowText(i)
    BY <2>1 DEF OrderInv, UpsertedSoFar
  <2> QED BY <1>2, <1>4, <2>1, <2>2 DEF b
<1>6. CASE n \in DOMAIN vs /\ vs[n].observed_at = r /\ v = vs[n]
  <2>1. VersionIsHeld(r, i, v)
    BY <1>0, <1>1, <1>2, <1>6 DEF VersionsInv, VersionsHeld, b
  <2>2. CASE UpsertEffect(b, i)
    <3>1. /\ pc \in BeforeMark /\ pc \in InRow /\ b = Row.board
          /\ postings'[b][i].content = RowText(i) /\ i \in DOMAIN Row.payload
      BY <1>0, <2>2, PostingFields DEF UpsertEffect, BeforeMark, InRow
    <3>2. current <= r
      BY <1>3, <3>1
    <3>3. /\ current \in DOMAIN raw_fetches /\ ~ Row.parsed /\ Successful(current)
          /\ current \in Nat
      BY <3>1, CurrentRow DEF OrderInv, RowIds
    <3>4. r <= current
      BY <1>0, <1>6, <3>1, <3>3 DEF OrderInv, NothingOvertaken, NothingAfter, Row
    <3>5. r = current
      BY <1>0, <3>2, <3>3, <3>4
    <3>6. v.content.detail # NoDetail => v.content.detail = raw_details[b][i]
      BY <1>0, <1>6 DEF VersionsInv, DetailsGrow
    <3> QED BY <1>2, <1>4, <3>1, <3>5, <3>6 DEF b
  <2>3. CASE ~ UpsertEffect(b, i)
    <3>1. postings'[b][i].content = postings[b][i].content
      BY <1>0, <2>3, PostingEffects, PostingFields DEF PostingEffect
    <3> QED BY <1>2, <1>6, <2>1, <3>1 DEF VersionIsHeld, b
  <2> QED BY <2>2, <2>3
<1>7. posting_versions'[b][i] = vs \/ AppendEffect(b, i)
  BY <1>0, VersionEffects DEF VersionEffect
<1>8. n \in DOMAIN posting_versions'[b][i] /\ v.observed_at = r
  BY DEF b
<1>9. \/ AppendEffect(b, i) /\ n = Len(posting_versions'[b][i])
      \/ n \in DOMAIN vs /\ vs[n].observed_at = r /\ v = vs[n]
  BY <1>0, <1>7, <1>8, Appended
<1> QED BY <1>5, <1>6, <1>9

LEMMA RebuildKeepsVersions ==
    ASSUME OrderInv, VersionsInv, StartFullRun
    PROVE  VersionsInv'
<1>1. Emptied' /\ \A r \in DOMAIN raw_fetches' : raw_fetches'[r].board \in Boards
  BY RebuildEmpties DEF RawFetch
<1>2. VersionsOrdered' /\ AppendsFollow' /\ VersionsHeld'
  BY <1>1 DEF Emptied, VersionsOrdered, AppendsFollow, VersionsHeld, BeforeMark
<1>3. DetailsGrow'
  <2>1. UNCHANGED <<raw_details, candidates>>
    BY DEF StartFullRun, ResetParsedState
  <2> QED BY <1>1, <2>1 DEF Emptied, Absent, VersionsInv, DetailsGrow
<1> QED BY <1>2, <1>3 DEF VersionsInv

LEMMA VersionsInvariant == RebuildSpec => []VersionsInv
<1>1. OrderInv /\ OrderInv' /\ VersionsInv /\ [Next \/ StartFullRun]_vars => VersionsInv'
  BY DetailsGrowStep, VersionsOrderedStep, AppendsFollowStep, VersionsHeldStep,
     RebuildKeepsVersions DEF VersionsInv
<1> QED BY VersionsStart, <1>1, OrderOfRebuilds, PTL DEF RebuildSpec

(* One observation adds at most one version of a posting, also when the row *)
(* is parsed again after an interrupted run, and at most a second one, with *)
(* the detail that the first had not, when a details run has it parsed       *)
(* again.                                                                    *)
THEOREM VersionsStayOrdered == RebuildSpec => []VersionsOrdered
<1>1. VersionsInv => VersionsOrdered  BY DEF VersionsInv
<1> QED BY VersionsInvariant, <1>1, PTL

-----------------------------------------------------------------------------
(* The guard: what it compares with, what it lets close, what it leaves.    *)

DaysOrdered ==
    \A r \in DOMAIN raw_fetches :
        /\ raw_fetches[r].day <= day
        /\ \A q \in DOMAIN raw_fetches : q < r => raw_fetches[q].day <= raw_fetches[r].day

(* A board's fetches are parsed in the order they were made.               *)
ParsedInOrder ==
    \A q, r \in DOMAIN raw_fetches :
        /\ raw_fetches[q].board = raw_fetches[r].board /\ Successful(q) /\ Successful(r)
        /\ q < r /\ raw_fetches[r].parsed
        => raw_fetches[q].parsed

(* previous_count, read when the row began, is what it would be now.       *)
PreviousIsCurrent == pc \in BeforeMark => previous = PreviousCount(current)

(* A posting was last seen in a fetch that lists it.                       *)
SeenWhereListed ==
    \A r \in DOMAIN raw_fetches, i \in Ids :
        postings[raw_fetches[r].board][i].last_seen_at = r
        => Successful(r) /\ i \in DOMAIN raw_fetches[r].payload

(* What the guard lets close: see ClosedByCredibleFeed.                    *)
Credible(r) ==
    /\ Successful(r) /\ DOMAIN raw_fetches[r].payload # {}
    /\ \A q \in DOMAIN raw_fetches :
          /\ IsBaseline(q, r)
          /\ \A s \in DOMAIN raw_fetches : IsBaseline(s, r) => s <= q
          /\ raw_fetches[q].items >= MinPrevious
          => 2 * Cardinality(DOMAIN raw_fetches[r].payload) >= raw_fetches[q].items

ClosedCredibly ==
    \A r \in DOMAIN raw_fetches, i \in Ids :
        /\ postings[raw_fetches[r].board][i].closed_at = r
        /\ Successful(r) => i \notin DOMAIN raw_fetches[r].payload
        => Credible(r)

(* What a tripped guard leaves, from the moment it trips: an anomaly, unless *)
(* the row was empty and so was what the guard compared it with.            *)
Trace(s) ==
    \/ \E a \in feed_anomalies :
          a.board = raw_fetches[s.row].board /\ raw_fetches[s.row].day <= a.day
    \/ DOMAIN raw_fetches[s.row].payload = {} /\ s.previous = 0

SkippedLeaveTrace == \A s \in skipped : s.row \in DOMAIN raw_fetches => Trace(s)

GuardInv ==
    DaysOrdered /\ ParsedInOrder /\ PreviousIsCurrent /\ SeenWhereListed
        /\ ClosedCredibly /\ SkippedLeaveTrace

-----------------------------------------------------------------------------
LEMMA SkipEffects == [Next]_vars => UNCHANGED <<skipped, feed_anomalies>> \/ SkipCloseDetection
BY DEF Next, Environment, ParserStep, ProcessRow, NewDay, EditCompanies, IngestFailure,
   IngestPayload, InsertRawFetch, StartRun, SkipFailure, SkipUnconfigured, BeginRow, UpsertChunk,
   AppendChunk, CloseMissing, MarkParsed, StripRow, BeginReconcile, CloseOrphaned,
   DeleteOldParsed, DetailStep, StartDetails, StoreDetail, MarkLatestRawFetchUnparsed, EndDetails,
   Crash, vars, databaseVars

LEMMA DayEffects ==
    ASSUME OrderInv, [Next]_vars
    PROVE  day \in Nat /\ day' \in Nat /\ day <= day'
<1>1. day \in Nat
  BY BoundsAssumption DEF OrderInv, TypeInv, TypeOK, Days
<1>2. day' = day \/ day' = day + 1
  BY DEF Next, Environment, ParserStep, ProcessRow, NewDay, EditCompanies, IngestFailure,
     IngestPayload, InsertRawFetch, StartRun, SkipFailure, SkipUnconfigured, BeginRow, UpsertChunk,
     AppendChunk, SkipCloseDetection, CloseMissing, MarkParsed, StripRow, BeginReconcile,
     CloseOrphaned, DeleteOldParsed, DetailStep, StartDetails, StoreDetail,
     MarkLatestRawFetchUnparsed, EndDetails, Crash, vars, databaseVars
<1> QED BY <1>1, <1>2

LEMMA FetchTypes ==
    ASSUME OrderInv, NEW r \in DOMAIN raw_fetches
    PROVE  /\ r \in Nat /\ r <= serial /\ serial \in Nat
           /\ raw_fetches[r].board \in Boards /\ raw_fetches[r].day \in Nat
           /\ raw_fetches[r].items \in Nat
           /\ Successful(r) => DOMAIN raw_fetches[r].payload \subseteq Ids
<1>1. TypeOK /\ serial \in Nat
  BY BoundsAssumption DEF OrderInv, TypeInv, TypeOK, Times
<1>2. raw_fetches[r] \in RawFetch /\ r \in 1..serial
  BY <1>1, RowType
<1>3. Successful(r) => DOMAIN raw_fetches[r].payload \subseteq Ids
  BY <1>1, RowType, PayloadType
<1>4. /\ raw_fetches[r].board \in Boards /\ raw_fetches[r].day \in Nat
      /\ raw_fetches[r].items \in Nat
  BY <1>2, BoundsAssumption DEF RawFetch, Days
<1> QED BY <1>1, <1>2, <1>3, <1>4

(* previous_count is the number of items of the latest baseline there is.  *)
LEMMA PreviousCountIs ==
    ASSUME OrderInv, NEW r \in DOMAIN raw_fetches
    PROVE  \A q \in DOMAIN raw_fetches :
              /\ IsBaseline(q, r) /\ (\A s \in DOMAIN raw_fetches : IsBaseline(s, r) => s <= q)
              => PreviousCount(r) = raw_fetches[q].items
<1> DEFINE earlier == {q \in DOMAIN raw_fetches : IsBaseline(q, r)}
           latest  == {q \in earlier : \A s \in earlier : s <= q}
<1>1. PreviousCount(r) = IF latest = {} THEN NoCount ELSE raw_fetches[CHOOSE q \in latest : TRUE].items
  BY DEF PreviousCount
<1>2. ASSUME NEW q \in DOMAIN raw_fetches, IsBaseline(q, r),
             \A s \in DOMAIN raw_fetches : IsBaseline(s, r) => s <= q
      PROVE  PreviousCount(r) = raw_fetches[q].items
  <2>1. q \in latest
    BY <1>2
  <2>2. \A x \in latest : x = q
    BY <2>1, FetchTypes
  <2> HIDE DEF latest
  <2>3. (CHOOSE x \in latest : TRUE) = q
    BY <2>1, <2>2
  <2> QED BY <1>1, <2>1, <2>3
<1> QED BY <1>2

LEMMA GuardStart == Init => GuardInv
BY DEF Init, GuardInv, DaysOrdered, ParsedInOrder, PreviousIsCurrent, SeenWhereListed,
   ClosedCredibly, SkippedLeaveTrace, BeforeMark

(* A fetch that is there before and after a step has the same baselines,    *)
(* except those that retention takes away.                                  *)
LEMMA BaselinesKept ==
    ASSUME OrderInv, OrderInv', GuardInv, [Next]_vars,
           NEW r \in DOMAIN raw_fetches, r \in DOMAIN raw_fetches',
           NEW q \in DOMAIN raw_fetches'
    PROVE  /\ IsBaseline(q, r)' => q \in DOMAIN raw_fetches /\ IsBaseline(q, r)
           /\ q \in DOMAIN raw_fetches /\ IsBaseline(q, r) => IsBaseline(q, r)'
<1>1. SameFetch(r)
  BY RowEffects DEF RowEffect
<1>2. raw_fetches[r].day \in Nat /\ raw_fetches[r].day <= day /\ day \in Nat
  BY FetchTypes, DayEffects DEF GuardInv, DaysOrdered
<1>3. ASSUME q \notin DOMAIN raw_fetches PROVE ~ IsBaseline(q, r)'
  BY <1>1, <1>2, <1>3, RowEffects DEF RowEffect, IsBaseline, SameFetch
<1>4. ASSUME q \in DOMAIN raw_fetches PROVE IsBaseline(q, r)' <=> IsBaseline(q, r)
  <2>1. SameFetch(q)
    BY <1>4, RowEffects DEF RowEffect
  <2> QED BY <1>1, <2>1 DEF IsBaseline, SameFetch
<1> QED BY <1>3, <1>4

LEMMA DaysOrderedStep ==
    ASSUME OrderInv, OrderInv', GuardInv, [Next]_vars
    PROVE  DaysOrdered'
<1>1. ASSUME NEW r \in DOMAIN raw_fetches' PROVE raw_fetches'[r].day <= day'
  <2>1. CASE r \in DOMAIN raw_fetches
    BY <2>1, RowEffects, DayEffects, FetchTypes
       DEF RowEffect, SameFetch, GuardInv, DaysOrdered
  <2>2. CASE r \notin DOMAIN raw_fetches
    BY <2>2, RowEffects, DayEffects DEF RowEffect
  <2> QED BY <2>1, <2>2
<1>2. ASSUME NEW r \in DOMAIN raw_fetches', NEW q \in DOMAIN raw_fetches', q < r
      PROVE  raw_fetches'[q].day <= raw_fetches'[r].day
  <2>1. CASE r \in DOMAIN raw_fetches /\ q \in DOMAIN raw_fetches
    BY <1>2, <2>1, RowEffects DEF RowEffect, SameFetch, GuardInv, DaysOrdered
  <2>2. CASE r \notin DOMAIN raw_fetches /\ q \in DOMAIN raw_fetches
    BY <2>2, RowEffects DEF RowEffect, SameFetch, GuardInv, DaysOrdered
  <2>3. CASE q \notin DOMAIN raw_fetches
    <3>1. q = serial + 1 /\ (r \in DOMAIN raw_fetches \/ r = serial + 1)
      BY <2>3, RowEffects DEF RowEffect
    <3>2. r \in DOMAIN raw_fetches => r <= serial /\ r \in Nat /\ serial \in Nat
      BY FetchTypes
    <3>3. serial \in Nat
      BY BoundsAssumption DEF OrderInv, TypeInv, TypeOK, Times
    <3> QED BY <1>2, <3>1, <3>2, <3>3
  <2> QED BY <2>1, <2>2, <2>3
<1> QED BY <1>1, <1>2 DEF DaysOrdered

LEMMA ParsedInOrderStep ==
    ASSUME OrderInv, OrderInv', GuardInv, [Next]_vars
    PROVE  ParsedInOrder'
<1> SUFFICES ASSUME NEW q \in DOMAIN raw_fetches', NEW r \in DOMAIN raw_fetches',
                    raw_fetches'[q].board = raw_fetches'[r].board,
                    Successful(q)', Successful(r)', q < r, raw_fetches'[r].parsed
             PROVE  raw_fetches'[q].parsed
  BY DEF ParsedInOrder
<1>1. r \in DOMAIN raw_fetches /\ SameFetch(r) /\ r \in Nat /\ r <= serial /\ serial \in Nat
  BY RowEffects, FetchTypes DEF RowEffect
<1>2. q \in DOMAIN raw_fetches /\ SameFetch(q) /\ q \in Nat
  BY <1>1, RowEffects, FetchTypes DEF RowEffect
<1>3. Successful(q) /\ Successful(r) /\ raw_fetches[q].board = raw_fetches[r].board
  BY <1>1, <1>2 DEF SameFetch, Successful
<1>4. CASE raw_fetches[r].parsed
  <2>1. raw_fetches[q].parsed
    BY <1>1, <1>2, <1>3, <1>4 DEF GuardInv, ParsedInOrder
  <2>2. ~ Flagged(q)
    BY <1>1, <1>2, <1>3 DEF Flagged, IsLatestRowOf
  <2> QED BY <1>2, <2>1, <2>2, RowEffects DEF RowEffect
<1>5. CASE ~ raw_fetches[r].parsed
  <2>1. pc \in BeforeMark /\ r = current
    BY <1>1, <1>3, <1>5, RowEffects DEF RowEffect, BeforeMark
  <2>2. raw_fetches[q].parsed
    BY <1>1, <1>2, <1>3, <2>1, CurrentIsFirst DEF OrderInv, Row
  <2> QED BY <1>2, <2>1, <2>2, RowEffects DEF RowEffect, Flagged, BeforeMark
<1> QED BY <1>4, <1>5

LEMMA PreviousStep ==
    ASSUME OrderInv, OrderInv', GuardInv, [Next]_vars
    PROVE  PreviousIsCurrent'
<1> SUFFICES ASSUME pc' \in BeforeMark PROVE previous' = PreviousCount(current)'
  BY DEF PreviousIsCurrent
<1>1. CASE RowBegins
  BY <1>1 DEF RowBegins, PreviousCount, IsBaseline
<1>2. CASE RowGoesOn
  <2>1. /\ current \in DOMAIN raw_fetches /\ current \in DOMAIN raw_fetches'
        /\ current' = current /\ previous' = PreviousCount(current)
    BY <1>2, RowStays DEF RowGoesOn, GuardInv, PreviousIsCurrent
  <2>2. pc # "reconcile"
    BY <1>2 DEF RowGoesOn, BeforeMark
  <2>3. \A q \in DOMAIN raw_fetches : q \in DOMAIN raw_fetches' /\ SameFetch(q)
    BY <2>2, RowEffects DEF RowEffect
  <2> DEFINE E == {q \in DOMAIN raw_fetches : IsBaseline(q, current)}
             latest(S) == {q \in S : \A s \in S : s <= q}
             count(S, f) == IF latest(S) = {} THEN NoCount
                            ELSE f[CHOOSE q \in latest(S) : TRUE].items
  <2>4. E' = E
    BY <2>1, <2>3, BaselinesKept
  <2>5. PreviousCount(current) = count(E, raw_fetches)
    BY DEF PreviousCount
  <2>6. PreviousCount(current)' = count(E', raw_fetches')
    BY DEF PreviousCount
  <2>7. count(E, raw_fetches') = count(E, raw_fetches)
    <3>1. CASE latest(E) # {}
      <4>1. (CHOOSE q \in latest(E) : TRUE) \in DOMAIN raw_fetches
        BY <3>1
      <4> QED BY <2>3, <4>1 DEF SameFetch
    <3> QED BY <3>1
  <2> HIDE DEF E, count
  <2>8. count(E', raw_fetches') = count(E, raw_fetches')
    BY <2>4
  <2> QED BY <2>1, <2>5, <2>6, <2>7, <2>8
<1> QED BY <1>1, <1>2, LocalEffects DEF LocalEffect

LEMMA SeenWhereListedStep ==
    ASSUME OrderInv, OrderInv', GuardInv, [Next]_vars
    PROVE  SeenWhereListed'
<1> SUFFICES ASSUME NEW r \in DOMAIN raw_fetches', NEW i \in Ids,
                    postings'[raw_fetches'[r].board][i].last_seen_at = r
             PROVE  Successful(r)' /\ i \in DOMAIN raw_fetches'[r].payload
  BY DEF SeenWhereListed
<1>1. r \in DOMAIN raw_fetches
  <2> SUFFICES ASSUME r \notin DOMAIN raw_fetches PROVE FALSE
    OBVIOUS
  <2>1. /\ r = serial + 1 /\ postings' = postings /\ serial \in Nat
        /\ raw_fetches'[r].board \in Boards
    <3>1. raw_fetches'[r] \in RawFetch /\ serial \in Nat
      BY BoundsAssumption DEF OrderInv, TypeInv, TypeOK, Times
    <3> QED BY <3>1, RowEffects DEF RowEffect, RawFetch
  <2>2. postings[raw_fetches'[r].board][i].last_seen_at <= serial
    BY <2>1 DEF OrderInv, NothingAfterSerial, NothingAfter
  <2> QED BY <2>1, <2>2
<1> DEFINE b == raw_fetches[r].board
<1>2. SameFetch(r) /\ b \in Boards
  BY <1>1, RowEffects, FetchTypes DEF RowEffect
<1>3. CASE UpsertEffect(b, i)
  <2>1. r = current /\ Successful(current) /\ i \in DOMAIN raw_fetches[current].payload
    BY <1>2, <1>3, PostingFields, CurrentRow
       DEF UpsertEffect, SameFetch, OrderInv, BeforeMark, InRow, Row
  <2> QED BY <1>2, <2>1 DEF SameFetch, Successful
<1>4. CASE ~ UpsertEffect(b, i)
  <2>1. postings'[b][i].last_seen_at = postings[b][i].last_seen_at
    BY <1>2, <1>4, PostingEffects, PostingFields DEF PostingEffect
  <2> QED BY <1>1, <1>2, <2>1 DEF SameFetch, Successful, GuardInv, SeenWhereListed
<1> QED BY <1>3, <1>4

(* What the guard lets close is credible: the row it is at has items, and   *)
(* not too few when compared with its baseline.                             *)
LEMMA UntrippedIsCredible ==
    ASSUME OrderInv, GuardInv, pc = "guard", ~ GuardTripped(CurrentCount, previous)
    PROVE  Credible(current)
<1>1. /\ current \in DOMAIN raw_fetches /\ Successful(current)
      /\ Row.payload \in Payloads /\ CurrentCount \in Nat
      /\ previous = PreviousCount(current)
  BY CurrentRow, PayloadType
     DEF OrderInv, BeforeMark, InRow, CurrentCount, GuardInv, PreviousIsCurrent
<1>2. CurrentCount # 0 /\ ~ (previous # NoCount /\ previous >= MinPrevious /\ 2 * CurrentCount < previous)
  BY DEF GuardTripped
<1>3. DOMAIN Row.payload # {}
  BY <1>2, FS_EmptySet DEF CurrentCount
<1>4. ASSUME NEW q \in DOMAIN raw_fetches, IsBaseline(q, current),
             \A s \in DOMAIN raw_fetches : IsBaseline(s, current) => s <= q,
             raw_fetches[q].items >= MinPrevious
      PROVE  2 * CurrentCount >= raw_fetches[q].items
  <2>1. previous = raw_fetches[q].items /\ raw_fetches[q].items \in Nat
    BY <1>1, <1>4, PreviousCountIs, FetchTypes
  <2> QED BY <1>1, <1>2, <1>4, <2>1 DEF NoCount
<1> QED BY <1>1, <1>3, <1>4 DEF Credible, Row, CurrentCount

LEMMA CredibleStays ==
    ASSUME OrderInv, OrderInv', GuardInv, [Next]_vars,
           NEW r \in DOMAIN raw_fetches, r \in DOMAIN raw_fetches', Credible(r)
    PROVE  Credible(r)'
<1>1. SameFetch(r)
  BY RowEffects DEF RowEffect
<1>2. ASSUME NEW q \in DOMAIN raw_fetches', IsBaseline(q, r)',
             \A s \in DOMAIN raw_fetches' : IsBaseline(s, r)' => s <= q,
             raw_fetches'[q].items >= MinPrevious
      PROVE  2 * Cardinality(DOMAIN raw_fetches[r].payload) >= raw_fetches'[q].items
  <2>1. q \in DOMAIN raw_fetches /\ IsBaseline(q, r) /\ SameFetch(q)
    BY <1>2, BaselinesKept, RowEffects DEF RowEffect
  <2>2. ASSUME NEW s \in DOMAIN raw_fetches, IsBaseline(s, r) PROVE s <= q
    <3>1. CASE s \in DOMAIN raw_fetches'
      BY <1>2, <2>2, <3>1, BaselinesKept
    <3>2. CASE s \notin DOMAIN raw_fetches'
      <4>1. raw_fetches[s].parsed /\ ~ (raw_fetches[q].parsed /\ q < s)
        BY <2>1, <3>2, RowEffects DEF RowEffect
      <4>2. q < s => raw_fetches[q].parsed
        BY <2>1, <2>2, <4>1 DEF GuardInv, ParsedInOrder, IsBaseline, Successful
      <4> QED BY <2>1, <4>1, <4>2, FetchTypes
    <3> QED BY <3>1, <3>2
  <2> QED BY <1>2, <2>1, <2>2 DEF Credible, SameFetch
<1> QED BY <1>1, <1>2 DEF Credible, SameFetch, Successful

LEMMA ClosedCrediblyStep ==
    ASSUME OrderInv, OrderInv', GuardInv, [Next]_vars
    PROVE  ClosedCredibly'
<1> SUFFICES ASSUME NEW r \in DOMAIN raw_fetches', NEW i \in Ids,
                    postings'[raw_fetches'[r].board][i].closed_at = r,
                    Successful(r)' => i \notin DOMAIN raw_fetches'[r].payload
             PROVE  Credible(r)'
  BY DEF ClosedCredibly
<1>1. r \in DOMAIN raw_fetches
  <2> SUFFICES ASSUME r \notin DOMAIN raw_fetches PROVE FALSE
    OBVIOUS
  <2>1. /\ r = serial + 1 /\ postings' = postings /\ serial \in Nat
        /\ raw_fetches'[r].board \in Boards
    <3>1. raw_fetches'[r] \in RawFetch /\ serial \in Nat
      BY BoundsAssumption DEF OrderInv, TypeInv, TypeOK, Times
    <3> QED BY <3>1, RowEffects DEF RowEffect, RawFetch
  <2>2. postings[raw_fetches'[r].board][i].closed_at <= serial
    BY <2>1 DEF OrderInv, NothingAfterSerial, NothingAfter
  <2> QED BY <2>1, <2>2
<1> DEFINE b == raw_fetches[r].board
<1>2. /\ SameFetch(r) /\ b \in Boards
      /\ Successful(r) => i \notin DOMAIN raw_fetches[r].payload
  BY <1>1, RowEffects, FetchTypes DEF RowEffect, SameFetch, Successful
<1>3. postings'[b][i].closed_at = r
  BY <1>2 DEF SameFetch
<1> HIDE DEF b
<1>4. CASE MissingEffect(b, i)
  BY <1>1, <1>2, <1>3, <1>4, PostingFields, UntrippedIsCredible, CredibleStays DEF MissingEffect
<1>5. CASE OrphanEffect(b, i)
  <2>1. postings[b][i].last_seen_at = r
    BY <1>2, <1>3, <1>5, PostingFields
  <2> QED BY <1>1, <1>2, <2>1 DEF GuardInv, SeenWhereListed, b
<1>6. CASE ~ MissingEffect(b, i) /\ ~ OrphanEffect(b, i)
  <2>1. postings[b][i].closed_at = r
    BY <1>2, <1>3, <1>6, PostingEffects, PostingFields DEF PostingEffect
  <2> QED BY <1>1, <1>2, <2>1, CredibleStays DEF GuardInv, ClosedCredibly, b
<1> QED BY <1>4, <1>5, <1>6

LEMMA TraceStep ==
    ASSUME OrderInv, OrderInv', GuardInv, [Next]_vars
    PROVE  SkippedLeaveTrace'
<1>1. ASSUME NEW s \in skipped, s.row \in DOMAIN raw_fetches'
      PROVE  s.row \in DOMAIN raw_fetches /\ SameFetch(s.row)
  <2>1. s.row \in Nat /\ s.row <= serial /\ serial \in Nat
    BY BoundsAssumption DEF OrderInv, TypeInv, TypeOK, Times, Skip, RowIds
  <2> QED BY <1>1, <2>1, RowEffects DEF RowEffect
<1>2. ASSUME NEW s \in skipped, s.row \in DOMAIN raw_fetches', feed_anomalies \subseteq feed_anomalies'
      PROVE  Trace(s)'
  <2>1. Trace(s) /\ SameFetch(s.row)
    BY <1>1, <1>2 DEF GuardInv, SkippedLeaveTrace
  <2> QED BY <1>2, <2>1 DEF Trace, SameFetch
<1>3. CASE UNCHANGED <<skipped, feed_anomalies>>
  BY <1>2, <1>3 DEF SkippedLeaveTrace
<1>4. CASE SkipCloseDetection
  <2> DEFINE skip == [row |-> current, previous |-> previous]
  <2>1. /\ current \in DOMAIN raw_fetches /\ Row.payload \in Payloads
        /\ UNCHANGED raw_fetches
        /\ skipped' = skipped \cup {skip}
        /\ raw_fetches[current].day \in Nat /\ raw_fetches[current].day <= day
    BY <1>4, CurrentRow, FetchTypes
       DEF SkipCloseDetection, OrderInv, BeforeMark, InRow, GuardInv, DaysOrdered
  <2>2. feed_anomalies \subseteq feed_anomalies'
    BY <1>4 DEF SkipCloseDetection, InsertFeedAnomaly
  <2>3. Trace(skip)'
    <3>1. CASE IsSteadyStateEmpty(CurrentCount, previous)
      <4>1. DOMAIN Row.payload = {} /\ previous = 0
        BY <2>1, <3>1, PayloadType, FS_EmptySet DEF IsSteadyStateEmpty, CurrentCount
      <4> QED BY <1>4, <2>1, <4>1 DEF Trace, Row, SkipCloseDetection, localVars
    <3>2. CASE ~ IsSteadyStateEmpty(CurrentCount, previous)
      <4>1. feed_anomalies' = InsertFeedAnomaly(Row.board, previous, CurrentCount)
        BY <1>4, <3>2 DEF SkipCloseDetection
      <4>2. \E a \in feed_anomalies' : a.board = Row.board /\ a.day = day
        <5> DEFINE new == [board |-> Row.board, day |-> day,
                           previous |-> previous, current |-> CurrentCount]
        <5>1. CASE \E a \in feed_anomalies : a.board = Row.board /\ a.day = day
          BY <4>1, <5>1 DEF InsertFeedAnomaly
        <5>2. CASE ~ \E a \in feed_anomalies : a.board = Row.board /\ a.day = day
          <6>1. new \in feed_anomalies'
            BY <4>1, <5>2 DEF InsertFeedAnomaly
          <6>2. new.board = Row.board /\ new.day = day
            OBVIOUS
          <6> HIDE DEF new
          <6> QED BY <6>1, <6>2
        <5> QED BY <5>1, <5>2
      <4> QED BY <1>4, <2>1, <4>2 DEF Trace, Row, SkipCloseDetection, localVars
    <3> QED BY <3>1, <3>2
  <2> HIDE DEF skip
  <2> SUFFICES ASSUME NEW s \in skipped', s.row \in DOMAIN raw_fetches' PROVE Trace(s)'
    BY DEF SkippedLeaveTrace
  <2>4. CASE s \in skipped
    BY <1>2, <2>2, <2>4
  <2>5. CASE s = skip
    BY <1>4, <2>3, <2>5 DEF Trace, skip, SkipCloseDetection, localVars
  <2> QED BY <2>1, <2>4, <2>5
<1> QED BY <1>3, <1>4, SkipEffects

LEMMA RebuildKeepsGuard ==
    ASSUME OrderInv, GuardInv, StartFullRun
    PROVE  GuardInv'
<1>1. /\ Emptied' /\ DOMAIN raw_fetches' = DOMAIN raw_fetches
      /\ \A r \in DOMAIN raw_fetches : SameFetch(r)
      /\ \A r \in DOMAIN raw_fetches' : raw_fetches'[r].board \in Boards
  BY RebuildEmpties DEF RawFetch
<1>2. \A r \in DOMAIN raw_fetches' : r \in Nat /\ r # NoTime
  BY <1>1, RowType DEF OrderInv, TypeInv, RowIds, NoTime
<1>3. DaysOrdered' /\ ParsedInOrder' /\ PreviousIsCurrent' /\ SkippedLeaveTrace'
  <2>1. day' = day
    BY DEF StartFullRun
  <2> QED BY <1>1, <2>1 DEF GuardInv, Emptied, DaysOrdered, SameFetch, ParsedInOrder,
             PreviousIsCurrent, SkippedLeaveTrace, BeforeMark
<1>4. SeenWhereListed' /\ ClosedCredibly'
  BY <1>1, <1>2 DEF Emptied, Absent, SeenWhereListed, ClosedCredibly
<1> QED BY <1>3, <1>4 DEF GuardInv

LEMMA GuardInvariant == RebuildSpec => []GuardInv
<1>1. OrderInv /\ OrderInv' /\ GuardInv /\ [Next]_vars => GuardInv'
  BY DaysOrderedStep, ParsedInOrderStep, PreviousStep, SeenWhereListedStep, ClosedCrediblyStep,
     TraceStep DEF GuardInv
<1>2. OrderInv /\ OrderInv' /\ GuardInv /\ [Next \/ StartFullRun]_vars => GuardInv'
  BY <1>1, RebuildKeepsGuard
<1> QED BY GuardStart, <1>2, OrderOfRebuilds, PTL DEF RebuildSpec

(* A posting found missing is never closed by a fetch that looks like a     *)
(* collapsed feed, however runs are interrupted and whatever retention      *)
(* deletes in between.                                                      *)
THEOREM ClosesAreCredible == RebuildSpec => []ClosedByCredibleFeed
<1>1. GuardInv => ClosedByCredibleFeed
  BY DEF GuardInv, ClosedCredibly, Credible, IsBaseline, ClosedByCredibleFeed, Successful
<1> QED BY GuardInvariant, <1>1, PTL

-----------------------------------------------------------------------------
(* What is open: a run that reconciled leaves nothing of a dropped board,   *)
(* and the last fetch of a board decides what is open of it.                *)

(* What process_row has upserted of the row at work is open; once it has    *)
(* closed what is missing, nothing else of the board is, that never closed. *)
UpsertedAreOpen ==
    pc \in BeforeMark => \A i \in DOMAIN Row.payload \ pending : postings[Row.board][i].is_open

MissingAreClosed ==
    pc = "mark" /\ (\A s \in skipped : s.row # current) =>
        \A i \in Ids \ DOMAIN Row.payload :
            postings[Row.board][i].is_open => postings[Row.board][i].closed_at # NoTime

OpenInv == UpsertedAreOpen /\ MissingAreClosed /\ OpenPostingsMatchFeed /\ DroppedBoardsAreClosed

LEMMA OpenStart == Init => OpenInv
BY DEF Init, OpenInv, UpsertedAreOpen, MissingAreClosed, OpenPostingsMatchFeed, Settled,
   DroppedBoardsAreClosed, BeforeMark

LEMMA UpsertedAreOpenStep ==
    ASSUME OrderInv, OrderInv', OpenInv, [Next]_vars
    PROVE  UpsertedAreOpen'
<1> SUFFICES ASSUME pc' \in BeforeMark, NEW i \in DOMAIN Row'.payload, i \notin pending'
             PROVE  postings'[Row'.board][i].is_open
  BY DEF UpsertedAreOpen
<1>1. CASE RowBegins
  BY <1>1 DEF RowBegins, Row
<1>2. CASE RowGoesOn
  <2>1. /\ Row'.board = Row.board /\ Row'.payload = Row.payload /\ pc \in BeforeMark
        /\ Row.board \in Boards /\ i \in Ids
    BY <1>2, RowStays, CurrentRow DEF SameFetch, Row, RowGoesOn, OrderInv, InRow
  <2>2. CASE i \in pending
    BY <1>2, <2>1, <2>2, PostingFields DEF RowGoesOn
  <2>3. CASE i \notin pending
    <3>1. postings[Row.board][i].is_open
      BY <2>1, <2>3 DEF OpenInv, UpsertedAreOpen
    <3>2. ~ MissingEffect(Row.board, i) /\ ~ OrphanEffect(Row.board, i)
      BY <2>1 DEF MissingEffect, OrphanEffect, BeforeMark
    <3>3. postings'[Row.board][i].is_open
      BY <2>1, <3>1, <3>2, PostingEffects, PostingFields DEF PostingEffect
    <3> QED BY <2>1, <3>3
  <2> QED BY <2>2, <2>3
<1> QED BY <1>1, <1>2, LocalEffects DEF LocalEffect

(* process_row gets to its mark through one side of the guard.             *)
LEMMA MarkEffects ==
    ASSUME [Next]_vars, pc' = "mark"
    PROVE  \/ pc = "mark" /\ UNCHANGED <<postings, skipped, current>>
           \/ SkipCloseDetection \/ CloseMissing
BY DEF Next, Environment, ParserStep, ProcessRow, NewDay, EditCompanies, IngestFailure,
   IngestPayload, InsertRawFetch, StartRun, SkipFailure, SkipUnconfigured, BeginRow, UpsertChunk,
   AppendChunk, MarkParsed, StripRow, BeginReconcile, CloseOrphaned, DeleteOldParsed, DetailStep,
   StartDetails, StoreDetail, MarkLatestRawFetchUnparsed, EndDetails, Crash, AfterWrites, vars, databaseVars, localVars

LEMMA MissingAreClosedStep ==
    ASSUME OrderInv, OrderInv', OpenInv, [Next]_vars
    PROVE  MissingAreClosed'
<1> SUFFICES ASSUME pc' = "mark", \A s \in skipped' : s.row # current',
                    NEW i \in Ids, i \notin DOMAIN Row'.payload,
                    postings'[Row'.board][i].is_open
             PROVE  postings'[Row'.board][i].closed_at # NoTime
  BY DEF MissingAreClosed
<1>1. RowGoesOn
  BY LocalEffects, MarkEffects
     DEF LocalEffect, BeforeMark, RowBegins, SkipCloseDetection, CloseMissing
<1>2. /\ Row'.board = Row.board /\ Row'.payload = Row.payload /\ current' = current
      /\ pc \in BeforeMark /\ Row.board \in Boards
  BY <1>1, RowStays, CurrentRow DEF SameFetch, Row, RowGoesOn, OrderInv, InRow
<1>3. CASE pc = "mark" /\ UNCHANGED <<postings, skipped, current>>
  BY <1>2, <1>3 DEF OpenInv, MissingAreClosed
<1>4. ~ SkipCloseDetection
  <2> SUFFICES ASSUME SkipCloseDetection PROVE FALSE
    OBVIOUS
  <2>1. [row |-> current, previous |-> previous] \in skipped'
    BY DEF SkipCloseDetection
  <2> QED BY <1>2, <2>1
<1>5. CASE CloseMissing
  <2>1. postings'[Row.board][i] =
           IF Closable(postings[Row.board][i]) THEN Closed(postings[Row.board][i], current)
           ELSE postings[Row.board][i]
    BY <1>2, <1>5 DEF CloseMissing, OrderInv, TypeInv, TypeOK
  <2>2. ~ Closable(postings[Row.board][i])
    BY <1>2, <1>5, <2>1, PostingFields, DateType DEF OrderInv, TypeInv, Closed, Posting
  <2> QED BY <1>2, <2>1, <2>2 DEF Closable
<1> QED BY <1>3, <1>4, <1>5, MarkEffects

LEMMA MatchStep ==
    ASSUME OrderInv, OrderInv', GuardInv, OpenInv, [Next]_vars
    PROVE  OpenPostingsMatchFeed'
<1> SUFFICES ASSUME NEW r \in DOMAIN raw_fetches', Settled(r)', NEW i \in Ids
             PROVE  LET p == postings'[raw_fetches'[r].board][i]
                    IN  /\ p.is_open => i \in DOMAIN raw_fetches'[r].payload \/ p.closed_at # NoTime
                        /\ i \in DOMAIN raw_fetches'[r].payload =>
                              p.last_seen_at = r /\ (p.is_open \/ p.closed_at = r)
  BY DEF OpenPostingsMatchFeed
<1>1. r \in DOMAIN raw_fetches /\ SameFetch(r)
  BY RowEffects DEF Settled, RowEffect
<1> DEFINE b == raw_fetches[r].board
           old == postings[b][i]
           new == postings'[b][i]
<1>2. b \in Boards /\ r \in Nat /\ Successful(r)
  BY <1>1, FetchTypes DEF Settled, Successful, SameFetch
<1>3. \A s \in skipped : s.row # r
  BY SkipEffects DEF Settled, SkipCloseDetection
<1> SUFFICES /\ new.is_open => i \in DOMAIN raw_fetches[r].payload \/ new.closed_at # NoTime
             /\ i \in DOMAIN raw_fetches[r].payload =>
                   new.last_seen_at = r /\ (new.is_open \/ new.closed_at = r)
  BY <1>1 DEF SameFetch
<1> HIDE DEF new, old
<1>4. CASE raw_fetches[r].parsed
  <2>1. ASSUME NEW q \in DOMAIN raw_fetches, raw_fetches[q].board = b, Successful(q) PROVE q <= r
    <3>1. CASE q \in DOMAIN raw_fetches'
      <4>1. SameFetch(q)
        BY <3>1, RowEffects DEF RowEffect
      <4> QED BY <1>1, <2>1, <3>1, <4>1 DEF Settled, SameFetch, Successful
    <3>2. CASE q \notin DOMAIN raw_fetches'
      <4>1. ~ (r < q)
        BY <1>1, <1>4, <3>2, RowEffects DEF RowEffect
      <4> QED BY <1>2, <4>1, FetchTypes
    <3> QED BY <3>1, <3>2
  <2>2. Settled(r)
    BY <1>1, <1>2, <1>3, <1>4, <2>1 DEF Settled
  <2>3. /\ old.is_open => i \in DOMAIN raw_fetches[r].payload \/ old.closed_at # NoTime
        /\ i \in DOMAIN raw_fetches[r].payload =>
              old.last_seen_at = r /\ (old.is_open \/ old.closed_at = r)
    BY <1>1, <2>2 DEF OpenInv, OpenPostingsMatchFeed, old
  <2>4. ~ UpsertEffect(b, i) /\ ~ MissingEffect(b, i)
    <3> SUFFICES ASSUME pc \in BeforeMark, b = Row.board PROVE FALSE
      BY DEF UpsertEffect, MissingEffect, BeforeMark
    <3>1. /\ current \in DOMAIN raw_fetches /\ Successful(current) /\ ~ raw_fetches[current].parsed
          /\ current \in Nat /\ raw_fetches[current].board = b
      BY CurrentRow DEF OrderInv, InRow, RowIds, Row
    <3>2. current < r
      BY <1>2, <1>4, <2>1, <3>1
    <3> QED BY <1>1, <1>2, <1>4, <3>1, <3>2 DEF GuardInv, ParsedInOrder
  <2>5. CASE OrphanEffect(b, i)
    <3>1. ~ new.is_open /\ new.last_seen_at = old.last_seen_at /\ new.closed_at = old.last_seen_at
      BY <1>2, <2>5, PostingFields DEF new, old
    <3> QED BY <2>3, <3>1
  <2>6. CASE new = old
    BY <2>3, <2>6
  <2> QED BY <1>2, <2>4, <2>5, <2>6, PostingEffects DEF PostingEffect, new, old
<1>5. CASE ~ raw_fetches[r].parsed
  <2>1. pc = "mark" /\ r = current
    BY <1>1, <1>2, <1>5, RowEffects DEF RowEffect, Settled
  <2>2. /\ pending = {} /\ pc \in BeforeMark
        /\ b = Row.board /\ DOMAIN raw_fetches[r].payload = DOMAIN Row.payload
    BY <2>1 DEF OrderInv, TypeInv, LocalsOK, BeforeMark, Row
  <2>3. new = old
    BY <1>2, <2>1, PostingEffects
       DEF PostingEffect, UpsertEffect, MissingEffect, OrphanEffect, new, old
  <2>4. old.is_open => i \in DOMAIN raw_fetches[r].payload \/ old.closed_at # NoTime
    BY <1>3, <2>1, <2>2 DEF OpenInv, MissingAreClosed, old
  <2>5. i \in DOMAIN raw_fetches[r].payload => old.last_seen_at = r /\ old.is_open
    BY <2>1, <2>2 DEF OpenInv, UpsertedAreOpen, OrderInv, UpsertedSoFar, old
  <2> QED BY <2>3, <2>4, <2>5
<1> QED BY <1>4, <1>5

LEMMA DroppedStep ==
    ASSUME OrderInv, OpenInv, [Next]_vars
    PROVE  DroppedBoardsAreClosed'
<1> SUFFICES ASSUME pc' = "reconcile", NEW b \in Boards, b \notin configured', b \notin orphaned',
                    NEW i \in Ids
             PROVE  ~ Closable(postings'[b][i])
  BY DEF DroppedBoardsAreClosed
<1>1. CASE BeginReconcile
  BY <1>1 DEF BeginReconcile, BoardsWithOpen, Closable, databaseVars
<1>2. ASSUME NEW c \in Boards, CloseOrphaned(c) PROVE ~ Closable(postings'[b][i])
  <2>1. postings \in [Boards -> [Ids -> Posting]]
    BY DEF OrderInv, TypeInv, TypeOK
  <2>2. CASE b = c
    <3>1. \/ Closable(postings[b][i]) /\ postings'[b][i] = Closed(postings[b][i], postings[b][i].last_seen_at)
          \/ ~ Closable(postings[b][i]) /\ postings'[b][i] = postings[b][i]
      BY <1>2, <2>1, <2>2 DEF CloseOrphaned, OrphanClosedAt
    <3>2. ~ Closed(postings[b][i], postings[b][i].last_seen_at).is_open
      BY <2>1 DEF Closed, Posting
    <3> QED BY <3>1, <3>2 DEF Closable
  <2>3. CASE b # c
    BY <1>2, <2>1, <2>3 DEF CloseOrphaned, OpenInv, DroppedBoardsAreClosed
  <2> QED BY <2>2, <2>3
<1>3. CASE pc = "reconcile" /\ UNCHANGED <<postings, configured, orphaned>>
  BY <1>3 DEF OpenInv, DroppedBoardsAreClosed
<1>4. \/ BeginReconcile \/ \E c \in Boards : CloseOrphaned(c)
      \/ pc = "reconcile" /\ UNCHANGED <<postings, configured, orphaned>>
  BY DEF Next, Environment, ParserStep, ProcessRow, NewDay, EditCompanies, IngestFailure,
     IngestPayload, InsertRawFetch, StartRun, SkipFailure, SkipUnconfigured, BeginRow, UpsertChunk,
     AppendChunk, SkipCloseDetection, CloseMissing, MarkParsed, StripRow, DeleteOldParsed,
     DetailStep, StartDetails, StoreDetail, MarkLatestRawFetchUnparsed, EndDetails, Crash,
     AfterWrites, vars, databaseVars, localVars
<1> QED BY <1>1, <1>2, <1>3, <1>4

LEMMA RebuildKeepsOpen ==
    ASSUME OrderInv, StartFullRun
    PROVE  OpenInv'
<1>1. Emptied'
  BY RebuildEmpties
<1> QED BY <1>1 DEF Emptied, OpenInv, UpsertedAreOpen, MissingAreClosed, OpenPostingsMatchFeed,
           Settled, DroppedBoardsAreClosed, BeforeMark

LEMMA OpenInvariant == RebuildSpec => []OpenInv
<1>1. OrderInv /\ OrderInv' /\ GuardInv /\ OpenInv /\ [Next]_vars => OpenInv'
  BY UpsertedAreOpenStep, MissingAreClosedStep, MatchStep, DroppedStep DEF OpenInv
<1>2. OrderInv /\ OrderInv' /\ GuardInv /\ OpenInv /\ [Next \/ StartFullRun]_vars => OpenInv'
  BY <1>1, RebuildKeepsOpen
<1> QED BY OpenStart, <1>2, OrderOfRebuilds, GuardInvariant, PTL DEF RebuildSpec

(* Once a board's last successful fetch is parsed and the guard let it      *)
(* close, its open postings are those the fetch lists, but for postings     *)
(* that had been closed before.                                             *)
THEOREM OpenPostingsFollowFeed == RebuildSpec => []OpenPostingsMatchFeed
<1>1. OpenInv => OpenPostingsMatchFeed  BY DEF OpenInv
<1> QED BY OpenInvariant, <1>1, PTL

(* Where a posting that never closed stays open though its board's last      *)
(* fetch does not list it, an anomaly of the board says so, or the fetch     *)
(* was empty and so was the baseline that the guard compared it with.        *)
THEOREM TrippedGuardsAreSeen == RebuildSpec => []TrippedGuardLeavesTrace
<1>1. GuardInv /\ OpenInv => TrippedGuardLeavesTrace
  <2> SUFFICES ASSUME GuardInv, OpenInv, NEW r \in DOMAIN raw_fetches, NEW i \in Ids,
                      LeftOpen(r, i)
               PROVE  \/ \E a \in feed_anomalies :
                            a.board = raw_fetches[r].board /\ raw_fetches[r].day <= a.day
                      \/ /\ DOMAIN raw_fetches[r].payload = {}
                         /\ \E s \in skipped : s.row = r /\ s.previous = 0
    BY DEF TrippedGuardLeavesTrace
  <2>1. CASE \E s \in skipped : s.row = r
    <3>1. PICK s \in skipped : s.row = r
      BY <2>1
    <3>2. Trace(s)
      BY <3>1 DEF GuardInv, SkippedLeaveTrace
    <3> QED BY <3>1, <3>2 DEF Trace
  <2>2. CASE \A s \in skipped : s.row # r
    <3>1. Settled(r)
      BY <2>2 DEF LeftOpen, LatestSuccessful, Settled, Successful
    <3> QED BY <3>1 DEF LeftOpen, Closable, OpenInv, OpenPostingsMatchFeed
  <2> QED BY <2>1, <2>2
<1> QED BY GuardInvariant, OpenInvariant, <1>1, PTL

(* A board dropped from companies.yaml ends with nothing open for the first *)
(* time.                                                                    *)
THEOREM DroppedBoardsClose == RebuildSpec => []DroppedBoardsAreClosed
<1>1. OpenInv => DroppedBoardsAreClosed  BY DEF OpenInv
<1> QED BY OpenInvariant, <1>1, PTL

-----------------------------------------------------------------------------
(* Text, as long as no run stops half-way (MaxCrashes = 0: a row parsed      *)
(* again after its upsert finds nothing changed, and appends no version).    *)

LastContent(vs) == vs[Len(vs)].content

(* A posting has content, and versions, only if it has a row.              *)
ContentOfPostings ==
    \A b \in Boards, i \in Ids :
        ~ Present(b, i) => postings[b][i].content = NoContent /\ posting_versions[b][i] = <<>>

(* What process_row has not left in appends is the last version; what it    *)
(* has, differs from it.                                                    *)
AppendsInv ==
    pc \in BeforeMark =>
        /\ \A i \in DOMAIN Row.payload \ appends :
              /\ posting_versions[Row.board][i] # <<>>
              /\ LastContent(posting_versions[Row.board][i]) = RowText(i)
        /\ \A i \in appends :
              posting_versions[Row.board][i] # <<>>
              => LastContent(posting_versions[Row.board][i]) # RowText(i)

ParsedTextIsKept ==
    \A r \in DOMAIN raw_fetches :
        raw_fetches[r].parsed /\ Successful(r) =>
            \A i \in DOMAIN raw_fetches[r].payload :
                \E n \in DOMAIN posting_versions[raw_fetches[r].board][i] :
                    posting_versions[raw_fetches[r].board][i][n].content.listed
                        = raw_fetches[r].payload[i]

StrippedAreParsed ==
    \A r \in DOMAIN raw_fetches :
        raw_fetches[r].stripped =>
            raw_fetches[r].parsed /\ Successful(r) /\ raw_fetches[r].board \notin TwoStage

TextInv ==
    ContentOfPostings /\ AppendsInv /\ LastVersionIsCurrent /\ ParsedTextIsKept
        /\ StrippedAreParsed /\ ParsedRowsAreStripped

LEMMA TextStart == Init => TextInv
BY DEF Init, TextInv, ContentOfPostings, AppendsInv, LastVersionIsCurrent, ParsedTextIsKept,
   StrippedAreParsed, ParsedRowsAreStripped, Present, Exists, Absent, BeforeMark

(* Without a crash, a row with something left to append goes on; and a row   *)
(* that has been marked is stripped before it is left.                       *)
LEMMA NoCrashEffects ==
    ASSUME MaxCrashes = 0, OrderInv, [Next]_vars
    PROVE  /\ pc \in BeforeMark /\ appends # {} => pc' \in BeforeMark
           /\ pc = "strip" /\ current' # current => StripRow
<1>1. ~ Crash
  BY DEF Crash, OrderInv, TypeInv, TypeOK
<1>2. pc \in BeforeMark /\ appends # {} => pc \in {"upsert", "append"}
  BY DEF OrderInv, TypeInv, LocalsOK, BeforeMark
<1>3. pc \in {"upsert", "append"} => pc' \in BeforeMark
  BY <1>1 DEF Next, Environment, ParserStep, ProcessRow, NewDay, EditCompanies, IngestFailure,
     IngestPayload, InsertRawFetch, StartRun, SkipFailure, SkipUnconfigured, BeginRow, UpsertChunk,
     AppendChunk, SkipCloseDetection, CloseMissing, MarkParsed, StripRow, BeginReconcile,
     CloseOrphaned, DeleteOldParsed, DetailStep, StartDetails, StoreDetail,
     MarkLatestRawFetchUnparsed, EndDetails, AfterWrites, BeforeMark, vars
<1>4. pc = "strip" /\ current' # current => StripRow
  BY <1>1 DEF Next, Environment, ParserStep, ProcessRow, NewDay, EditCompanies, IngestFailure,
     IngestPayload, InsertRawFetch, StartRun, SkipFailure, SkipUnconfigured, BeginRow, UpsertChunk,
     AppendChunk, SkipCloseDetection, CloseMissing, MarkParsed, BeginReconcile,
     CloseOrphaned, DeleteOldParsed, DetailStep, StartDetails, StoreDetail,
     MarkLatestRawFetchUnparsed, EndDetails, vars, localVars
<1> QED BY <1>2, <1>3, <1>4

LEMMA AppendedLast ==
    ASSUME OrderInv, NEW b \in Boards, NEW i \in Ids, AppendEffect(b, i)
    PROVE  /\ posting_versions'[b][i] # <<>> /\ LastContent(posting_versions'[b][i]) = RowText(i)
           /\ Present(b, i) /\ Present(b, i)'
           /\ postings[b][i].content = RowText(i) /\ postings' = postings
<1>1. /\ pc \in BeforeMark /\ pending = {} /\ postings' = postings /\ b = Row.board
      /\ i \in DOMAIN Row.payload
      /\ Len(posting_versions'[b][i]) = Len(posting_versions[b][i]) + 1
      /\ Len(posting_versions[b][i]) \in Nat
      /\ posting_versions'[b][i][Len(posting_versions'[b][i])].content = RowText(i)
  BY Appended
<1>2. Present(b, i) /\ postings[b][i].content = RowText(i)
  BY <1>1 DEF OrderInv, UpsertedSoFar, Present
<1> QED BY <1>1, <1>2 DEF LastContent, Present

LEMMA ContentOfPostingsStep ==
    ASSUME OrderInv, OrderInv', TextInv, [Next]_vars
    PROVE  ContentOfPostings'
<1> SUFFICES ASSUME NEW b \in Boards, NEW i \in Ids, ~ Present(b, i)'
             PROVE  postings'[b][i].content = NoContent /\ posting_versions'[b][i] = <<>>
  BY DEF ContentOfPostings
<1>1. ~ UpsertEffect(b, i)
  <2> SUFFICES ASSUME UpsertEffect(b, i) PROVE FALSE
    OBVIOUS
  <2>1. current # NoTime
    BY CurrentRow DEF UpsertEffect, OrderInv, BeforeMark, InRow
  <2> QED BY <2>1 DEF UpsertEffect, Upserted, Present, Exists
<1>2. ~ Present(b, i) /\ postings'[b][i].content = postings[b][i].content
  BY <1>1, PostingEffects, PostingFields DEF PostingEffect, Present, Exists
<1>3. ~ AppendEffect(b, i)
  BY AppendedLast
<1> QED BY <1>2, <1>3, VersionEffects DEF VersionEffect, TextInv, ContentOfPostings

LEMMA AppendsInvStep ==
    ASSUME OrderInv, OrderInv', TextInv, [Next]_vars
    PROVE  AppendsInv'
<1> SUFFICES ASSUME pc' \in BeforeMark, NEW i \in DOMAIN Row'.payload
             PROVE  /\ i \notin appends' =>
                          posting_versions'[Row'.board][i] # <<>>
                          /\ LastContent(posting_versions'[Row'.board][i]) = RowText(i)'
                    /\ i \in appends' =>
                          (posting_versions'[Row'.board][i] # <<>>
                           => LastContent(posting_versions'[Row'.board][i]) # RowText(i)')
  <2>1. appends' \subseteq DOMAIN Row'.payload
    BY DEF OrderInv, TypeInv, LocalsOK, InRow
  <2> QED BY <2>1 DEF AppendsInv
<1>1. CASE RowBegins
  <2> DEFINE r == current'
             b == raw_fetches[r].board
  <2>1. /\ r \in DOMAIN raw_fetches /\ Row' = raw_fetches[r] /\ Successful(r)
        /\ posting_versions' = posting_versions /\ current = NoRow
        /\ appends' = {j \in DOMAIN raw_fetches[r].payload :
                          postings[b][j].content # Text(b, raw_fetches[r].payload, j)}
        /\ \A j : RowText(j)' = Text(b, raw_fetches[r].payload, j)
    BY <1>1 DEF RowBegins, Unparsed, Row, ChangedIds, RowText, Text
  <2>2. b \in Boards /\ i \in Ids
    BY <2>1, FetchTypes
  <2>3. RowText(i)' # NoContent
    BY <2>1, <2>2, RowType, TextType DEF OrderInv, TypeInv
  <2>4. Present(b, i) =>
           /\ posting_versions[b][i] # <<>>
           /\ LastContent(posting_versions[b][i]) = postings[b][i].content
    BY <2>1, <2>2 DEF TextInv, LastVersionIsCurrent, LastContent
  <2>5. ~ Present(b, i) => postings[b][i].content = NoContent /\ posting_versions[b][i] = <<>>
    BY <2>2 DEF TextInv, ContentOfPostings
  <2> QED BY <2>1, <2>3, <2>4, <2>5
<1>2. CASE RowGoesOn
  <2>1. /\ Row'.board = Row.board /\ Row'.payload = Row.payload /\ pc \in BeforeMark
        /\ Row.board \in Boards /\ i \in Ids /\ RowText(i)' = RowText(i)
    BY <1>2, RowStays, CurrentRow DEF SameFetch, Row, RowGoesOn, OrderInv, InRow
  <2>2. CASE i \in appends \ appends'
    BY <1>2, <2>1, <2>2, AppendedLast DEF RowGoesOn
  <2>3. CASE ~ (i \in appends \ appends')
    <3>1. posting_versions'[Row.board][i] = posting_versions[Row.board][i]
      BY <2>1, <2>3, VersionEffects DEF VersionEffect, AppendEffect
    <3>2. (i \in appends') <=> (i \in appends)
      BY <1>2, <2>3 DEF RowGoesOn
    <3> QED BY <2>1, <3>1, <3>2 DEF TextInv, AppendsInv
  <2> QED BY <2>2, <2>3
<1> QED BY <1>1, <1>2, LocalEffects DEF LocalEffect

LEMMA BelowLast ==
    ASSUME NEW last \in Nat, NEW n \in Nat, 1 <= n, n <= last, n # last
    PROVE  n \in 1..(last - 1) /\ n \in 1..last /\ n + 1 \in 1..last
OBVIOUS

LEMMA LastVersionStep ==
    ASSUME MaxCrashes = 0, OrderInv, OrderInv', TextInv, [Next]_vars
    PROVE  LastVersionIsCurrent'
<1> SUFFICES ASSUME NEW b \in Boards, NEW i \in Ids
             PROVE  LET vs == posting_versions'[b][i]
                    IN  /\ (current' = NoRow \/ Row'.board # b \/ i \notin appends')
                           /\ Exists(postings'[b][i])
                           => vs # <<>> /\ LastContent(vs) = postings'[b][i].content
                        /\ \A n \in 1..(Len(vs) - 1) : vs[n].content # vs[n + 1].content
  BY DEF LastVersionIsCurrent, Present, LastContent
<1> DEFINE old == posting_versions[b][i]
           vs  == posting_versions'[b][i]
<1>1. /\ \A n \in 1..(Len(old) - 1) : old[n].content # old[n + 1].content
      /\ (current = NoRow \/ Row.board # b \/ i \notin appends) /\ Present(b, i)
         => old # <<>> /\ LastContent(old) = postings[b][i].content
  BY DEF TextInv, LastVersionIsCurrent, LastContent
<1>2. CASE AppendEffect(b, i)
  <2>1. /\ pc \in BeforeMark /\ b = Row.board /\ i \in DOMAIN Row.payload
        /\ Len(old) \in Nat /\ Len(vs) = Len(old) + 1
        /\ DOMAIN old = 1..Len(old)
        /\ \A n \in DOMAIN old : vs[n] = old[n]
    BY <1>2, Appended
  <2>2. /\ vs # <<>> /\ LastContent(vs) = RowText(i)
        /\ postings'[b][i].content = RowText(i)
    BY <1>2, AppendedLast
  <2>3. old # <<>> => LastContent(old) # LastContent(vs)
    BY <1>2, <2>1, <2>2 DEF TextInv, AppendsInv, AppendEffect
  <2> HIDE DEF vs, old
  <2>4. ASSUME NEW n \in 1..(Len(vs) - 1) PROVE vs[n].content # vs[n + 1].content
    <3>1. CASE n = Len(old)
      <4>1. old # <<>> /\ vs[n] = old[n]
        BY <2>1, <2>4, <3>1
      <4> QED BY <2>1, <2>3, <3>1, <4>1 DEF LastContent
    <3>2. CASE n # Len(old)
      <4>0. Len(old) \in Nat /\ Len(vs) = Len(old) + 1 /\ DOMAIN old = 1..Len(old)
        BY <2>1
      <4>1. n \in Nat /\ 1 <= n /\ n <= Len(old)
        BY <2>4, <4>0
      <4>2. n \in 1..(Len(old) - 1) /\ n + 1 \in DOMAIN old /\ n \in DOMAIN old
        BY <3>2, <4>0, <4>1, BelowLast
      <4>3. old[n].content # old[n + 1].content
        BY <1>1, <4>2 DEF old
      <4> QED BY <2>1, <4>2, <4>3
    <3> QED BY <3>1, <3>2
  <2> QED BY <2>2, <2>4 DEF vs
<1>3. CASE vs = old
  <2> SUFFICES ASSUME ~ AppendEffect(b, i),
                      current' = NoRow \/ Row'.board # b \/ i \notin appends',
                      Exists(postings'[b][i])
               PROVE  old # <<>> /\ LastContent(old) = postings'[b][i].content
    BY <1>1, <1>2, <1>3
  <2>1. CASE UpsertEffect(b, i)
    <3>1. /\ pc \in BeforeMark /\ pc' \in BeforeMark /\ pc = "upsert" /\ b = Row.board
          /\ i \in DOMAIN Row.payload /\ appends' = appends
          /\ postings'[b][i].content = RowText(i)
      BY <2>1, PostingFields DEF UpsertEffect, BeforeMark
    <3>2. RowGoesOn
      BY <3>1, LocalEffects DEF LocalEffect, RowBegins
    <3>3. Row'.board = b /\ current' # NoRow
      BY <3>1, <3>2, RowStays, CurrentRow
         DEF RowGoesOn, SameFetch, Row, OrderInv, InRow, NoTime, NoRow
    <3> QED BY <3>1, <3>3 DEF TextInv, AppendsInv
  <2>2. CASE ~ UpsertEffect(b, i)
    <3>1. postings'[b][i].content = postings[b][i].content /\ Present(b, i)
      BY <2>2, PostingEffects, PostingFields DEF PostingEffect, Present, Exists
    <3>2. current = NoRow \/ Row.board # b \/ i \notin appends
      <4> SUFFICES ASSUME current # NoRow, Row.board = b, i \in appends PROVE FALSE
        OBVIOUS
      <4>1. pc \in BeforeMark /\ pc' \in BeforeMark
        BY NoCrashEffects DEF OrderInv, TypeInv, LocalsOK, InRow, BeforeMark
      <4>2. RowGoesOn
        BY <4>1, LocalEffects DEF LocalEffect, RowBegins, BeforeMark
      <4>3. Row'.board = b /\ current' = current /\ i \in appends'
        BY <4>2, RowStays DEF RowGoesOn, SameFetch, Row
      <4> QED BY <4>3
    <3> QED BY <1>1, <3>1, <3>2
  <2> QED BY <2>1, <2>2
<1> QED BY <1>2, <1>3, VersionEffects DEF VersionEffect

LEMMA ParsedTextStep ==
    ASSUME OrderInv, OrderInv', TextInv, [Next]_vars
    PROVE  ParsedTextIsKept'
<1> SUFFICES ASSUME NEW r \in DOMAIN raw_fetches', raw_fetches'[r].parsed, Successful(r)',
                    NEW i \in DOMAIN raw_fetches'[r].payload
             PROVE  \E n \in DOMAIN posting_versions'[raw_fetches'[r].board][i] :
                       posting_versions'[raw_fetches'[r].board][i][n].content.listed
                          = raw_fetches'[r].payload[i]
  BY DEF ParsedTextIsKept
<1> DEFINE b == raw_fetches[r].board
           c == raw_fetches[r].payload[i]
<1>1. r \in DOMAIN raw_fetches /\ SameFetch(r) /\ Successful(r)
  BY RowEffects DEF RowEffect, SameFetch, Successful
<1>2. b \in Boards /\ i \in Ids /\ i \in DOMAIN raw_fetches[r].payload
  BY <1>1, FetchTypes DEF SameFetch
<1>3. CASE raw_fetches[r].parsed
  <2>1. PICK n \in DOMAIN posting_versions[b][i] : posting_versions[b][i][n].content.listed = c
    BY <1>1, <1>2, <1>3 DEF TextInv, ParsedTextIsKept
  <2>2. n \in DOMAIN posting_versions'[b][i] /\ posting_versions'[b][i][n] = posting_versions[b][i][n]
    BY <1>2, <2>1, VersionEffects, Appended DEF VersionEffect
  <2> QED BY <1>1, <2>1, <2>2 DEF SameFetch
<1>4. CASE ~ raw_fetches[r].parsed
  <2>1. pc = "mark" /\ r = current
    BY <1>1, <1>4, RowEffects DEF RowEffect
  <2>2. appends = {} /\ pc \in BeforeMark /\ b = Row.board /\ c = Row.payload[i]
        /\ i \in DOMAIN Row.payload
    BY <1>2, <2>1 DEF OrderInv, TypeInv, LocalsOK, BeforeMark, Row
  <2> HIDE DEF b, c
  <2> DEFINE vs == posting_versions[b][i]
  <2>3. vs # <<>> /\ LastContent(vs).listed = c
    <3>1. vs # <<>> /\ LastContent(vs) = RowText(i)
      BY <2>2 DEF TextInv, AppendsInv
    <3> HIDE DEF vs
    <3>2. RowText(i).listed = c
      BY <2>2 DEF RowText, Text
    <3> QED BY <3>1, <3>2
  <2>4. vs \in Seq(Version)
    BY <1>2, DateType DEF OrderInv, TypeInv
  <2>5. posting_versions'[b][i] = vs
    BY <1>2, <2>1, VersionEffects DEF VersionEffect, AppendEffect
  <2> HIDE DEF vs
  <2>6. Len(vs) \in DOMAIN vs
    BY <2>3, <2>4
  <2> QED BY <1>1, <2>3, <2>5, <2>6 DEF SameFetch, LastContent, b, c
<1> QED BY <1>3, <1>4

LEMMA StrippedStep ==
    ASSUME MaxCrashes = 0, OrderInv, OrderInv', TextInv, [Next]_vars
    PROVE  StrippedAreParsed' /\ ParsedRowsAreStripped'
<1>1. StrippedAreParsed'
  <2> SUFFICES ASSUME NEW r \in DOMAIN raw_fetches', raw_fetches'[r].stripped
               PROVE  /\ raw_fetches'[r].parsed /\ Successful(r)'
                      /\ raw_fetches'[r].board \notin TwoStage
    BY DEF StrippedAreParsed
  <2>1. r \in DOMAIN raw_fetches /\ SameFetch(r)
    BY RowEffects DEF RowEffect
  <2>2. raw_fetches[r].parsed /\ Successful(r) /\ raw_fetches[r].board \notin TwoStage
    <3>1. CASE raw_fetches[r].stripped
      BY <2>1, <3>1 DEF TextInv, StrippedAreParsed
    <3>2. CASE ~ raw_fetches[r].stripped
      BY <2>1, <3>2, RowEffects, CurrentRow
         DEF RowEffect, OrderInv, TypeInv, LocalsOK, InRow, Row
    <3> QED BY <3>1, <3>2
  <2> QED BY <2>1, <2>2, RowEffects DEF RowEffect, Flagged, SameFetch, Successful
<1>2. ASSUME NEW r \in DOMAIN raw_fetches', raw_fetches'[r].parsed, r # current', Successful(r)',
             CarriesText(raw_fetches'[r])
      PROVE  raw_fetches'[r].stripped
  <2>1. r \in DOMAIN raw_fetches /\ SameFetch(r) /\ Successful(r) /\ CarriesText(raw_fetches[r])
    BY <1>2, RowEffects DEF RowEffect, SameFetch, Successful, CarriesText
  <2>2. raw_fetches[r].parsed
    BY <1>2, <2>1, RowEffects DEF RowEffect
  <2>3. CASE r # current
    BY <2>1, <2>2, <2>3, RowEffects DEF TextInv, ParsedRowsAreStripped, RowEffect
  <2>4. CASE r = current
    <3>1. pc = "strip"
      <4>1. pc \in InRow
        BY <2>1, <2>4, FetchTypes, RowType
           DEF OrderInv, TypeInv, LocalsOK, NoRow, RowIds
      <4> QED BY <2>2, <2>4, <4>1, CurrentRow DEF OrderInv, InRow, Row
    <3>2. StripRow
      BY <1>2, <2>4, <3>1, NoCrashEffects
    <3>3. StripsRow
      BY <2>1, <2>4 DEF StripsRow, Row
    <3> QED BY <2>1, <2>4, <3>2, <3>3 DEF StripRow, OrderInv, TypeInv, TypeOK, RawFetch
  <2> QED BY <2>3, <2>4
<1> QED BY <1>1, <1>2 DEF ParsedRowsAreStripped

(* A rebuild is refused while a row is stripped, so none is afterwards.     *)
LEMMA RebuildKeepsText ==
    ASSUME OrderInv, TextInv, StartFullRun
    PROVE  TextInv'
<1>1. /\ Emptied' /\ DOMAIN raw_fetches' = DOMAIN raw_fetches
      /\ \A r \in DOMAIN raw_fetches : raw_fetches'[r].stripped = raw_fetches[r].stripped
  BY RebuildEmpties
<1>2. \A r \in DOMAIN raw_fetches' : ~ raw_fetches'[r].stripped
  BY <1>1 DEF StartFullRun, Rebuildable, StrippedRows, TextInv, StrippedAreParsed, Successful
<1>3. ContentOfPostings' /\ AppendsInv'
  BY <1>1 DEF Emptied, Absent, ContentOfPostings, AppendsInv, BeforeMark
<1>4. LastVersionIsCurrent'
  <2>1. \A b \in Boards, i \in Ids : ~ Present(b, i)' /\ posting_versions'[b][i] = <<>>
    BY <1>1 DEF Emptied, Absent, Present, Exists, NoTime
  <2> QED BY <2>1 DEF LastVersionIsCurrent
<1>5. ParsedTextIsKept' /\ StrippedAreParsed' /\ ParsedRowsAreStripped'
  BY <1>1, <1>2 DEF Emptied, ParsedTextIsKept, StrippedAreParsed, ParsedRowsAreStripped
<1> QED BY <1>3, <1>4, <1>5 DEF TextInv

LEMMA TextInvariant == ASSUME MaxCrashes = 0 PROVE RebuildSpec => []TextInv
<1>1. ASSUME OrderInv, OrderInv', TextInv, [Next]_vars PROVE TextInv'
  BY <1>1, ContentOfPostingsStep, AppendsInvStep, LastVersionStep, ParsedTextStep, StrippedStep
     DEF TextInv
<1>2. OrderInv /\ OrderInv' /\ TextInv /\ [Next \/ StartFullRun]_vars => TextInv'
  BY <1>1, RebuildKeepsText
<1> QED BY TextStart, <1>2, OrderOfRebuilds, PTL DEF RebuildSpec

(* As long as no run stops half-way: the last version of a posting holds     *)
(* the content its row was hashed from, and two versions in a row differ.    *)
THEOREM HistoryIsCurrent == ASSUME MaxCrashes = 0 PROVE RebuildSpec => []LastVersionIsCurrent
<1>1. TextInv => LastVersionIsCurrent  BY DEF TextInv
<1> QED BY TextInvariant, <1>1, PTL

(* As long as no run stops half-way: whatever a stripped row lists is in      *)
(* some version.                                                             *)
THEOREM StrippingLosesNoText == ASSUME MaxCrashes = 0 PROVE RebuildSpec => []StrippedTextIsKept
<1>1. TextInv => StrippedTextIsKept
  BY DEF TextInv, StrippedAreParsed, ParsedTextIsKept, StrippedTextIsKept
<1> QED BY TextInvariant, <1>1, PTL

(* As long as no run stops half-way: between two rows no parsed row keeps     *)
(* its description text.                                                     *)
THEOREM ParsedRowsGetStripped == ASSUME MaxCrashes = 0 PROVE RebuildSpec => []ParsedRowsAreStripped
<1>1. TextInv => ParsedRowsAreStripped  BY DEF TextInv
<1> QED BY TextInvariant, <1>1, PTL

(* As long as no run stops half-way: whatever a row listed that retention     *)
(* deletes is on record, as a posting seen since and as a version.            *)
THEOREM RetentionLosesNothing == ASSUME MaxCrashes = 0 PROVE RebuildSpec => DeletionLosesNothing
<1>1. ASSUME OrderInv, TextInv, [Next]_vars, NEW r \in DOMAIN raw_fetches \ DOMAIN raw_fetches',
             Successful(r), NEW i \in DOMAIN raw_fetches[r].payload
      PROVE  LET b == raw_fetches[r].board
             IN  /\ r <= postings[b][i].last_seen_at
                 /\ \E n \in DOMAIN posting_versions[b][i] :
                       posting_versions[b][i][n].content.listed = raw_fetches[r].payload[i]
  <2>1. raw_fetches[r].parsed
    BY <1>1, RowEffects DEF RowEffect
  <2> QED BY <1>1, <2>1 DEF OrderInv, ParsedRowsApplied, TextInv, ParsedTextIsKept
<1>2. OrderInv /\ TextInv /\ [Next \/ StartFullRun]_vars
      => [\A r \in DOMAIN raw_fetches \ DOMAIN raw_fetches' :
            Successful(r) =>
              \A i \in DOMAIN raw_fetches[r].payload :
                  LET b == raw_fetches[r].board
                  IN  /\ r <= postings[b][i].last_seen_at
                      /\ \E n \in DOMAIN posting_versions[b][i] :
                            posting_versions[b][i][n].content.listed = raw_fetches[r].payload[i]]_vars
  BY <1>1, RebuildEmpties
<1> QED BY OrderOfRebuilds, TextInvariant, <1>2, PTL DEF RebuildSpec, DeletionLosesNothing
=============================================================================
