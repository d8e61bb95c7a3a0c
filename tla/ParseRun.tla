------------------------------ MODULE ParseRun ------------------------------
(***************************************************************************)
(* parse_run.run: the pass that turns rows of raw_fetches into postings,   *)
(* posting_versions and feed_anomalies, with the writes of ingest.run that *)
(* feed it, those of detail_run.run that have a row parsed again, and the  *)
(* deploys that edit companies.yaml.                                       *)
(*                                                                         *)
(* Every action that writes is one committed transaction of the code, so a *)
(* Crash (an exception, a dropped connection, a killed container) may fall *)
(* between any two of them and loses only the locals of the process.       *)
(*                                                                         *)
(* A row's id doubles as its fetched_at: rows are inserted one at a time   *)
(* with fetched_at DEFAULT now(), so ids and times are ordered alike; the  *)
(* calendar day is kept beside it.  A payload is the postings the board's  *)
(* extractor finds in it: a function from external ids to contents.  What  *)
(* compute_content_hash tells apart is a text: the content the payload     *)
(* lists and the detail raw_details holds when the row is parsed.          *)
(***************************************************************************)
EXTENDS Integers, FiniteSets, Sequences

CONSTANTS
    Boards,         \* the (source, company) pairs collected so far
    TwoStage,       \* the boards whose extractor has NEEDS_DETAILS (Workday)
    Configurable,   \* the boards a deploy may add to or drop from companies.yaml
    Ids,            \* external ids of postings
    Contents,       \* what a payload lists of a posting, as hashed
    Details,        \* location and description from a posting's detail, as hashed
    NoDetail,       \* no raw_details row, or one of a failed request
    NoContent,      \* the text of a posting that has no row
    NoPayload,      \* the payload of a failed fetch (NULL)
    MinPrevious,    \* SHRINK_GUARD_MIN_PREVIOUS
    RetentionDays,  \* RAW_FETCHES_RETENTION_DAYS
    ChunkSize,      \* CHUNK_SIZE: rows per committed statement
    MaxFetches,     \* bound: rows ever inserted
    MaxDay,         \* bound: calendar days
    MaxDuplicates,  \* bound: repeated ids in one payload
    MaxCrashes      \* bound: runs that stop half-way

Payloads == UNION {[S -> Contents] : S \in SUBSET Ids}

Texts == [listed : Contents, detail : Details \cup {NoDetail}]

ASSUME BoardsAssumption   == TwoStage \subseteq Boards /\ Configurable \subseteq Boards
ASSUME IdsAssumption      == IsFiniteSet(Ids)
ASSUME TextsAssumption    == NoContent \notin Texts /\ NoDetail \notin Details
ASSUME PayloadAssumption  == NoPayload \notin Payloads
ASSUME BoundsAssumption   ==
    /\ MinPrevious \in Nat /\ RetentionDays \in Nat /\ ChunkSize \in Nat \ {0}
    /\ MaxFetches \in Nat /\ MaxDay \in Nat /\ MaxDuplicates \in Nat /\ MaxCrashes \in Nat

VARIABLES
    day,              \* today's calendar day (UTC)
    configured,       \* the boards in companies.yaml
    raw_fetches,      \* row id -> row, for the rows not deleted
    serial,           \* the last id raw_fetches handed out
    raw_details,      \* board -> external id -> its detail
    postings,         \* board -> external id -> row (Absent if there is none)
    posting_versions, \* board -> external id -> its versions, oldest first
    feed_anomalies,   \* the rows a tripped guard wrote
    pc,               \* where the parser process is
    todo,             \* rows: what get_unparsed_raw_fetches returned, less what is done
    current,          \* the row process_row works on
    previous,         \* previous_count
    pending,          \* ids bulk_upsert_postings has not committed yet
    appends,          \* ids of changed_versions not committed yet
    orphaned,         \* boards _reconcile_orphaned_companies has not closed yet
    candidates,       \* postings detail_run has not fetched the detail of yet
    joined,           \* companies_with_new_details not flagged yet
    crashes,          \* bound: runs stopped half-way so far
    skipped           \* history: rows whose close-detection the guard skipped,
                      \* each with the previous_count the guard compared it with

vars == <<day, configured, raw_fetches, serial, raw_details, postings, posting_versions,
          feed_anomalies, pc, todo, current, previous, pending, appends,
          orphaned, candidates, joined, crashes, skipped>>

-----------------------------------------------------------------------------
(* The tables.                                                             *)

NoTime  == 0      \* closed_at IS NULL; row ids start at 1
NoRow   == 0      \* process_row is not running
NoCount == -1     \* previous_count is None

RowIds == 1..MaxFetches
Times  == 0..MaxFetches
Days   == 0..MaxDay

RawFetch ==
    [board : Boards, day : Days, payload : Payloads \cup {NoPayload},
     items : Nat, parsed : BOOLEAN, stripped : BOOLEAN]

Posting ==
    [first_seen_at : Times, last_seen_at : Times, is_open : BOOLEAN,
     closed_at : Times, content : Texts \cup {NoContent}]

Absent ==
    [first_seen_at |-> NoTime, last_seen_at |-> NoTime, is_open |-> FALSE,
     closed_at |-> NoTime, content |-> NoContent]

Version == [observed_at : RowIds, content : Texts]

Anomaly ==
    [board : Boards, day : Days, previous : Nat \cup {NoCount}, current : Nat]

Skip == [row : RowIds, previous : Nat \cup {NoCount}]

Steps == {"idle", "row", "upsert", "append", "guard", "mark", "strip", "reconcile", "details"}

TypeOK ==
    /\ day \in Days
    /\ configured \in SUBSET Boards
    /\ serial \in Times
    /\ DOMAIN raw_fetches \subseteq 1..serial
    /\ raw_fetches \in [DOMAIN raw_fetches -> RawFetch]
    /\ raw_details \in [Boards -> [Ids -> Details \cup {NoDetail}]]
    /\ \A b \in Boards \ TwoStage, i \in Ids : raw_details[b][i] = NoDetail
    /\ postings \in [Boards -> [Ids -> Posting]]
    /\ posting_versions \in [Boards -> [Ids -> Seq(Version)]]
    /\ feed_anomalies \subseteq Anomaly
    /\ pc \in Steps
    /\ todo \subseteq DOMAIN raw_fetches
    /\ current \in DOMAIN raw_fetches \cup {NoRow}
    /\ previous \in Nat \cup {NoCount}
    /\ pending \subseteq Ids
    /\ appends \subseteq Ids
    /\ orphaned \subseteq Boards
    /\ candidates \subseteq TwoStage \X Ids
    /\ joined \subseteq TwoStage
    /\ crashes \in 0..MaxCrashes
    /\ skipped \subseteq Skip
    /\ \A s \in skipped : s.row <= serial

Init ==
    /\ day = 0
    /\ configured = Boards
    /\ raw_fetches = [r \in {} |-> {}]
    /\ serial = 0
    /\ raw_details = [b \in Boards |-> [i \in Ids |-> NoDetail]]
    /\ postings = [b \in Boards |-> [i \in Ids |-> Absent]]
    /\ posting_versions = [b \in Boards |-> [i \in Ids |-> <<>>]]
    /\ feed_anomalies = {}
    /\ pc = "idle"
    /\ todo = {} /\ current = NoRow /\ previous = NoCount
    /\ pending = {} /\ appends = {} /\ orphaned = {}
    /\ candidates = {} /\ joined = {}
    /\ crashes = 0
    /\ skipped = {}

-----------------------------------------------------------------------------
(* What surrounds the parser: the calendar, deploys and the ingest pass.   *)

databaseVars == <<raw_fetches, serial, raw_details, postings, posting_versions, feed_anomalies>>
localVars    == <<todo, current, previous, pending, appends, orphaned, candidates, joined>>

NewDay ==
    /\ day < MaxDay
    /\ day' = day + 1
    /\ UNCHANGED <<configured, databaseVars, pc, localVars, crashes, skipped>>

(* companies.yaml is part of the image: an edit takes effect with a deploy, *)
(* between two runs of the parser.                                          *)
EditCompanies(b) ==
    /\ pc = "idle"
    /\ configured' = IF b \in configured THEN configured \ {b} ELSE configured \cup {b}
    /\ UNCHANGED <<day, databaseVars, pc, localVars, crashes, skipped>>

NewRow(b, p, n) ==
    [board |-> b, day |-> day, payload |-> p, items |-> n,
     parsed |-> FALSE, stripped |-> FALSE]

InsertRawFetch(b, p, n) ==
    /\ serial < MaxFetches
    /\ serial' = serial + 1
    /\ raw_fetches' = [r \in DOMAIN raw_fetches \cup {serial + 1} |->
                          IF r = serial + 1 THEN NewRow(b, p, n) ELSE raw_fetches[r]]
    /\ UNCHANGED <<day, configured, raw_details, postings, posting_versions, feed_anomalies,
                   pc, localVars, crashes, skipped>>

(* A fetch that failed, or that the circuit breaker skipped.               *)
IngestFailure(b) ==
    /\ b \in configured
    /\ InsertRawFetch(b, NoPayload, 0)

(* A fetch that worked: the board lists these postings, some of them twice. *)
IngestPayload(b) ==
    /\ b \in configured
    /\ \E p \in Payloads, extra \in 0..MaxDuplicates :
          /\ DOMAIN p = {} => extra = 0
          /\ InsertRawFetch(b, p, Cardinality(DOMAIN p) + extra)

-----------------------------------------------------------------------------
(* parse_run.run's loop over the unparsed rows.                            *)

(* Mutated form: rows of earlier days are left to the day they came from.  *)
UnparsedToday == {r \in DOMAIN raw_fetches : ~ raw_fetches[r].parsed /\ raw_fetches[r].day = day}

Unparsed == {r \in DOMAIN raw_fetches : ~ raw_fetches[r].parsed}

StartRun ==
    /\ pc = "idle"
    /\ pc' = "row"
    /\ todo' = Unparsed
    /\ UNCHANGED <<day, configured, databaseVars, current, previous, pending, appends,
                   orphaned, candidates, joined, crashes, skipped>>

(* Mutated form: ORDER BY fetched_at DESC.                                 *)
IsLatestRow(r) == r \in todo /\ \A s \in todo : s <= r

(* ORDER BY fetched_at ASC.                                                *)
IsNextRow(r) == r \in todo /\ \A s \in todo : r <= s

SetParsed(r) == [raw_fetches EXCEPT ![r].parsed = TRUE]

SkipFailure(r) ==
    /\ pc = "row" /\ IsNextRow(r)
    /\ raw_fetches[r].payload = NoPayload
    /\ raw_fetches' = SetParsed(r)
    /\ todo' = todo \ {r}
    /\ UNCHANGED <<day, configured, serial, raw_details, postings, posting_versions,
                   feed_anomalies, pc, current, previous, pending, appends, orphaned,
                   candidates, joined, crashes, skipped>>

LacksToken(b) == b \in TwoStage /\ b \notin configured

SkipUnconfigured(r) ==
    /\ pc = "row" /\ IsNextRow(r)
    /\ raw_fetches[r].payload # NoPayload
    /\ LacksToken(raw_fetches[r].board)
    /\ todo' = todo \ {r}
    /\ UNCHANGED <<day, configured, databaseVars, pc, current, previous, pending, appends,
                   orphaned, candidates, joined, crashes, skipped>>

(* Mutated form: the row before, also of the same day.                     *)
IsEarlierFetch(q, r) ==
    /\ raw_fetches[q].board = raw_fetches[r].board
    /\ raw_fetches[q].payload # NoPayload
    /\ q < r

(* get_previous_raw_payload: the last successful fetch of an earlier day.   *)
IsBaseline(q, r) ==
    /\ raw_fetches[q].board = raw_fetches[r].board
    /\ raw_fetches[q].payload # NoPayload
    /\ raw_fetches[q].day < raw_fetches[r].day

(* Its number of items, repeated ids included: only the row being parsed   *)
(* goes through _deduplicate_postings.                                     *)
PreviousCount(r) ==
    LET earlier == {q \in DOMAIN raw_fetches : IsBaseline(q, r)}
        latest  == {q \in earlier : \A s \in earlier : s <= q}
    IN  IF latest = {} THEN NoCount ELSE raw_fetches[CHOOSE q \in latest : TRUE].items

(* Mutated forms: a version for new postings only; for every posting seen.  *)
InsertedIds(b, p) == {i \in DOMAIN p : postings[b][i].content = NoContent}
SeenIds(b, p) == DOMAIN p

(* run_extract: what the payload lists, joined with the detail on record.  *)
Text(b, p, i) == [listed |-> p[i], detail |-> raw_details[b][i]]

(* changed_versions: existing_hashes.get(id) differs, or there is none.    *)
ChangedIds(b, p) == {i \in DOMAIN p : postings[b][i].content # Text(b, p, i)}

AfterWrites(ups, apps) ==
    IF ups # {} THEN "upsert" ELSE IF apps # {} THEN "append" ELSE "guard"

(* process_row up to its first write.                                      *)
BeginRow(r) ==
    LET row == raw_fetches[r]
    IN  /\ pc = "row" /\ IsNextRow(r)
        /\ row.payload # NoPayload
        /\ ~ LacksToken(row.board)
        /\ current' = r
        /\ previous' = PreviousCount(r)
        /\ pending' = DOMAIN row.payload
        /\ appends' = ChangedIds(row.board, row.payload)
        /\ pc' = AfterWrites(pending', appends')
        /\ UNCHANGED <<day, configured, databaseVars, todo, orphaned, candidates, joined,
                       crashes, skipped>>

Row == raw_fetches[current]

RowText(i) == Text(Row.board, Row.payload, i)

(* Statements of at most CHUNK_SIZE rows, each committed on its own.       *)
IsChunk(C, S) ==
    /\ C \subseteq S /\ C # {}
    /\ \/ Cardinality(C) = ChunkSize
       \/ C = S /\ Cardinality(S) <= ChunkSize

Exists(p) == p.first_seen_at # NoTime

(* Mutated form: an update that leaves is_open alone.                      *)
UpsertedAsIs(p, at, c) ==
    [first_seen_at |-> IF Exists(p) THEN p.first_seen_at ELSE at,
     last_seen_at  |-> at,
     is_open       |-> Exists(p) => p.is_open,
     closed_at     |-> p.closed_at,
     content       |-> c]

(* What INSERT ... ON CONFLICT DO UPDATE leaves behind.                    *)
Upserted(p, at, c) ==
    [first_seen_at |-> IF Exists(p) THEN p.first_seen_at ELSE at,
     last_seen_at  |-> at,
     is_open       |-> TRUE,
     closed_at     |-> p.closed_at,
     content       |-> c]

(* Mutated form: what is left after one statement.                         *)
AfterOneStatement(C) == {}

AfterChunk(C) == pending \ C

UpsertChunk(C) ==
    /\ pc = "upsert" /\ IsChunk(C, pending)
    /\ postings' = [postings EXCEPT ![Row.board] =
                       [i \in Ids |-> IF i \in C THEN Upserted(@[i], current, RowText(i))
                                      ELSE @[i]]]
    /\ pending' = AfterChunk(C)
    /\ pc' = AfterWrites(pending', appends)
    /\ UNCHANGED <<day, configured, raw_fetches, serial, raw_details, posting_versions,
                   feed_anomalies, todo, current, previous, appends, orphaned, candidates,
                   joined, crashes, skipped>>

AppendChunk(C) ==
    /\ pc = "append" /\ IsChunk(C, appends)
    /\ posting_versions' = [posting_versions EXCEPT ![Row.board] =
          [i \in Ids |-> IF i \in C
                         THEN Append(@[i], [observed_at |-> current, content |-> RowText(i)])
                         ELSE @[i]]]
    /\ appends' = appends \ C
    /\ pc' = AfterWrites({}, appends')
    /\ UNCHANGED <<day, configured, raw_fetches, serial, raw_details, postings,
                   feed_anomalies, todo, current, previous, pending, orphaned, candidates,
                   joined, crashes, skipped>>

GuardTripped(now, prev) ==
    \/ now = 0
    \/ prev # NoCount /\ prev >= MinPrevious /\ 2 * now < prev

(* Mutated form: an empty feed is never worth a row.                       *)
IsEmptyFeed(now, prev) == now = 0

IsSteadyStateEmpty(now, prev) == prev = 0 /\ now = 0

CurrentCount == Cardinality(DOMAIN Row.payload)

(* At most one row per board and day of detection; the first one stays.    *)
InsertFeedAnomaly(b, prev, now) ==
    IF \E a \in feed_anomalies : a.board = b /\ a.day = day
    THEN feed_anomalies
    ELSE feed_anomalies \cup {[board |-> b, day |-> day, previous |-> prev, current |-> now]}

SkipCloseDetection ==
    /\ pc = "guard"
    /\ GuardTripped(CurrentCount, previous)
    /\ feed_anomalies' = IF IsSteadyStateEmpty(CurrentCount, previous) THEN feed_anomalies
                         ELSE InsertFeedAnomaly(Row.board, previous, CurrentCount)
    /\ skipped' = skipped \cup {[row |-> current, previous |-> previous]}
    /\ pc' = "mark"
    /\ UNCHANGED <<day, configured, raw_fetches, serial, raw_details, postings,
                   posting_versions, localVars, crashes>>

(* Mutated form: without AND closed_at IS NULL.                            *)
IsOpen(p) == p.is_open

(* is_open AND closed_at IS NULL.                                          *)
Closable(p) == p.is_open /\ p.closed_at = NoTime

(* Mutated form: dated by the fetch after the one that missed it.          *)
ClosedNext(p, at) == [p EXCEPT !.is_open = FALSE, !.closed_at = at + 1]

Closed(p, at) == [p EXCEPT !.is_open = FALSE, !.closed_at = at]

CloseMissing ==
    /\ pc = "guard"
    /\ ~ GuardTripped(CurrentCount, previous)
    /\ postings' = [postings EXCEPT ![Row.board] =
          [i \in Ids |-> IF Closable(@[i]) /\ i \notin DOMAIN Row.payload
                         THEN Closed(@[i], current) ELSE @[i]]]
    /\ pc' = "mark"
    /\ UNCHANGED <<day, configured, raw_fetches, serial, raw_details, posting_versions,
                   feed_anomalies, localVars, crashes, skipped>>

MarkParsed ==
    /\ pc = "mark"
    /\ raw_fetches' = SetParsed(current)
    /\ pc' = "strip"
    /\ UNCHANGED <<day, configured, serial, raw_details, postings, posting_versions,
                   feed_anomalies, localVars, crashes, skipped>>

(* Workday's payloads carry no description; an empty board has none either. *)
CarriesText(row) == row.board \notin TwoStage /\ DOMAIN row.payload # {}

(* Mutated form: only rows of earlier days, as the manual pass did.        *)
StripsOldRow == CarriesText(Row) /\ Row.day < day

StripsRow == CarriesText(Row)

StripRow ==
    /\ pc = "strip"
    /\ raw_fetches' = IF StripsRow THEN [raw_fetches EXCEPT ![current].stripped = TRUE]
                      ELSE raw_fetches
    /\ pc' = "row"
    /\ todo' = todo \ {current}
    /\ current' = NoRow
    /\ previous' = NoCount
    /\ UNCHANGED <<day, configured, serial, raw_details, postings, posting_versions,
                   feed_anomalies, pending, appends, orphaned, candidates, joined, crashes,
                   skipped>>

-----------------------------------------------------------------------------
(* The end of the run: reconciliation with companies.yaml, retention.      *)

(* Mutated form: only boards raw_fetches still has a row of.               *)
BoardsWithRows ==
    {b \in Boards : /\ \E i \in Ids : postings[b][i].is_open
                    /\ \E r \in DOMAIN raw_fetches : raw_fetches[r].board = b}

BoardsWithOpen == {b \in Boards : \E i \in Ids : postings[b][i].is_open}

BeginReconcile ==
    /\ pc = "row" /\ todo = {}
    /\ orphaned' = BoardsWithOpen \ configured
    /\ pc' = "reconcile"
    /\ UNCHANGED <<day, configured, databaseVars, todo, current, previous, pending, appends,
                   candidates, joined, crashes, skipped>>

OrphanClosedAt(p) == p.last_seen_at

CloseOrphaned(b) ==
    /\ pc = "reconcile" /\ b \in orphaned
    /\ postings' = [postings EXCEPT ![b] =
          [i \in Ids |-> IF Closable(@[i]) THEN Closed(@[i], OrphanClosedAt(@[i])) ELSE @[i]]]
    /\ orphaned' = orphaned \ {b}
    /\ UNCHANGED <<day, configured, raw_fetches, serial, raw_details, posting_versions,
                   feed_anomalies, pc, todo, current, previous, pending, appends,
                   candidates, joined, crashes, skipped>>

(* now() - 30 days falls somewhere within a calendar day: rows of that day  *)
(* that were fetched before the cutoff's time of day go too.                *)
IsCutoff(t) ==
    \A r \in DOMAIN raw_fetches :
        /\ r < t => raw_fetches[r].day + RetentionDays <= day
        /\ raw_fetches[r].day + RetentionDays < day => r < t

(* Mutated form: whatever its age, parsed or not.                          *)
IsOld(r, t) == r < t

Expired(r, t) == raw_fetches[r].parsed /\ r < t

DeleteOldParsed(t) ==
    /\ pc = "reconcile" /\ orphaned = {}
    /\ IsCutoff(t)
    /\ raw_fetches' = [r \in {q \in DOMAIN raw_fetches : ~ Expired(q, t)} |-> raw_fetches[r]]
    /\ pc' = "idle"
    /\ UNCHANGED <<day, configured, serial, raw_details, postings, posting_versions,
                   feed_anomalies, localVars, crashes, skipped>>

-----------------------------------------------------------------------------
(* detail_run.run: between two runs of the parser, as pipeline.main calls   *)
(* them; a details run that overlaps one is left out.                       *)

LatestSuccessful(b) ==
    LET rows == {r \in DOMAIN raw_fetches :
                    raw_fetches[r].board = b /\ raw_fetches[r].payload # NoPayload}
    IN  {r \in rows : \A s \in rows : s <= r}

(* get_postings_missing_detail.  The failed request, whose row keeps a      *)
(* posting from being asked for again, is module Pipeline's.                *)
MissingDetail ==
    {k \in TwoStage \X Ids :
        /\ raw_details[k[1]][k[2]] = NoDetail
        /\ \E r \in LatestSuccessful(k[1]) : k[2] \in DOMAIN raw_fetches[r].payload}

StartDetails ==
    /\ pc = "idle"
    /\ MissingDetail # {}
    /\ pc' = "details"
    /\ candidates' = MissingDetail
    /\ UNCHANGED <<day, configured, databaseVars, todo, current, previous, pending, appends,
                   orphaned, joined, crashes, skipped>>

(* A request that worked: its row is committed before the next request.     *)
StoreDetail(b, i) ==
    /\ pc = "details" /\ <<b, i>> \in candidates
    /\ b \in configured
    /\ \E d \in Details : raw_details' = [raw_details EXCEPT ![b][i] = d]
    /\ candidates' = candidates \ {<<b, i>>}
    /\ joined' = joined \cup {b}
    /\ UNCHANGED <<day, configured, raw_fetches, serial, postings, posting_versions,
                   feed_anomalies, pc, todo, current, previous, pending, appends, orphaned,
                   crashes, skipped>>

(* Mutated form: the board's first row.                                     *)
IsFirstRowOf(b, r) ==
    /\ raw_fetches[r].board = b
    /\ \A s \in DOMAIN raw_fetches : raw_fetches[s].board = b => r <= s

(* The single most recent row of the board, failed or not.                  *)
IsLatestRowOf(b, r) ==
    /\ raw_fetches[r].board = b
    /\ \A s \in DOMAIN raw_fetches : raw_fetches[s].board = b => s <= r

MarkLatestRawFetchUnparsed(b) ==
    /\ pc = "details" /\ b \in joined
    /\ raw_fetches' = [r \in DOMAIN raw_fetches |->
                          IF IsLatestRowOf(b, r) THEN [raw_fetches[r] EXCEPT !.parsed = FALSE]
                          ELSE raw_fetches[r]]
    /\ candidates' = {}
    /\ joined' = joined \ {b}
    /\ UNCHANGED <<day, configured, serial, raw_details, postings, posting_versions,
                   feed_anomalies, pc, todo, current, previous, pending, appends, orphaned,
                   crashes, skipped>>

(* The end of the run: every board is flagged, or --dry-run flags none, or  *)
(* the process was killed before it had.                                    *)
EndDetails ==
    /\ pc = "details"
    /\ pc' = "idle"
    /\ candidates' = {} /\ joined' = {}
    /\ UNCHANGED <<day, configured, databaseVars, todo, current, previous, pending, appends,
                   orphaned, crashes, skipped>>

-----------------------------------------------------------------------------

(* An exception or a kill between two commits: what was written stays.     *)
Crash ==
    /\ pc # "idle" /\ crashes < MaxCrashes
    /\ crashes' = crashes + 1
    /\ pc' = "idle"
    /\ todo' = {} /\ current' = NoRow /\ previous' = NoCount
    /\ pending' = {} /\ appends' = {} /\ orphaned' = {}
    /\ candidates' = {} /\ joined' = {}
    /\ UNCHANGED <<day, configured, databaseVars, skipped>>

-----------------------------------------------------------------------------

ProcessRow ==
    \/ \E r \in RowIds : BeginRow(r)
    \/ \E C \in SUBSET pending : UpsertChunk(C)
    \/ \E C \in SUBSET appends : AppendChunk(C)
    \/ SkipCloseDetection
    \/ CloseMissing
    \/ MarkParsed
    \/ StripRow

ParserStep ==
    \/ StartRun
    \/ \E r \in RowIds : SkipFailure(r) \/ SkipUnconfigured(r)
    \/ ProcessRow
    \/ BeginReconcile
    \/ \E b \in Boards : CloseOrphaned(b)
    \/ \E t \in 1..(MaxFetches + 1) : DeleteOldParsed(t)

Environment ==
    \/ NewDay
    \/ \E b \in Configurable : EditCompanies(b)
    \/ \E b \in Boards : IngestFailure(b) \/ IngestPayload(b)

DetailStep ==
    \/ StartDetails
    \/ \E b \in TwoStage : (\E i \in Ids : StoreDetail(b, i)) \/ MarkLatestRawFetchUnparsed(b)
    \/ EndDetails

Next == ParserStep \/ DetailStep \/ Environment \/ Crash

Spec == Init /\ [][Next]_vars

(* Every cycle of the cron job parses, whatever details are fetched between *)
(* two parses (strong fairness), and a run that does not stop half-way keeps *)
(* taking its steps; a details run ends.                                    *)
FairSpec == Spec /\ SF_vars(ParserStep) /\ WF_vars(EndDetails)

-----------------------------------------------------------------------------
(* Properties.                                                             *)

Successful(r) == raw_fetches[r].payload # NoPayload

Present(b, i) == Exists(postings[b][i])

(* The dates of a posting stay consistent however runs are interrupted and  *)
(* repeated: it is never last seen before it was first seen, and a posting   *)
(* that is closed was not seen after the date it was closed at.              *)
DatesConsistent ==
    \A b \in Boards, i \in Ids :
        LET p == postings[b][i]
        IN  Present(b, i) =>
                /\ p.first_seen_at <= p.last_seen_at
                /\ p.closed_at # NoTime => p.first_seen_at <= p.closed_at
                /\ ~ p.is_open => p.closed_at # NoTime /\ p.last_seen_at <= p.closed_at

(* No observation is ever overtaken by a later one of its board: while a     *)
(* successful row waits to be parsed, its board's postings and versions hold *)
(* nothing observed after it (ORDER BY fetched_at, and mark_raw_fetch_parsed *)
(* being the last step of a row that counts).                                *)
NothingAfter(b, t) ==
    \A i \in Ids :
        /\ postings[b][i].last_seen_at <= t /\ postings[b][i].closed_at <= t
        /\ \A n \in DOMAIN posting_versions[b][i] : posting_versions[b][i][n].observed_at <= t

NothingOvertaken ==
    \A r \in DOMAIN raw_fetches :
        ~ raw_fetches[r].parsed /\ Successful(r) => NothingAfter(raw_fetches[r].board, r)

(* A row marked parsed has been applied in full: every posting it lists      *)
(* exists, seen no later than it first and no earlier than it last, whatever *)
(* interrupted the run between its chunks of CHUNK_SIZE rows.                *)
ParsedRowsApplied ==
    \A r \in DOMAIN raw_fetches :
        raw_fetches[r].parsed /\ Successful(r) =>
            \A i \in DOMAIN raw_fetches[r].payload :
                LET p == postings[raw_fetches[r].board][i]
                IN  Present(raw_fetches[r].board, i) /\ p.first_seen_at <= r /\ r <= p.last_seen_at

(* One observation adds at most one version of a posting, also when the row  *)
(* is parsed again after an interrupted run -- and at most a second one, when *)
(* the row is parsed again with a detail that the first parse did not have:   *)
(* observed_at increases, strictly but for that pair.  A board without second *)
(* stage has no details, so its dates increase strictly.                      *)
VersionsOrdered ==
    \A b \in Boards, i \in Ids :
        LET vs == posting_versions[b][i]
        IN  \A m, n \in DOMAIN vs :
                m < n => \/ vs[m].observed_at < vs[n].observed_at
                         \/ /\ vs[m].observed_at = vs[n].observed_at
                            /\ vs[m].content.detail = NoDetail
                            /\ vs[n].content.detail # NoDetail

(* Once a board's last successful row is parsed and the guard let it close,  *)
(* the board's open postings are those the row lists -- except postings that *)
(* were closed once before and reopened, which close_missing_postings leaves *)
(* open -- and a listed posting is closed only by a deploy that dropped the  *)
(* board (closed_at is then its last_seen_at).                               *)
Settled(r) ==
    /\ Successful(r) /\ raw_fetches[r].parsed
    /\ \A s \in skipped : s.row # r
    /\ \A q \in DOMAIN raw_fetches :
          raw_fetches[q].board = raw_fetches[r].board /\ Successful(q) => q <= r

OpenPostingsMatchFeed ==
    \A r \in DOMAIN raw_fetches :
        Settled(r) =>
            \A i \in Ids :
                LET p == postings[raw_fetches[r].board][i]
                IN  /\ p.is_open => i \in DOMAIN raw_fetches[r].payload \/ p.closed_at # NoTime
                    /\ i \in DOMAIN raw_fetches[r].payload =>
                          p.last_seen_at = r /\ (p.is_open \/ p.closed_at = r)

(* The same without the exception: docs/ARCHITECTURE.md says "A posting      *)
(* missing from the feed sets `is_open = false`".                            *)
MissingPostingsAreClosed ==
    \A r \in DOMAIN raw_fetches :
        Settled(r) =>
            \A i \in Ids :
                postings[raw_fetches[r].board][i].is_open => i \in DOMAIN raw_fetches[r].payload

(* A posting found missing is never closed by an observation that looks like *)
(* a collapsed feed: the row was a successful fetch, it was not empty, and   *)
(* it kept at least half of the last successful fetch of an earlier day when *)
(* that one was large enough, whatever else was fetched the same day.        *)
ClosedByCredibleFeed ==
    \A r \in DOMAIN raw_fetches, i \in Ids :
        LET row == raw_fetches[r]
        IN  /\ postings[row.board][i].closed_at = r
            /\ Successful(r) => i \notin DOMAIN row.payload
            => /\ Successful(r)
               /\ DOMAIN row.payload # {}
               /\ \A q \in DOMAIN raw_fetches :
                     /\ raw_fetches[q].board = row.board /\ Successful(q)
                     /\ raw_fetches[q].day < row.day
                     /\ \A s \in DOMAIN raw_fetches :
                           (raw_fetches[s].board = row.board /\ Successful(s)
                              /\ raw_fetches[s].day < row.day) => s <= q
                     /\ raw_fetches[q].items >= MinPrevious
                     => 2 * Cardinality(DOMAIN row.payload) >= raw_fetches[q].items

(* Close-detection that was skipped leaves something for a human to look at:  *)
(* where a posting that never closed is open though its board's last fetch,   *)
(* parsed, does not list it, a feed_anomalies row of the board, dated no       *)
(* earlier than that fetch, says so -- even if runs were interrupted and rows  *)
(* parsed again -- unless the fetch was empty and so was the baseline that the *)
(* guard compared it with.                                                     *)
LeftOpen(r, i) ==
    /\ r \in LatestSuccessful(raw_fetches[r].board) /\ raw_fetches[r].parsed
    /\ i \notin DOMAIN raw_fetches[r].payload
    /\ Closable(postings[raw_fetches[r].board][i])

TrippedGuardLeavesTrace ==
    \A r \in DOMAIN raw_fetches, i \in Ids :
        LeftOpen(r, i) =>
            \/ \E a \in feed_anomalies :
                  a.board = raw_fetches[r].board /\ raw_fetches[r].day <= a.day
            \/ /\ DOMAIN raw_fetches[r].payload = {}
               /\ \E s \in skipped : s.row = r /\ s.previous = 0

(* posting_versions is the durable copy of what stripping takes out of       *)
(* raw_fetches: whatever a stripped row lists is in some version.            *)
StrippedTextIsKept ==
    \A r \in DOMAIN raw_fetches :
        raw_fetches[r].stripped =>
            \A i \in DOMAIN raw_fetches[r].payload :
                LET vs == posting_versions[raw_fetches[r].board][i]
                IN  \E n \in DOMAIN vs : vs[n].content.listed = raw_fetches[r].payload[i]

(* A posting's row and its history agree: outside process_row's own writes   *)
(* the last version holds the content the row was hashed from, and two       *)
(* versions in a row always differ ("appends a row only when the content     *)
(* hash changes").                                                           *)
LastVersionIsCurrent ==
    \A b \in Boards, i \in Ids :
        LET vs == posting_versions[b][i]
        IN  /\ (current = NoRow \/ Row.board # b \/ i \notin appends) /\ Present(b, i) =>
                  vs # <<>> /\ vs[Len(vs)].content = postings[b][i].content
            /\ \A n \in 1..(Len(vs) - 1) : vs[n].content # vs[n + 1].content

(* raw_fetches keeps description text only for rows not parsed yet: between  *)
(* two rows, every parsed row that carried text is stripped.                 *)
ParsedRowsAreStripped ==
    \A r \in DOMAIN raw_fetches :
        raw_fetches[r].parsed /\ r # current /\ Successful(r) /\ CarriesText(raw_fetches[r]) =>
            raw_fetches[r].stripped

(* Retention loses no observation: whatever a deleted row listed is on       *)
(* record, as a posting seen since and as a version holding that content.    *)
DeletionLosesNothing ==
    [][\A r \in DOMAIN raw_fetches \ DOMAIN raw_fetches' :
          Successful(r) =>
              \A i \in DOMAIN raw_fetches[r].payload :
                  LET b == raw_fetches[r].board
                  IN  /\ r <= postings[b][i].last_seen_at
                      /\ \E n \in DOMAIN posting_versions[b][i] :
                            posting_versions[b][i][n].content.listed = raw_fetches[r].payload[i]]_vars

(* A board dropped from companies.yaml ends with nothing open for the first   *)
(* time: a run that has reconciled leaves, for every board not configured,    *)
(* only postings that are closed or had been closed before.                   *)
DroppedBoardsAreClosed ==
    pc = "reconcile" =>
        \A b \in Boards \ (configured \cup orphaned) :
            \A i \in Ids : ~ Closable(postings[b][i])

(* Every row is parsed in the end, unless its two-stage board is not          *)
(* configured: a failed fetch, a board without token or an interrupted run    *)
(* never keeps another row from being parsed.                                 *)
EveryRowIsParsed ==
    \A r \in RowIds :
        (r \in DOMAIN raw_fetches /\ ~ raw_fetches[r].parsed) ~>
            (r \in DOMAIN raw_fetches =>
                raw_fetches[r].parsed \/ LacksToken(raw_fetches[r].board))

-----------------------------------------------------------------------------
(* The abstract specification, and the dates of this one's postings as its  *)
(* state.                                                                   *)
DatesOf(p) ==
    [first_seen_at |-> p.first_seen_at, last_seen_at |-> p.last_seen_at,
     is_open |-> p.is_open, closed_at |-> p.closed_at]

Lifecycle == INSTANCE PostingLifecycle WITH
    Keys  <- Boards \X Ids,
    Times <- RowIds,
    life  <- [k \in Boards \X Ids |-> DatesOf(postings[k[1]][k[2]])]

(* Parsing, reconciliation, retention and interrupted runs, in any order     *)
(* with ingest runs and deploys, keep the archive's promises about postings.  *)
KeepsLifecycle == Lifecycle!Spec
=============================================================================
