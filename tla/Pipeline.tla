------------------------------ MODULE Pipeline ------------------------------
(***************************************************************************)
(* pipeline.main: ingest, parse, detail fetch, reparse, classify and the   *)
(* ping, as seen by the two-stage boards (Workday), whose postings are     *)
(* created from a list payload and get location and description from a     *)
(* detail fetched later.                                                   *)
(*                                                                         *)
(* A stage reads its work list once and commits item by item; parsing one  *)
(* row is a single step here (module ParseRun takes it apart).  A row's id  *)
(* doubles as its fetched_at.  Of a posting's text only its origin is kept: *)
(* the list alone, or the list and the detail.                             *)
(***************************************************************************)
EXTENDS Integers, FiniteSets, Sequences

CONSTANTS
    Companies,      \* Workday boards collected so far
    Configurable,   \* those a deploy may drop from or add to companies.yaml
    Ids,            \* external ids of postings
    EarlyCareers,   \* the ids whose title passes the board's detail filter
    NoPayload,      \* the payload of a failed fetch (NULL)
    Limit,          \* DETAIL_RUN_LIMIT
    MaxFetches,     \* bound: rows ever inserted
    MaxFailures     \* bound: cycles that a stage ends early

ASSUME CompaniesAssumption ==
    IsFiniteSet(Companies) /\ Configurable \subseteq Companies /\ EarlyCareers \subseteq Ids
ASSUME NoPayloadAssumption == \A S \in SUBSET Ids : S # NoPayload
ASSUME LimitsAssumption    == Limit \in Nat /\ MaxFetches \in Nat /\ MaxFailures \in Nat

VARIABLES
    configured,       \* the companies in companies.yaml
    raw_fetches,      \* the rows, in the order of their ids
    raw_details,      \* company -> external id -> its detail row
    postings,         \* company -> external id -> its row
    posting_versions, \* company -> external id -> its versions, in insertion order
    stage,            \* what pipeline.main is doing
    ingest_ok,        \* some board succeeded in this cycle
    boards,           \* companies ingest has not fetched yet
    rows,             \* rows the parse pass has not processed yet
    candidates,       \* postings detail_run has not looked at yet
    attempted,        \* details fetched by this detail_run
    joined,           \* companies_with_new_details not flagged yet
    batch,            \* postings classify_run has not written yet
    ping,             \* this cycle's ping
    failures          \* bound: cycles ended early so far

databaseVars == <<raw_fetches, raw_details, postings, posting_versions>>
workVars     == <<boards, rows, candidates, attempted, joined, batch>>
vars         == <<configured, databaseVars, stage, ingest_ok, workVars, ping, failures>>

-----------------------------------------------------------------------------

RowIds == 1..MaxFetches
Keys   == Companies \X Ids
Texts  == {"listed", "detailed"}
Stages == {"idle", "ingest", "parse", "details", "flag", "reparse", "classify"}

RawFetch == [company : Companies, payload : {NoPayload} \cup SUBSET Ids, parsed : BOOLEAN]
Detail   == {"none", "failed", "stored"}

(* stale: classified_at IS NULL OR updated_at > classified_at.  location and *)
(* seniority: the text location_class and seniority_class were derived from. *)
Posting ==
    [text : Texts \cup {"absent"}, stale : BOOLEAN,
     location : Texts \cup {"unclassified"}, seniority : Texts \cup {"unclassified"}]

Absent ==
    [text |-> "absent", stale |-> TRUE, location |-> "unclassified", seniority |-> "unclassified"]

Version == [observed_at : RowIds, text : Texts]

TypeOK ==
    /\ configured \subseteq Companies
    /\ raw_fetches \in Seq(RawFetch) /\ Len(raw_fetches) <= MaxFetches
    /\ raw_details \in [Companies -> [Ids -> Detail]]
    /\ postings \in [Companies -> [Ids -> Posting]]
    /\ posting_versions \in [Companies -> [Ids -> Seq(Version)]]
    /\ stage \in Stages
    /\ ingest_ok \in BOOLEAN
    /\ boards \subseteq Companies
    /\ rows \subseteq DOMAIN raw_fetches
    /\ candidates \subseteq Keys
    /\ attempted \in 0..Limit
    /\ joined \subseteq Companies
    /\ batch \subseteq Keys
    /\ ping \in {"none", "success", "fail"}
    /\ failures \in 0..MaxFailures

Init ==
    /\ configured = Companies
    /\ raw_fetches = <<>>
    /\ raw_details = [c \in Companies |-> [i \in Ids |-> "none"]]
    /\ postings = [c \in Companies |-> [i \in Ids |-> Absent]]
    /\ posting_versions = [c \in Companies |-> [i \in Ids |-> <<>>]]
    /\ stage = "idle" /\ ingest_ok = FALSE
    /\ boards = {} /\ rows = {} /\ candidates = {} /\ attempted = 0
    /\ joined = {} /\ batch = {}
    /\ ping = "none" /\ failures = 0

-----------------------------------------------------------------------------

EditCompanies(c) ==
    /\ stage = "idle"
    /\ configured' = IF c \in configured THEN configured \ {c} ELSE configured \cup {c}
    /\ UNCHANGED <<databaseVars, stage, ingest_ok, workVars, ping, failures>>

(* Beyond the bound on rows, cycles go on without collecting anything.      *)
StartCycle ==
    /\ stage = "idle"
    /\ stage' = "ingest"
    /\ ingest_ok' = FALSE
    /\ boards' = IF Len(raw_fetches) + Cardinality(configured) <= MaxFetches
                 THEN configured ELSE {}
    /\ ping' = "none"
    /\ UNCHANGED <<configured, databaseVars, rows, candidates, attempted, joined, batch, failures>>

FetchBoard(c) ==
    /\ stage = "ingest" /\ c \in boards
    /\ \E p \in {NoPayload} \cup SUBSET Ids :
          /\ raw_fetches' = Append(raw_fetches, [company |-> c, payload |-> p, parsed |-> FALSE])
          /\ ingest_ok' = (ingest_ok \/ p # NoPayload)
    /\ boards' = boards \ {c}
    /\ UNCHANGED <<configured, raw_details, postings, posting_versions, stage, rows,
                   candidates, attempted, joined, batch, ping, failures>>

Unparsed == {r \in DOMAIN raw_fetches : ~ raw_fetches[r].parsed}

EndIngest ==
    /\ stage = "ingest" /\ boards = {}
    /\ stage' = "parse"
    /\ rows' = Unparsed
    /\ UNCHANGED <<configured, databaseVars, ingest_ok, boards, candidates, attempted, joined,
                   batch, ping, failures>>

-----------------------------------------------------------------------------
(* parse_run.run, before and after the details.                            *)

(* extract: a detail row without a payload is as good as none.             *)
Extracted(c, i) == IF raw_details[c][i] = "stored" THEN "detailed" ELSE "listed"

(* Mutated form: only a posting never classified needs it.                 *)
UpsertedUnclassified(p, text) == [p EXCEPT !.text = text]

(* updated_at moves only when the content hash does.                       *)
Upserted(p, text) == [p EXCEPT !.text = text, !.stale = p.stale \/ p.text # text]

IsNextRow(r) == r \in rows /\ \A s \in rows : r <= s

SkipRow(r) ==
    /\ stage \in {"parse", "reparse"} /\ IsNextRow(r)
    /\ raw_fetches[r].payload # NoPayload
    /\ raw_fetches[r].company \notin configured
    /\ rows' = rows \ {r}
    /\ UNCHANGED <<configured, databaseVars, stage, ingest_ok, boards, candidates, attempted,
                   joined, batch, ping, failures>>

ParseRow(r) ==
    LET c     == raw_fetches[r].company
        items == raw_fetches[r].payload
        Lists(d, i) == d = c /\ items # NoPayload /\ i \in items
    IN  /\ stage \in {"parse", "reparse"} /\ IsNextRow(r)
        /\ items # NoPayload => c \in configured
        /\ postings' = [d \in Companies |-> [i \in Ids |->
              IF Lists(d, i) THEN Upserted(postings[d][i], Extracted(d, i)) ELSE postings[d][i]]]
        /\ posting_versions' = [d \in Companies |-> [i \in Ids |->
              IF Lists(d, i) /\ postings[d][i].text # Extracted(d, i)
              THEN Append(posting_versions[d][i], [observed_at |-> r, text |-> Extracted(d, i)])
              ELSE posting_versions[d][i]]]
        /\ raw_fetches' = [raw_fetches EXCEPT ![r].parsed = TRUE]
        /\ rows' = rows \ {r}
        /\ UNCHANGED <<configured, raw_details, stage, ingest_ok, boards, candidates, attempted,
                       joined, batch, ping, failures>>

(* Mutated form: without payload IS NOT NULL.                              *)
LatestRowListed(c) ==
    LET mine == {r \in DOMAIN raw_fetches : raw_fetches[r].company = c}
    IN  UNION {raw_fetches[r].payload : r \in
                  {q \in mine : raw_fetches[q].payload # NoPayload /\ \A s \in mine : s <= q}}

(* latest_fetch: what the company's last successful row lists.             *)
LatestListed(c) ==
    LET ok == {r \in DOMAIN raw_fetches :
                  raw_fetches[r].company = c /\ raw_fetches[r].payload # NoPayload}
    IN  UNION {raw_fetches[r].payload : r \in {q \in ok : \A s \in ok : s <= q}}

(* Mutated form: rd.payload IS NULL instead of rd.id IS NULL.              *)
MissingPayload ==
    {k \in Keys : k[2] \in LatestListed(k[1]) /\ raw_details[k[1]][k[2]] # "stored"}

MissingDetail == {k \in Keys : k[2] \in LatestListed(k[1]) /\ raw_details[k[1]][k[2]] = "none"}

EndParse ==
    /\ stage = "parse" /\ rows = {}
    /\ stage' = "details"
    /\ candidates' = MissingDetail
    /\ attempted' = 0
    /\ joined' = {}
    /\ UNCHANGED <<configured, databaseVars, ingest_ok, boards, rows, batch, ping, failures>>

-----------------------------------------------------------------------------
(* detail_run.run.                                                         *)

(* Mutated form: attempted > limit.                                        *)
WithinLimit == attempted <= Limit

BelowLimit == attempted < Limit

SkipCandidate(c, i) ==
    /\ stage = "details" /\ <<c, i>> \in candidates /\ BelowLimit
    /\ c \notin configured \/ i \notin EarlyCareers
    /\ candidates' = candidates \ {<<c, i>>}
    /\ UNCHANGED <<configured, databaseVars, stage, ingest_ok, boards, rows, attempted, joined,
                   batch, ping, failures>>

(* ON CONFLICT (source, company, external_id) DO NOTHING.                   *)
Inserted(old, new) == IF old = "none" THEN new ELSE old

FetchDetail(c, i) ==
    /\ stage = "details" /\ <<c, i>> \in candidates /\ BelowLimit
    /\ c \in configured /\ i \in EarlyCareers
    /\ attempted' = attempted + 1
    /\ candidates' = candidates \ {<<c, i>>}
    /\ \E result \in {"stored", "failed"} :
          /\ raw_details' = [raw_details EXCEPT ![c][i] = Inserted(@, result)]
          /\ joined' = IF result = "stored" THEN joined \cup {c} ELSE joined
    /\ UNCHANGED <<configured, raw_fetches, postings, posting_versions, stage, ingest_ok,
                   boards, rows, batch, ping, failures>>

(* Mutated form: at the limit, what was fetched is left to the next run.   *)
ToFlagBelowLimit == IF attempted = Limit THEN {} ELSE joined

ToFlag == joined

EndDetails ==
    /\ stage = "details" /\ (candidates = {} \/ ~ BelowLimit)
    /\ stage' = "flag"
    /\ candidates' = {}
    /\ joined' = ToFlag
    /\ UNCHANGED <<configured, databaseVars, ingest_ok, boards, rows, attempted, batch, ping,
                   failures>>

RowsOf(c) == {r \in DOMAIN raw_fetches : raw_fetches[r].company = c}

(* The company's most recent row, whether its fetch succeeded or not.      *)
IsFlagged(r, c) == r \in RowsOf(c) /\ \A s \in RowsOf(c) : s <= r

FlagLatest(c) ==
    /\ stage = "flag" /\ c \in joined
    /\ raw_fetches' = [r \in DOMAIN raw_fetches |->
                          IF IsFlagged(r, c) THEN [raw_fetches[r] EXCEPT !.parsed = FALSE]
                          ELSE raw_fetches[r]]
    /\ joined' = joined \ {c}
    /\ UNCHANGED <<configured, raw_details, postings, posting_versions, stage, ingest_ok,
                   boards, rows, candidates, attempted, batch, ping, failures>>

EndFlag ==
    /\ stage = "flag" /\ joined = {}
    /\ stage' = "reparse"
    /\ rows' = Unparsed
    /\ UNCHANGED <<configured, databaseVars, ingest_ok, boards, candidates, attempted, joined,
                   batch, ping, failures>>

-----------------------------------------------------------------------------
(* classify_run.run.                                                       *)

(* Mutated form: classified_at IS NULL alone.                              *)
NeverClassified ==
    {k \in Keys : LET p == postings[k[1]][k[2]]
                  IN  p.text # "absent" /\ p.location = "unclassified"}

NeedsClassifying == {k \in Keys : LET p == postings[k[1]][k[2]] IN p.text # "absent" /\ p.stale}

EndReparse ==
    /\ stage = "reparse" /\ rows = {}
    /\ stage' = "classify"
    /\ batch' = NeedsClassifying
    /\ UNCHANGED <<configured, databaseVars, ingest_ok, boards, rows, candidates, attempted,
                   joined, ping, failures>>

(* Mutated form: ORDER BY observed_at ASC.                                 *)
IsFirstVersion(v, c, i) ==
    /\ v \in {posting_versions[c][i][n] : n \in DOMAIN posting_versions[c][i]}
    /\ \A n \in DOMAIN posting_versions[c][i] : v.observed_at <= posting_versions[c][i][n].observed_at

(* ORDER BY observed_at DESC LIMIT 1: of equal dates, SQL may return any.   *)
IsLatestVersion(v, c, i) ==
    /\ v \in {posting_versions[c][i][n] : n \in DOMAIN posting_versions[c][i]}
    /\ \A n \in DOMAIN posting_versions[c][i] : posting_versions[c][i][n].observed_at <= v.observed_at

ClassifyPosting(c, i) ==
    /\ stage = "classify" /\ <<c, i>> \in batch
    /\ \E v \in Version :
          /\ IsLatestVersion(v, c, i)
          /\ postings' = [postings EXCEPT ![c][i].location  = postings[c][i].text,
                                          ![c][i].seniority = v.text,
                                          ![c][i].stale     = FALSE]
    /\ batch' = batch \ {<<c, i>>}
    /\ UNCHANGED <<configured, raw_fetches, raw_details, posting_versions, stage, ingest_ok,
                   boards, rows, candidates, attempted, joined, ping, failures>>

EndCycle ==
    /\ stage = "classify" /\ batch = {}
    /\ stage' = "idle"
    /\ ping' = IF ingest_ok THEN "success" ELSE "fail"
    /\ UNCHANGED <<configured, databaseVars, ingest_ok, workVars, failures>>

(* A stage raises: ping /fail, and no later stage runs.  A killed process    *)
(* does not even ping.                                                      *)
StageFails ==
    /\ stage # "idle" /\ failures < MaxFailures
    /\ failures' = failures + 1
    /\ stage' = "idle"
    /\ ping' \in {"fail", "none"}
    /\ boards' = {} /\ rows' = {} /\ candidates' = {} /\ attempted' = 0
    /\ joined' = {} /\ batch' = {}
    /\ UNCHANGED <<configured, databaseVars, ingest_ok>>

-----------------------------------------------------------------------------

StageStep ==
    \/ \E c \in Companies : FetchBoard(c) \/ FlagLatest(c)
    \/ \E r \in RowIds : SkipRow(r) \/ ParseRow(r)
    \/ \E c \in Companies, i \in Ids :
          SkipCandidate(c, i) \/ FetchDetail(c, i) \/ ClassifyPosting(c, i)
    \/ EndIngest \/ EndParse \/ EndDetails \/ EndFlag \/ EndReparse \/ EndCycle

Next ==
    \/ StartCycle
    \/ \E c \in Configurable : EditCompanies(c)
    \/ StageStep
    \/ StageFails

Spec == Init /\ [][Next]_vars

(* Cron starts a cycle every day; a process that is not stopped goes on.    *)
FairSpec == Spec /\ WF_vars(StartCycle) /\ WF_vars(StageStep)

-----------------------------------------------------------------------------
(* Properties.                                                             *)

(* The company's last successful fetch lists the posting.                  *)
IsListed(c, i) ==
    \E r \in RowsOf(c) :
        /\ raw_fetches[r].payload # NoPayload /\ i \in raw_fetches[r].payload
        /\ \A s \in RowsOf(c) : r < s => raw_fetches[s].payload = NoPayload

(* When classification starts in a cycle that collected something, every     *)
(* posting on a company's latest list whose detail is stored carries it --   *)
(* however earlier cycles ended between storing details, flagging the row    *)
(* and parsing it again -- unless that company's latest fetch failed.        *)
DetailsJoined ==
    stage = "classify" /\ ingest_ok =>
        \A c \in configured, i \in Ids : \A r \in RowsOf(c) :
            /\ IsFlagged(r, c)
            /\ raw_fetches[r].payload # NoPayload /\ i \in raw_fetches[r].payload
            /\ raw_details[c][i] = "stored"
            => postings[c][i].text = "detailed"

(* The same with no exception for failed fetches: db.py says the flagged row *)
(* is "the one raw_fetches row db.get_postings_missing_detail itself reads   *)
(* list identities from", pipeline.py that the second pass "is what actually *)
(* joins the newly-fetched details into postings/posting_versions".          *)
FetchedDetailsJoined ==
    stage = "classify" /\ ingest_ok =>
        \A c \in configured, i \in Ids :
            IsListed(c, i) /\ raw_details[c][i] = "stored" => postings[c][i].text = "detailed"

(* A posting that does not wait to be classified has the location class of   *)
(* its current row, whatever was parsed again since it was first classified  *)
(* and wherever classification was interrupted.                              *)
LocationIsCurrent ==
    \A c \in Companies, i \in Ids :
        LET p == postings[c][i]
        IN  p.text # "absent" /\ ~ p.stale => p.location = p.text

(* The seniority class lags behind the posting's text only when two versions *)
(* of one observation tie for the latest.                                    *)
SeniorityLagsOnlyOnTie ==
    \A c \in Companies, i \in Ids :
        LET p  == postings[c][i]
            vs == posting_versions[c][i]
        IN  p.text # "absent" /\ ~ p.stale /\ p.seniority # p.text =>
                \E m, n \in DOMAIN vs :
                    /\ m < n /\ n = Len(vs)
                    /\ vs[m].observed_at = vs[n].observed_at /\ vs[m].text = p.seniority

(* pipeline.py: "a brand-new Workday posting's very first classification now *)
(* sees its real description/location in the *same* cycle".                  *)
ClassificationSeesDetail ==
    \A c \in Companies, i \in Ids :
        LET p == postings[c][i]
        IN  p.text = "detailed" /\ ~ p.stale => p.seniority = "detailed"

(* A success ping certifies the cycle: no row of a configured company is left *)
(* unparsed, also none a previous cycle left behind or this one flagged, and  *)
(* no posting waits to be classified.                                         *)
SuccessCertifiesCycle ==
    [][ping # "success" /\ ping' = "success" =>
          /\ \A r \in DOMAIN raw_fetches :
                raw_fetches[r].parsed \/ raw_fetches[r].company \notin configured
          /\ \A c \in Companies, i \in Ids :
                postings[c][i].text = "absent" \/ ~ postings[c][i].stale]_vars

(* Details are fetched once per posting, not per run: no request is sent for  *)
(* a posting that has a detail row, also when that request had failed, and    *)
(* also when a cycle that was ended early is repeated.                        *)
DetailsFetchedOnce ==
    [][attempted < attempted' =>
          \A k \in candidates \ candidates' : raw_details[k[1]][k[2]] = "none"]_vars

(* A backlog larger than the limit is worked off over the cycles: a listed    *)
(* early-careers posting without a detail row gets one, unless it leaves the  *)
(* list or its company is dropped.                                            *)
BacklogIsWorkedOff ==
    \A c \in Companies, i \in EarlyCareers :
        (IsListed(c, i) /\ raw_details[c][i] = "none")
            ~> (raw_details[c][i] # "none" \/ ~ IsListed(c, i) \/ c \notin configured)
=============================================================================
