# Verification of the gradmarket pipeline

TLA+ models of gradmarket: a daily pipeline that archives job boards
(`ingest.py`), derives postings and their history from the archive
(`parse_run.py`), fetches Workday details (`detail_run.py`), classifies
(`classify_run.py`) and serves a cached page (`web/`).  Everything durable is in
one PostgreSQL database; every process talks to the others only through its
tables and through `companies.yaml`.

Paths below are relative to `src/gradmarket/` in the repository.

## 1. Inventory

| Component | State it keeps | Operations | Interacts through | Hard behaviour | Correct when |
|---|---|---|---|---|---|
| configuration `config.py`, `companies.yaml` | configured boards | edited by a deploy | read by every stage at its start | a board dropped with rows unparsed or postings open | dropped boards end with nothing open; nothing else is held up |
| ingest `ingest.py` | per run: consecutive 429s, tripped sources | one row per board: payload or NULL | inserts `raw_fetches` | circuit breaker, repeated runs in a day | every board has a row per run; a tripped source is not asked again |
| sources `sources/` | none | fetch with retries and pages | HTTP | boards that change between pages | no posting of a still board lost or repeated |
| extractors `parse/` | none | payload to postings | called by the parser | Workday's join with `raw_details` | identity agrees with `db.py`'s SQL |
| parser `parse_run.py` | `postings`, `posting_versions`, `feed_anomalies`, `raw_fetches.parsed_at` and payload | row loop, `process_row`, reconciliation, retention | the tables | many small commits, a crash between any two; order; the guard; write-once dates | the properties of section 4 |
| archive `db.py` | the tables | one statement or chunk loop per function, each committed | called by all stages | `ON CONFLICT`, ties, calendar days | as above |
| details `detail_run.py` | `raw_details`; flags rows for reparse | fetch what is missing, flag the latest row | `raw_fetches`, `raw_details` | flags set after the loop; failed rows; permanent failures | a fetched detail reaches its posting |
| classification `classify_run.py`, `classify/` | class columns, `classified_at` | read stale postings, classify, write | `postings`, `posting_versions` | posting changes between read and write; ties | class belongs to the current text |
| pipeline `pipeline.py`, `health.py` | none | five stages, one ping | calls the stages | a stage raises | one ping per run, success only if all went well |
| web cache `web/store.py` | snapshot, load time, back-off | `get`, `age` by request threads | reads the tables | threads, failed refreshes, three statements per load | no old answer after a new one, bounded load attempts |
| web queries `web/queries.py`, `arrivals.py` | none | floors, freshness, arrivals | reads the tables | first observations that move with retention | unknown ages are never shown as new |
| token discovery `scripts/check_tokens.py` | results file by token | probe all candidates, or retest those with a recorded status | the fetchers, the file | written once, at the end and in place; rows of an older layout | what a token last answered is what the file says |
| labelling `scripts/sample_for_labelling.py`, `label.py` | working files, `labels.csv` | sample, label, back, quit, resume | the files | two files rewritten in place after every row; several working files | a label once given is kept; samples are even |
| pages, evaluation, smoke and pruning scripts, static files | none | presentation, reports, one-off tools | | | |

`PROJECT.json` lists the hazards of this code line by line, with the properties
that cover them, or the reason why none does.

## 2. Modules

| Module | What it is |
|---|---|
| `ParseRun` | the parse pass: tables, ingest's inserts, deploys, the calendar, every commit of `process_row`, reconciliation, retention, interrupted runs, rows parsed again with the details a details run stored; its properties |
| `Pipeline` | a day's cycle as the two-stage boards see it: ingest, parse, details, flag, reparse, classify, ping; cycles that end early, boards dropped and added |
| `FullRebuild` | `ParseRun` with `--full`: the derived tables emptied and parsed again, and when that is refused |
| `PostingLifecycle` | what the archive promises about each posting: observed, closed once, never deleted |
| `BoardFetch` | one fetch of one board by each of the fetchers: retries, pages, caps, de-duplication, while the board changes |
| `Ingest` | a pass over the configured boards on top of `BoardFetch`: a row per board, the circuit breaker |
| `TokenDiscovery` | runs of `check_tokens.py` on top of `BoardFetch`, and their results file |
| `Labelling` | samples, labelling sessions and `labels.csv` |
| `SnapshotCache` | request threads over the web service's cache, refreshes and their failures |
| `SnapshotService` | what the cache promises its callers; `SnapshotCache` is shown to implement it |
| `BoardFloors` | the age rules of the page (floors, freshness groups, arrivals) over tables that retention thins out |
| `RoleLocation` | the location classifier against the location the page shows and filters by |
| `MCParseRun`, `MCPipeline`, `MCCollect`, `MCWeb` and their `.cfg` files | small instances for TLC |
| `ParseRunProofs` | `ParseRun`: types, order, dates and completeness of parsed rows, and that it implements `PostingLifecycle`, proved |
| `ParseRunHistoryProofs` | `ParseRun` and `FullRebuild`: order under rebuilds, versions, the guard, open postings, what may be thrown away, proved |
| `PipelineProofs` | the safety properties of `Pipeline`, proved |
| `SnapshotCacheProofs` | the safety properties of `SnapshotCache`, and that it implements `SnapshotService`, proved |
| `PageProofs` | the floor and age rules and the chart of `BoardFloors`, the places of `RoleLocation`, proved |
| `BoardFetchProofs` | lemmas about one fetch: pages read, de-duplication, what a changing board costs |
| `CollectProofs` | what a fetch brings, the circuit breaker of `Ingest`, the files of `TokenDiscovery` and `Labelling`, even samples, proved |
| `Folding` | lemmas the others share: induction over the naturals, and what a fold computes |

### How ParseRun corresponds to the code

* A row's id is also its `fetched_at` (rows are inserted one at a time with
  `DEFAULT now()`); the calendar day is kept beside it, because the guard and
  the anomalies compare days.  A payload is a function from external ids to
  contents, what it lists of them.  What `compute_content_hash` tells apart is a
  `Text`: that content, joined with the detail that `raw_details` holds of the
  posting when the row is parsed (`run_extract`), so one row may have other texts
  when it is parsed again.  `items` is the length of the list, repeated ids included.
* `process_row` is one action per commit: `BeginRow` (everything it reads and
  computes), `UpsertChunk` and `AppendChunk` (one statement of at most
  `CHUNK_SIZE` rows each), `SkipCloseDetection` or `CloseMissing`,
  `MarkParsed`, `StripRow`.  `pc` is where the process is between two commits.
* `run` around it: `StartRun` (the row list is read once), `SkipFailure`,
  `SkipUnconfigured`, then `BeginReconcile`, `CloseOrphaned` per board, and
  `DeleteOldParsed`, whose cutoff may fall anywhere within a calendar day.
* `Crash` stops the process between two commits; `crashes` bounds how often.
  The next `StartRun` is the next scheduled run.
* `StartDetails`, `StoreDetail`, `MarkLatestRawFetchUnparsed` and `EndDetails` are
  `detail_run.run`: the candidates are read once, each detail that arrives is
  committed, and then the last row of each company that got one is parsed again.
  `EndDetails` may come before all are flagged: `--dry-run`, or a kill.  A details
  run falls between two runs of the parser, as `pipeline.main` calls them; the
  limit, the title filter and failed requests are `Pipeline`'s.
* `IngestFailure`/`IngestPayload` insert a row at any time, also while a parse
  pass runs: a manual ingest is a separate process.  `EditCompanies` happens
  between runs only, since `companies.yaml` is part of the deployed image.  A deploy and
  a crash are events of the surroundings and are mapped as external.
* Every definition that stands for code is in `PROJECT.json` "map" with its lines.
* `skipped` is a history variable, the rows whose close-detection was skipped with the
  count the guard compared them with; and `Unparsed...`, `Is...` definitions
  marked "Mutated form" are not used by the specification: they are the
  plausible bugs each property is tried against.

### How Pipeline corresponds to the code

* `stage` is what `pipeline.main` is doing.  Each stage reads its work list when
  it starts (`StartCycle` the boards, `EndIngest` and `EndFlag` the unparsed
  rows, `EndParse` the candidates, `EndReparse` the stale postings) and commits
  item by item; each item is one action.  Processing one row is one step here:
  `ParseRun` takes it apart, and proves that it is applied in full or repeated.
* `raw_details` holds `none`, `failed` (a row without payload) or `stored`.  The
  text of a posting is reduced to its origin: the list alone, or the list joined
  with the detail.  `stale` is `classified_at IS NULL OR updated_at > classified_at`.
* A class is modelled by the text it was derived from: `location_class` from the
  row of `postings`, `seniority_class` also from the version the query returns.
  Two versions may share `observed_at`; the query then returns either one.
* `StageFails` ends a cycle anywhere: an exception (ping `/fail`) or a kill (no
  ping).  `EditCompanies` happens between cycles.
* Left out: closing, the guard and retention (in `ParseRun`, and they
  touch nothing the stages above read), the pause between requests, the other
  sources' boards (they have no second stage), contents that change on the list.

Left out of `ParseRun`: a details run that overlaps a parser run, `--dry-run` (rolled back), counters and messages, `department` and `url` (never compared), `updated_at`
and the class columns (only classification reads them), sources without an
extractor (there is none in `sources.SOURCES`).

### How BoardFetch, Ingest, TokenDiscovery and Labelling correspond to the code

* `BoardFetch` is `fetch(token)` of the five fetchers.  Greenhouse and Ashby
  ("whole") and Workable answer with the whole board; Lever and Workday page
  through it by the number of postings read so far.  One action per request:
  it brings a page (`ReadPage`) or is refused (`Retry`, `Fail`, `FallBackToEu`,
  `Raise`).  How a request may end is external and unrestricted; what the
  fetcher makes of it is the code's.  `Raise` is `data.get` on a body of another
  shape: Lever asks whether the body is a list, and Workday whether it is null.
  `_deduplicate_jobs` (Lever, Workable) raises at the end of the fetch if a job on any
  page is no object (`Returns`); the others return such a payload, and what the
  extractor makes of it is not modelled.  Between two pages a
  posting may appear anywhere or go.  `still`, `withdrawn`, `changes` and `odd`
  record that history for the properties.
* `Ingest.Fetch`, `Fetching`, `Record`, `SkipTripped` and `Abort` are the loop
  of `ingest.run`.  `ParseRun.IngestPayload` and `Pipeline`'s ingest stage are
  the same rows as the later stages see them.
* `TokenDiscovery.existing` is the dictionary the script loads and updates,
  `results` the file.  `OldFile` is a file of the layout before the status column.
  `Abandon` is a fetch that raises or a kill; in the middle of the final write
  it leaves some of the rows.
* `Labelling`: a label stands for the pair of both labels, which a row gets
  together.  `LabelRow` saves the working file, `SyncRow` merges into
  `labels.csv`; a kill may fall between the two or cut short either write.
  `StratifiedSample` is the share of each cell; which postings of a cell are
  drawn, and in which order `rng.shuffle` leaves them (`Shuffled`), is left open.

### How SnapshotCache, BoardFloors and RoleLocation correspond to the code

* `SnapshotCache` has one action per read or write of a shared attribute outside
  the lock (`ReadClock`, `ReadLoadedAt`, `ReadBackoff`, `ServeUnlocked`), since
  threads may switch between them.  Only the holder of the lock writes, so the
  check under it is one step; `Install` and `Stamp` are two, because an
  unlocked check may fall between.  The loader's three statements see the
  tables at versions of their own.  `Tick`, `PipelineCommits` and
  `DatabaseToggles` are the surroundings.
* `BoardFloors` applies a row in one step (`ParseRun` takes it apart) and keeps of
  a posting its `first_seen_at`, `is_open` and whether it was closed once.
  Each query of `queries.py` and `arrivals.py` is a function of the tables.  Times
  are whole days: the code compares exact time differences, which order as the days do
  but for two times of one day.  A parse always closes what the row does not list:
  the guard, rows that skip closing, a second fetch of a day and `--full` are left out,
  since none of the age rules looks at what is open, and only the list of roles does.
* `RoleLocation` keeps of a fragment between two commas only what the patterns
  tell apart (eleven kinds); `ClassifyLocation` is `classify/location.py`, `Shown`
  and `FiledUnder` are `display_location` and `derive_cities`.

## 3. Runs

All runs check deadlock, except `web`, `new_guess` and `collect`: there the clock,
the requests, the pass and the number of runs are bounded and no process goes on
by itself.

| Run | Module | Instance | What it shows |
|---|---|---|---|
| `crash` | `ParseRun` | 1 two-stage board, 2 ids, 1 detail, chunks of 1, 3 rows, 2 days, 1 crash | a run stopped between any two commits, then repeated, and rows parsed again with details, never half-apply or reorder anything, nor skip closing without a trace; versions stay in order but for the pair of one row |
| `history` | `FullRebuild` | 1 board, 2 ids, 2 contents, minimum 3, 3 rows, 3 days, 1 repeated id, retention 0 days, no crash, a rebuild between any two passes | nothing is closed by a collapsed feed; stripping, retention and rebuilds lose no text that is not in `posting_versions` |
| `lifecycle` | `ParseRun` | 1 two-stage board that deploys drop and add again, 2 ids, 1 detail, 4 rows of a day, retention 0 days | close, reopen, close again, and reparses with details between them, against `PostingLifecycle`; what is open is what the last row lists; nothing stays open on a dropped board |
| `liveness` | | 2 boards, one of them two-stage and configurable, 1 detail, 2 rows, 1 crash | every row is parsed in the end |
| `lost_text`, `missing` | | 1 board, 3 rows and 1 crash; 4 rows | disagreements, section 5 |
| `cycle` | `Pipeline` | 1 board that deploys drop and add again, 3 ids of which 2 pass the filter, limit 1, 3 cycles with a fetch, one ended early | details reach postings, classes belong to the current text, a success ping certifies the cycle, and the backlog is worked off |
| `failed_fetch`, `tie` | | 2 boards, 4 rows; 1 board, 2 rows | disagreements, section 5 |
| `collect` | `MCCollect` | pages of 2, at most 3 of them, 1 retry, up to 7 postings, 2 changes; a pass over 5 boards of 2 sources, threshold 2; 2 runs over 2 tokens; 2 working files, 2 urls, 2 labels, 2 samples; 4 cells of at most 2, samples of 0 to 7 | no fetch truncates a board; the breaker trips exactly when it should; what discovery and labelling write down stays there |
| `web` | `MCWeb` | 2 threads with 2 requests each, time to live 2, back-off 1, clock to 3; 2 boards, 2 ids, 3 rows, 5 days, floor window 1; every location of 2 entries of 2 fragments | the cache keeps `SnapshotService`; ages are never understated; roles listed as British show a British place |
| `new_guess` | | as `web` | disagreement, section 5 |

`collect` and `web` each hold several parts that share no variable, or only the
fetcher.  Each part is explored from the initial states of the others, so the
run covers the sum of their state spaces and not the product.

Why the bounds are enough.  Boards share no row, and a second one matters only
for who is configured; ids share nothing but the statement they are in, so two
ids distinguish "in this chunk / not yet" and "listed / missing", and the guard
needs three (a minimum of 3, halved).  Two contents tell changed from unchanged.
Three rows are a baseline, an observation and one that overtakes or repeats it;
four let a posting be seen, missed, seen and missed.
In `crash` and `lifecycle` a listing has one content, and one detail makes two texts of it: the
text of a posting changes by its detail arriving, and by its content changing in `history` and
`lost_text`.  In `lifecycle` all rows are of one day: close, reopen and reparse look at no day,
and with a retention of 0 days the sweep may still take any parsed row.  Three days are the
baseline's, the row's and the parse's.  In `history` the third posting of
a feed is a repeated id, which is what tells `items` from the ids: a baseline
of 3 is at the minimum, and 2 and 1 postings are above and below its half.  One
crash may fall anywhere; a second repeats the first from a state that the
theorems of section 6 cover.  Since those theorems hold for every value of these
constants, the bounds matter for what is only model-checked.
In `Pipeline` two postings that pass the filter are a backlog at a limit of 1,
the third never gets a detail, and three fetches let a detail be stored in one
cycle, the cycle end early, and a later one join it.
The constants of the code are scaled: guard minimum 10 to 2 or 3, retention 30
days to 0, 1 or 2, chunks of 1000 to 1 or 2, the detail limit 200 to 1.  `SYMMETRY`
permutes ids, contents and companies, which are only compared with each other;
the runs with liveness properties use none.

In `BoardFetch` three pages of two are a first, a middle and a last one; 7
postings exceed the cap by one and 6 meet it exactly, 5 leave the last page
half full; two changes are one before the pages read and one after, or both
at one boundary.  In the pass, the four boards of the first source let a trip
leave boards unasked, and let two 429s with another answer in between be followed
by a board that must be asked; one of another source comes in the middle, whose
answer must neither break nor lengthen the streak.  Boards of that pass and of discovery
have at most one posting: how a fetch ends is all they look at.  In the cache
two threads are a refresher and one that waits or slips past it, and two
requests each let a thread come back after a refresh that failed; at a time to
live of 2 and a back-off of 1 the clock passes every deadline by 3.  In
`BoardFloors` three rows are a board that failed first, the same board later, and
another board.  Two entries of two fragments are a city with what qualifies it
and another entry that changes what it means; the classifier looks no further.

Fairness.  `FairSpec` adds `SF_vars(ParserStep)`: cron starts a run after the
last has ended, whatever details runs come between (strong fairness, for they
disable it meanwhile), and a process that does not stop takes its next step.
`WF_vars(EndDetails)`: a details run, a loop over a list read once, ends.  Nothing is
assumed of ingest, deploys, the calendar or crashes (crashes are bounded: a run
that always stops half-way parses nothing).  `Pipeline`'s `FairSpec` says the
same of the cycle: `WF_vars(StartCycle)` (cron) and `WF_vars(StageStep)`.
Once the bound on rows is reached cycles go on without collecting anything, as
they do when every board is dropped, so the bound stops no stage.
`CacheFairness` is `WF_vars(ThreadStep(t))` for each thread: queries end in a result or
a time-out, and nothing is assumed of the clock, the pipeline or the database.
A thread waiting at the lock is not passed by for ever because requests are
bounded; Python's lock promises no order, so with unending requests this would
be an assumption.  In `collect` the pass takes its next step, as a sequential
program does: every request has a timeout and an end.

## 4. Properties

`ParseRun`: `TypeOK`; `DatesConsistent`, `NothingOvertaken`,
`ParsedRowsApplied`, `VersionsOrdered` (interrupted and repeated runs, rows parsed again with details);
`OpenPostingsMatchFeed`, `DroppedBoardsAreClosed`, `KeepsLifecycle` (life of a
posting); `ClosedByCredibleFeed`, `TrippedGuardLeavesTrace` (the guard);
`StrippedTextIsKept`, `LastVersionIsCurrent`, `ParsedRowsAreStripped`,
`DeletionLosesNothing` (what may be thrown away); `EveryRowIsParsed` (liveness).

`Pipeline`: `TypeOK`; `DetailsJoined` (whatever an earlier cycle left
undone); `LocationIsCurrent`, `SeniorityLagsOnlyOnTie` (no class outlives its
text); `SuccessCertifiesCycle` (what the ping promises); `DetailsFetchedOnce`;
`BacklogIsWorkedOff` (liveness).

`BoardFetch`: `FetchTypeOK`, `StillBoardIsFetchedWhole`, `TornFetchLosesLittle` (paging
over a moving board).  `Ingest`: `BreakerIsExact`; `EveryBoardHasItsRow` (liveness).
`TokenDiscovery`: `ResultsFileIsFaithful`.  `Labelling`: `LabelsAreKept`, `SampleIsEven`.

`SnapshotCache`: `CacheTypeOK`; `RefreshesAreSpaced`, `AnswersAreRecent` (one load
however many threads, no old answers); `KeepsServicePromise` (refinement);
`EveryRequestIsAnswered` (liveness).  `BoardFloors`: `FloorsTypeOK`; `UnknownAgesAreFloors`,
`AgesOnlyGrow`, `ChartMatchesLabels`.  `RoleLocation`: `ListedRolesShowUkPlaces`.

`VersionsOrdered` is strict but for a pair: a row parsed again with a detail that its
first parse did not have adds a second version of the same `observed_at` (the tie of
section 5).  A board without second stage has no details, hence no pair.
`TrippedGuardLeavesTrace` speaks of what a human would look for: a posting that never closed
and is open, though its board's last fetch, parsed, does not list it, is explained by an
anomaly no older than that fetch, unless that fetch was empty and so was the baseline it was
compared with (`skipped` says which count that was; section 5 says what that exception lets through).

Each is stated in words above its definition, and each is broken by a mutant of
the code listed in `PROJECT.json`.

The properties of `history` are checked without interruptions because the
code does not keep them otherwise: `lost_text` is the counterexample for the
first two, and a run stopped between mark and strip leaves the text in a parsed
row for good, although `docs/ARCHITECTURE.md` says that only unparsed rows hold it.

## 5. Where the code and its documents disagree

* `lost_text` (bug): `bulk_upsert_postings` commits the new `content_hash`
  before `bulk_append_posting_versions` commits the version.  Stopped in
  between, the next run finds the hash unchanged, appends nothing, marks the row
  and strips its text.  The text is then in no table.
* `missing`: a posting that reopened is never closed again (`closed_at IS NULL`
  in the `WHERE` clause), although "a posting missing from the feed sets
  `is_open = false`".
* `tie` (bug): a row's two parses date their versions alike; the query that
  feeds classification orders by that date alone and may return the version
  without the description.  The posting is then not stale, and keeps the class.
* `failed_fetch`: candidates come from the latest row with a payload, the flag
  goes to the latest row.  When the latest fetch failed, the details just stored
  are joined only after the next successful fetch.
* `new_guess`: a board's start is its first row of `raw_fetches`, failed or not.  A
  board that failed for longer than the floor window and then succeeded shows
  everything it already listed as new, although `web/queries.py:25` says the
  error is never in that direction.

Seen while modelling, and not worth a run of their own (no property of this
project depends on them, or the words are about a case the code leaves out):

* The baseline of the guard is a fetch of an earlier day.  A board that was empty
  yesterday, lists a posting in today's first fetch and nothing in its second counts as
  empty before and empty now: closing is skipped, no anomaly is recorded, and the posting
  stays open, although `parse_run.py:66` says of the skips that record nothing "a board
  that's been empty for two runs running".  It is the exception that
  `TrippedGuardLeavesTrace` names.
* `web/store.py:149`: requests that arrive in a refresh "see its result instead of
  each querying again".  When the first load fails each of the waiting requests
  runs the loader again, one after the other.
* `ingest.py:11` says of the answers the breaker counts that each board "already
  exhausted its own retries"; a Workable 429 with a long `Retry-After` is not retried.
* An unforced `--full` is accepted once retention has deleted the stripped rows, and
  then `first_seen_at` restarts from the rows that are left, and the versions
  recorded before them go (`history` checks what is kept: the text of
  the rows that are still there).
* `check_tokens.py`: a token listed twice in a run is counted twice in the report,
  and a token that answered 429 and errors when retested leaves the 429 group, so
  `--only-status` no longer finds it.
* `prune_raw_fetches.py` chooses rows by age alone: one that was never parsed loses
  its descriptions before `posting_versions` has them.
* `classify/location.py` and `display.py`: a North American hint is taken from the whole
  string, so another entry decides what "London, Washington" is; "Remote, United
  Kingdom; Paris" and "Paris; Ware; Ware, United Kingdom" show Paris.  The two
  exceptions of `ListedRolesShowUkPlaces` are these.

## 6. What is proved

Every theorem holds for every value of the constants that satisfies the named
assumptions of its module.  Those only say what a constant is: sets of boards,
companies and ids are finite where the code counts them, bounds and limits are
numbers, the constants that divide or count are not zero (`TimesAssumption`,
`WindowsAssumption`, `PagesAssumption`, `IngestAssumption`), and a marker is not
one of the values it marks the absence of (`NoPayload`, `NoContent`, `NoThread`,
"" for no label and no file).

`ParseRun`, in which runs may be interrupted anywhere:

* `TypeCorrect`: `Spec => []TypeOK`.  Inductive with `LocalsOK`, which ties the
  locals of the process to `pc` (which row is being worked on, that it is
  successful and unparsed until it is marked, that pending ids are ids of it).
* `NeverOvertaken`, `DatesStayConsistent`, `ParsedMeansApplied`.  They share one
  inductive invariant, `OrderInv`.  `NothingOvertaken` is not inductive alone:
  that the row being applied is the oldest of its board needs `QueueOrder` (rows not in
  `todo` and unparsed are younger, or belong to a board without a token that
  stays so during the run), and a row inserted meanwhile needs
  `NothingAfterSerial` (nothing is dated after the last id).  That a flagged row overtakes
  nothing needs that nothing of a board is dated after its last row (`LatestCovers`).  `ParsedRowsApplied`
  needs `UpsertedSoFar`: ids no longer pending have been seen at the current row.
* `ParseRunKeepsLifecycle`: `Spec => KeepsLifecycle`.  Every step leaves a
  posting alone, observes it or closes it (`EveryStep`), and with `OrderInv`
  each of those maps to a step of `PostingLifecycle`.

`FullRebuild`, which is `ParseRun` with a rebuild between any two runs.  Its
`RebuildSpec` admits more than `Spec` does (`DailyRunsRebuildNothing`), so that what
is proved of it holds of the daily runs too.  (`KeepsLifecycle` does not hold of
it: a rebuild forgets the postings.)  The steps are argued from what they do to
each table (`RowEffects`, `PostingEffects`, `VersionEffects`, `LocalEffects`), and the rebuild
from `RebuildEmpties`:

* `RebuildsKeepOrder`: the order theorems above, under rebuilds.
* `VersionsStayOrdered`.  `VersionsInv` adds that a version still to be appended follows
  all there are (`Follows`), and, for rows that may be parsed (again), that a version of
  their date is the content of the posting, or has no detail while there is one by now
  (`VersionIsHeld`): so it does not count as changed again, or makes the pair.  Details are
  never taken away (`DetailsGrow`).
* `ClosesAreCredible`.  `GuardInv`: days are ordered like
  rows, boards' rows are parsed in order, `previous` is still what the tables
  say (retention runs between rows only), a posting was last seen where it was listed.  The
  property of a close is stated against the last baseline only (`Credible`): retention deletes
  the oldest first, so the last one is never replaced by an older one.
* `OpenPostingsFollowFeed`, `DroppedBoardsClose`.  `OpenInv` adds what has been
  upserted and closed so far of the row at work.  `TrippedGuardsAreSeen` follows from both:
  every skip still on record left its trace (`SkippedLeaveTrace`), and a last row without a
  skip left nothing open that never closed.
* `HistoryIsCurrent`, `StrippingLosesNoText`, `ParsedRowsGetStripped`,
  `RetentionLosesNothing`, under `MaxCrashes = 0`: no run is interrupted.  With an
  interruption the first two are false, as the run `lost_text` shows (section 5), and so are
  the others.  `TextInv`: what is not in `appends` any more is the last version, what
  is in it differs from it; rows are stripped only once they are parsed.

`Pipeline`, in which a cycle may end at any step: `PipelineTypeCorrect`,
`LocationsAreCurrent`, `SeniorityLagsOnTies`, `StoredDetailsAreJoined`, `DetailsAreFetchedOnce`,
`SuccessIsCertain`.  One inductive invariant, `CycleInv`.  `DetailsJoined` speaks of the
moment classification begins; before that, a board's latest row waits to be parsed,
waits to be flagged, or has brought its details (`DetailsAreOnTheirWay`), and rows and
postings not done yet are ahead in the work list of the stage (`PassesAreComplete`).
The classes need the versions: of the posting's own company, in the order of rows,
the last one with its text (`VersionsOK`).

`SnapshotCache`, for any number of threads and requests: `CacheTypeCorrect`,
`CacheRefreshesAreSpaced`, `CacheAnswersAreRecent`, and the refinement
`CacheKeepsServicePromise`.  `CacheInv`: no recorded time is ahead of the clock (`TimesOK`), a
thread past a check knows what the check found although others moved on (`ChecksOK`),
and what is being read is no older than what is served (`VersionsOK`), which
is why an install never takes anything back.

`BoardFloors`: `FloorsTypeCorrect`, `FloorsStayFloors`, `PostingsOnlyAge`, from `FloorsInv`: no
row or first success lies in the future, and no successful row precedes its board's
first success.  `ChartsMatchLabels` (`ChartMatchesLabels`) needs no more than the types: a posting
of known age is counted on exactly one day of the chart (`KnownAgesAreCharted`), and what is
counted day by day adds up to what is counted at once (`SumOfDays`, by induction over the days).

`RoleLocation`: `ListedRolesStayUk`, for locations of any number of entries of any
length.  An entry the classifier takes as British within the whole string is British by itself
(`UkByItself`: the hint from other entries can only rule it out).  Where no two entries read
alike, every entry that is not empty becomes a segment (`SegmentsRun`, `SegmentsOfEntries`, by
induction over the entries), so the page finds a British one to show, this or another.

`CollectProofs`:

* `FetchesAreBounded`, `BreakerStaysExact`, of `IngestSpec`.  `FetchInv`: a page is asked for only
  below the cap, ids are those the board began with or gained.  `BreakerInv`: each
  counter is the number of the trailing asked boards of its source, all of
  them answered 429, and the asked one before them did not (`StreakIs`); a source is
  tripped when its counter is at the threshold.
* `StillBoardsAreFetchedWhole`, `TornFetchesLoseLittle`.  `TornInv`: the postings that stay on the
  board, lie behind the offset and were not read (`Missed`) are no more than those taken
  down so far; and Workday's first total, with what changed since, gives the
  board's size (`FetchedSoFar`).  A posting that appears pushes read ones forward and hides nothing; one
  that goes pulls at most one across the offset (`TornWithAppearing`, `TornWithGoing`);
  reading a page leaves nothing behind it (`ReadingMisses`).  At the last page what is
  missed is what lies behind a total too small for the board (`LastPageLosesLittle`).
* `FinishedPassIsWhole`: a pass that is done has left a row for every board.  This is the
  safety half of `EveryBoardHasItsRow`; that the pass gets done stays with TLC.
* `ResultsStayFaithful`, of `DiscoverySpec`.  `RunInMemory`: during a run the dictionary
  is the file as it was read, with this run's answers over it.
* `LabelsStayKept`, of `LabellingSpec`.  `LabelInv`: a session's rows are those of its
  file, what a file says was said, and between two saves all of it is in `labels.csv`.
* `SamplesStayEven`, of `LabellingSpec`, for cells of any size.  The back-fill goes round the cells, and after
  `m` offers each cell has given its size or, if that is less, its share and one for each
  round that has come to it, so that no two cells differ by more than one unless one is
  exhausted (`Level`, `SamplingRuns`, `LevelsAreEven`); the back-fill stops when the size asked
  for is reached (`SampleIsAsLevel`).

`IngestSpec`, `DiscoverySpec` and `LabellingSpec` are the parts that `collect` explores side by
side, as `CacheSpec`, `FloorsSpec` and `LocationSpec` are of `web`.

What folds compute.  De-duplication, the back-fill, the chart and the page's segments are folds of
the community modules, which are recursive functions on subsets of what is folded.
The library's induction theorems take an operator as a parameter, which the installed
provers cannot instantiate; `Folding` states what is needed with sets and functions
instead: a set that has 0 and with every number the next has them all (`NatSets`, from the
well-foundedness of `<`), and a left fold satisfies its equation (`LeftFoldExists`).
A lemma about a fold then takes the set of lengths up to which it holds.

Only model-checked:

* liveness: `EveryRowIsParsed`, `BacklogIsWorkedOff`, `EveryRequestIsAnswered`,
  `EveryBoardHasItsRow` (fairness and `ENABLED` are out of the prover's reach).
  Of the second and the last the theorems have the safety half: a cycle that reports
  success left no row unparsed and no posting stale (`SuccessIsCertain`), and
  `FinishedPassIsWhole`;
* the five properties of section 5, which the code does not have.

## 7. Not modelled, and plan

Not modelled:

* the override of the rebuild's refusal (it does what its name says) and the
  pruning script (a one-time clean-up that strips as the parser does);
* the seniority rules (`classify/seniority.py`): patterns over free text in an order
  of precedence, about which there is nothing to say but the patterns;
* the field mapping of the extractors other than Workday's join, templates, search
  and styles, the reports of the evaluation scripts, smoke and probe scripts;
* two parse or classification passes at once, a details run during a parse pass, and the two clocks that
  `classified_at` and `updated_at` come from: `ParseRun` and `Pipeline` have one
  process, as the cron schedule has.  The hazards of it are listed, and `Overlap`
  below is the module for them;
* `SnapshotCache.age` (`/healthz`), which reads two attributes and changes nothing;
* connections, migrations and indices of `db.py`; HTTP headers and pauses.

Plan, most important first:

1. `Overlap`: two passes (parse, classify) on the same tables, and their clocks.
2. A proof that details and classification of `Pipeline` keep the promise of
   `ParseRun`'s versions when both are composed, once `Overlap` shares the tables.
