---------------------------- MODULE BoardFloors ----------------------------
(***************************************************************************)
(* web/queries.py and web/arrivals.py over the tables as they age: which   *)
(* postings the page may call new.  A board's start is the earliest of its *)
(* raw_fetches rows and its postings' first_seen_at; a posting first seen  *)
(* within FLOOR_WINDOW of it was there before anyone looked, so its age is *)
(* a floor.  Rows disappear with retention; postings never do.  What the   *)
(* parse pass does to these tables is ParseRun, one row here per step.     *)
(***************************************************************************)
EXTENDS Naturals, FiniteSets, FiniteSetsExt

CONSTANTS
    Boards, Ids,
    UkEarly,      \* the ids that classify as uk and early: the ones listed
    FloorWindow,  \* FLOOR_WINDOW
    NewWindow,    \* NEW_WINDOW, also THIS_WEEK_MAX_DAYS
    MonthDays,    \* THIS_MONTH_MAX_DAYS
    Retention,    \* RAW_FETCHES_RETENTION_DAYS
    MaxTime,      \* bound on the clock
    MaxRows,      \* bound on rows of raw_fetches ever inserted
    Failed        \* the payload of a failed fetch, NULL

ASSUME WindowsAssumption ==
    /\ UkEarly \subseteq Ids
    /\ FloorWindow \in Nat \ {0} /\ NewWindow \in Nat /\ MonthDays \in Nat /\ Retention \in Nat
ASSUME KeysAssumption == IsFiniteSet(Boards) /\ IsFiniteSet(Ids)
ASSUME HorizonAssumption == MaxTime \in Nat \ {0} /\ MaxRows \in Nat

VARIABLES
    time,       \* the date; two observations of a board never share one
    raw,        \* raw_fetches: the rows that are left
    inserted,   \* rows ever inserted, bounded
    postings,   \* per board and id: first_seen_at (0: no row), is_open, closed once
    firstGood   \* history: per board its first successful fetch (0: none yet)

tableVars == <<time, raw, inserted, postings, firstGood>>

Row == [board : Boards, at : 1..MaxTime, payload : (SUBSET Ids) \cup {Failed}, parsed : BOOLEAN]
NoPosting == [first |-> 0, open |-> FALSE, closed |-> FALSE]
Keys == Boards \X Ids

FloorsInit ==
    /\ time = 1 /\ raw = {} /\ inserted = 0
    /\ postings = [k \in Keys |-> NoPosting]
    /\ firstGood = [b \in Boards |-> 0]

NextDay ==
    /\ time < MaxTime
    /\ time' = time + 1
    /\ UNCHANGED <<raw, inserted, postings, firstGood>>

(* ingest.run: one row per board and pass, NULL when the fetch failed or   *)
(* the source was skipped.                                                 *)
Ingest(b, payload) ==
    /\ inserted < MaxRows
    /\ \A r \in raw : r.board = b => r.at < time
    /\ raw' = raw \cup {[board |-> b, at |-> time, payload |-> payload, parsed |-> FALSE]}
    /\ inserted' = inserted + 1
    /\ firstGood' = IF payload # Failed /\ firstGood[b] = 0
                    THEN [firstGood EXCEPT ![b] = time] ELSE firstGood
    /\ UNCHANGED <<time, postings>>

(* Mutated form: first_seen_at follows the posting when it is reopened.    *)
AppliedAsReopened(p, r, i) ==
    IF i \in r.payload
    THEN [p EXCEPT !.first = IF p.open THEN @ ELSE r.at, !.open = TRUE]
    ELSE [p EXCEPT !.open = FALSE]

(* Mutated form: dated the day after it was collected.                     *)
AppliedNextDay(p, r, i) ==
    IF i \in r.payload
    THEN [p EXCEPT !.first = IF @ = 0 THEN r.at + 1 ELSE @, !.open = TRUE]
    ELSE IF p.open /\ ~p.closed THEN [p EXCEPT !.open = FALSE, !.closed = TRUE] ELSE p

(* A listed posting is inserted or reopened with its first_seen_at kept; a *)
(* missing one is closed once.                                             *)
Applied(p, r, i) ==
    IF i \in r.payload
    THEN [p EXCEPT !.first = IF @ = 0 THEN r.at ELSE @, !.open = TRUE]
    ELSE IF p.open /\ ~p.closed THEN [p EXCEPT !.open = FALSE, !.closed = TRUE] ELSE p

ParseRow(r) ==
    /\ ~r.parsed
    /\ \A q \in raw : q.board = r.board /\ ~q.parsed => q.at >= r.at
    \* Its payload is read no more: stripped of what this module looks at.
    /\ raw' = (raw \ {r}) \cup {[r EXCEPT !.parsed = TRUE, !.payload = Failed]}
    /\ postings' = IF r.payload = Failed THEN postings
                   ELSE [k \in Keys |-> IF k[1] = r.board THEN Applied(postings[k], r, k[2])
                                                          ELSE postings[k]]
    /\ UNCHANGED <<time, inserted, firstGood>>

(* delete_old_parsed_raw_fetches at the end of a parse pass.               *)
Sweep ==
    /\ \E r \in raw : r.parsed /\ r.at + Retention < time
    /\ raw' = {r \in raw : ~(r.parsed /\ r.at + Retention < time)}
    /\ UNCHANGED <<time, inserted, postings, firstGood>>

FloorsNext ==
    \/ NextDay \/ Sweep
    \/ \E b \in Boards, payload \in (SUBSET Ids) \cup {Failed} : Ingest(b, payload)
    \/ \E r \in raw : ParseRow(r)

FloorsSpec == FloorsInit /\ [][FloorsNext]_tableVars

-----------------------------------------------------------------------------
(***************************************************************************)
(* The queries, as functions of the tables.                                *)
(***************************************************************************)
HasRow(k) == postings[k].first # 0

(* Mutated form: one start for all boards.                                 *)
AllObservations(b) == {r.at : r \in raw} \cup {postings[k].first : k \in {l \in Keys : HasRow(l)}}

(* BOARD_START_CTE                                                         *)
Observations(b) == {r.at : r \in {q \in raw : q.board = b}}
                   \cup {postings[k].first : k \in {l \in Keys : l[1] = b /\ HasRow(l)}}
BoardStart(b) == Min(Observations(b))

(* derive_role                                                             *)
IsFloor(k) == postings[k].first < BoardStart(k[1]) + FloorWindow
DaysOpen(k) == time - postings[k].first
IsNew(k) == ~IsFloor(k) /\ DaysOpen(k) <= NewWindow

(* freshness_group, in display order: this week, this month, earlier       *)
FreshnessGroup(k) ==
    IF DaysOpen(k) <= NewWindow /\ ~IsFloor(k) THEN 1
    ELSE IF DaysOpen(k) <= MonthDays THEN 2 ELSE 3

(* OPEN_UK_EARLY_ROLES_SQL                                                 *)
Roles == {k \in Keys : k[2] \in UkEarly /\ HasRow(k) /\ postings[k].open}

(* ARRIVALS_SQL: open or closed                                            *)
IsArrival(k) == postings[k].first >= BoardStart(k[1]) + FloorWindow
ArrivedOn(d) == Cardinality({k \in Keys : /\ k[2] \in UkEarly /\ HasRow(k)
                                          /\ IsArrival(k) /\ postings[k].first = d})

(* Mutated form: collection starts with the earliest row of raw_fetches.   *)
EarliestRow == IF raw = {} THEN 0 ELSE Min({r.at : r \in raw})

(* STATS_SQL: collecting_since over all postings; 0 stands for NULL        *)
CollectingSince ==
    LET firsts == {postings[k].first : k \in {l \in Keys : HasRow(l)}}
    IN IF firsts = {} THEN 0 ELSE Min(firsts)

(* build_arrivals: one entry per day from the start of collection on.      *)
Chart ==
    IF CollectingSince = 0 THEN [d \in {} |-> 0]
    ELSE [d \in CollectingSince..time |-> ArrivedOn(d)]

ArrivalsShown == MapThenSumSet(LAMBDA d : Chart[d], DOMAIN Chart)

-----------------------------------------------------------------------------
FloorsTypeOK ==
    /\ time \in 1..MaxTime /\ inserted \in 0..MaxRows
    /\ raw \subseteq Row
    /\ postings \in [Keys -> [first : 0..MaxTime, open : BOOLEAN, closed : BOOLEAN]]
    /\ firstGood \in [Boards -> 0..MaxTime]
    /\ \A k \in Keys : HasRow(k) => postings[k].first \in firstGood[k[1]]..time

(* A posting that was already there when its board was first looked at is  *)
(* never shown as new, however long ago that was, whatever retention       *)
(* removed and whenever other boards were added - as long as the board did *)
(* not fail a floor window before its first success (see NewIsNeverAGuess).*)
LookedAtOnce(b) == \A r \in raw : r.board = b => r.at + FloorWindow > firstGood[b]

LiveAtFirstSight(k) == HasRow(k) /\ postings[k].first = firstGood[k[1]]

UnknownAgesAreFloors ==
    \A k \in Keys : LiveAtFirstSight(k) /\ LookedAtOnce(k[1]) => IsFloor(k)

(* The page never makes a posting younger: what it once called "N+ days"   *)
(* it does not later call new, and no posting moves to a fresher group.    *)
AgesOnlyGrow ==
    [][\A k \in Keys : HasRow(k) =>
          /\ IsFloor(k) => IsFloor(k)'
          /\ FreshnessGroup(k)' >= FreshnessGroup(k)]_tableVars

(* The age labels and the arrivals chart agree: the chart shows each       *)
(* posting whose age is known, open or closed, and nothing else.           *)
ChartMatchesLabels ==
    ArrivalsShown = Cardinality({k \in Keys : k[2] \in UkEarly /\ HasRow(k) /\ ~IsFloor(k)})

(* queries.py:25: "Either term can only move a start earlier, never later. *)
(* When both are pruned/late the error is conservative - a genuinely new   *)
(* posting reads as a floor, never the reverse."                           *)
NewIsNeverAGuess == \A k \in Roles : LiveAtFirstSight(k) => ~IsNew(k)
=============================================================================
