------------------------------ MODULE Ingest ------------------------------
(***************************************************************************)
(* ingest.py: one pass over the configured boards.  Each board is fetched  *)
(* (BoardFetch) and gets its row of raw_fetches in a commit of its own; a  *)
(* source that answers 429 CIRCUIT_BREAKER_THRESHOLD times in a row is not *)
(* asked again in this pass.                                               *)
(***************************************************************************)
EXTENDS BoardFetch

CONSTANTS
    Jobs,     \* jobs_to_fetch: the source of each board, in order
    Threshold \* CIRCUIT_BREAKER_THRESHOLD

ASSUME IngestAssumption == Jobs \in Seq(Kinds) /\ Threshold \in Nat \ {0}

VARIABLES
    stage,           \* "next", "fetching", "done", or "aborted" by an exception
    i,               \* the board at hand
    rows,            \* the pass's rows of raw_fetches, and whether a fetch was made for them
    consecutive429s, \* by source
    tripped          \* sources that are not asked any more

ingestVars  == <<stage, i, rows, consecutive429s, tripped>>
collectVars == <<fetchVars, ingestVars>>

IngestInit ==
    /\ stage = (IF Jobs = <<>> THEN "done" ELSE "next") /\ i = 1 /\ rows = <<>>
    /\ consecutive429s = [k \in Kinds |-> 0] /\ tripped = {}

Source == Jobs[i]

Row(s, a) == [job |-> i, status |-> s, asked |-> a]

NextJob ==
    /\ i' = i + 1
    /\ stage' = IF i = Len(Jobs) THEN "done" ELSE "next"

(* Mutated form: a board that is not asked leaves no row.                  *)
NoRow == <<>>

RowOfSkipped == <<Row("none", FALSE)>>

SkipTripped ==
    /\ stage = "next" /\ Source \in tripped
    /\ rows' = rows \o RowOfSkipped
    /\ NextJob
    /\ UNCHANGED <<consecutive429s, tripped, fetchVars>>

Fetch ==
    /\ stage = "next" /\ Source \notin tripped
    /\ StartFetch(Source)
    /\ stage' = "fetching"
    /\ UNCHANGED <<i, rows, consecutive429s, tripped>>

Fetching ==
    /\ stage = "fetching"
    /\ FetchStep \/ BoardStep
    /\ UNCHANGED ingestVars

(* Mutated form: only a payload ends a streak of 429s.                     *)
StreakOfFailures ==
    IF payload # NoPayload THEN 0
    ELSE consecutive429s[Source] + IF status = "429" THEN 1 ELSE 0

Streak == IF status = "429" THEN consecutive429s[Source] + 1 ELSE 0

Record ==
    /\ stage = "fetching" /\ ~fetching /\ status # "raised"
    /\ rows' = Append(rows, Row(status, TRUE))
    /\ NextJob
    /\ consecutive429s' = [consecutive429s EXCEPT ![Source] = Streak]
    /\ tripped' = tripped \cup (IF Streak >= Threshold THEN {Source} ELSE {})
    /\ UNCHANGED fetchVars

(* fetch raised: the boards after this one are not collected today.        *)
Abort ==
    /\ stage = "fetching" /\ ~fetching /\ status = "raised"
    /\ stage' = "aborted"
    /\ UNCHANGED <<i, rows, consecutive429s, tripped, fetchVars>>

IngestStep == SkipTripped \/ Fetch \/ Fetching \/ Record \/ Abort

IngestSpec == FetchInit /\ IngestInit /\ [][IngestStep]_collectVars /\ WF_collectVars(IngestStep)

(***************************************************************************)
(* Properties.                                                             *)
(***************************************************************************)

(* Boards of the source of row j that were asked before it, from row first. *)
Asked(first, j) ==
    {n \in first..(j - 1) : rows[n].asked /\ Jobs[rows[n].job] = Jobs[rows[j].job]}

(* A board goes unasked exactly when at least Threshold boards of its own  *)
(* source, the last that were asked, all answered 429; other answers, and  *)
(* the boards of other sources in between, neither trip the breaker nor    *)
(* count for it (consecutive_429s in ingest.run).                          *)
BreakerIsExact ==
    \A j \in DOMAIN rows :
        ~rows[j].asked <=>
            \E first \in 1..j :
                /\ Cardinality(Asked(first, j)) >= Threshold
                /\ \A n \in Asked(first, j) : rows[n].status = "429"

(* Whatever the servers answer, a pass that has begun ends, and unless a   *)
(* fetch raised it leaves a row for every configured board (ingest.run).   *)
EveryBoardHasItsRow ==
    stage = "fetching" ~>
       \/ stage = "aborted"
       \/ stage = "done" /\ \A j \in 1..Len(Jobs) : \E r \in ToSet(rows) : r.job = j
=============================================================================
