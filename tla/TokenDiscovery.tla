-------------------------- MODULE TokenDiscovery --------------------------
(***************************************************************************)
(* scripts/check_tokens.py: which candidate tokens are boards.  A run      *)
(* fetches one candidate after another (BoardFetch) and records what each  *)
(* answered in a results file, which later runs merge into and take the    *)
(* tokens to retest from.  The file is written once, when all candidates   *)
(* have answered; the run may be killed before, or in the middle of it.    *)
(***************************************************************************)
EXTENDS BoardFetch

CONSTANTS
    Candidates, \* the tokens of candidates_file, in order
    Probed,     \* --source
    MaxRuns     \* bound on the runs of the script, those of its old version included

VARIABLES
    probe,      \* "idle", "next", "fetching" or "save"
    candidates, \* left to probe in this run
    existing,   \* existing_results: the file as loaded, updated by this run
    results,    \* the results file: a row by token
    probes,     \* how many runs there were
    answered,   \* history: each token's answer in the last run that saved one
    answers,    \* history: this run's answers
    torn        \* history: a run was killed while it wrote the file

discoveryVars == <<probe, candidates, existing, results, probes, answered, answers, torn>>

(* "" is an empty cell; "n" stands for any positive job_count.             *)
Line(c, s, n) == [code |-> c, status |-> s, count |-> n]

(* update() with another dict.                                             *)
Merged(rows, more) == [t \in DOMAIN rows \cup DOMAIN more |-> IF t \in DOMAIN more THEN more[t] ELSE rows[t]]

NoRows == [t \in {} |-> Line("", "", "")]

DiscoveryInit ==
    /\ probe = "idle" /\ candidates = <<>> /\ existing = NoRows /\ results = NoRows
    /\ probes = 0 /\ answered = NoRows /\ answers = NoRows /\ torn = FALSE

(* External: a file of the time before it had a status column.             *)
OldFile ==
    /\ probes = 0 /\ probe = "idle" /\ probes' = 1
    /\ answered' \in [ToSet(Candidates) -> {Line("200", "working", "n"), Line("200", "empty", "0"),
                                            Line("200", "failed", ""), Line("429", "failed", "")}]
    /\ results' = [t \in DOMAIN answered' |-> Line(answered'[t].code, "", answered'[t].count)]
    /\ UNCHANGED <<probe, candidates, existing, answers, torn, fetchVars>>

RecordedStatus(row) ==
    CASE row.status # ""                     -> row.status
      [] row.status = "" /\ row.code = "200" /\ row.count = "n" -> "working"
      [] row.status = "" /\ row.code = "200" /\ row.count = "0" -> "empty"
      [] OTHER                               -> "failed"

Loaded == [t \in DOMAIN results |-> [results[t] EXCEPT !.status = RecordedStatus(results[t])]]

Begin(tokens) ==
    /\ probe = "idle" /\ ~fetching /\ probes < MaxRuns
    /\ probe' = "next" /\ candidates' = tokens /\ existing' = Loaded /\ answers' = NoRows
    /\ probes' = probes + 1
    /\ UNCHANGED <<results, answered, torn, fetchVars>>

ProbeAll == Begin(Candidates)

(* --only-status: nothing to retest is an error before anything is fetched. *)
WithCode(c) == SelectSeq(SetToSeq(DOMAIN results), LAMBDA t : results[t].code = c)
Retest(c)   == WithCode(c) # <<>> /\ Begin(WithCode(c))

ProbeNext ==
    /\ probe = "next" /\ candidates # <<>>
    /\ StartFetch(Probed)
    /\ probe' = "fetching"
    /\ UNCHANGED <<candidates, existing, results, probes, answered, answers, torn>>

Probing ==
    /\ probe = "fetching" /\ FetchStep
    /\ UNCHANGED discoveryVars

ResultStatus ==
    CASE status = "200" /\ payload # NoPayload /\ payload # <<>> -> "working"
      [] status = "200" /\ payload = <<>>                        -> "empty"
      [] OTHER                                                   -> "failed"

LineOfResult ==
    Line(IF status = "none" THEN "" ELSE status, ResultStatus,
         CASE payload = NoPayload -> "" [] payload = <<>> -> "0" [] OTHER -> "n")

Note ==
    /\ probe = "fetching" /\ ~fetching /\ status # "raised"
    /\ LET answer == [t \in {Head(candidates)} |-> LineOfResult]
       IN  existing' = Merged(existing, answer) /\ answers' = Merged(answers, answer)
    /\ candidates' = Tail(candidates)
    /\ probe' = IF Len(candidates) = 1 THEN "save" ELSE "next"
    /\ UNCHANGED <<results, probes, answered, torn, fetchVars>>

(* Mutated form: the file holds this run's answers only.                   *)
Overwritten == answers

SavedRows == existing

SaveResults ==
    /\ probe = "save" /\ probe' = "idle"
    /\ results' = SavedRows /\ answered' = Merged(answered, answers)
    /\ existing' = NoRows /\ answers' = NoRows
    /\ UNCHANGED <<candidates, probes, torn, fetchVars>>

(* fetch raised, or the process was killed: nothing of the run is kept, and *)
(* of a file that was being written in place only part is left.            *)
Abandon ==
    /\ probe # "idle" /\ probe' = "idle"
    /\ fetching' = FALSE
    /\ candidates' = <<>> /\ existing' = NoRows /\ answers' = NoRows
    /\ UNCHANGED <<probes, answered>>
    /\ UNCHANGED <<kind, host, attempt, pages, got, total, status, payload, boardVars>>
    /\ \/ UNCHANGED <<results, torn>>
       \/ /\ probe = "save" /\ torn' = TRUE
          /\ \E kept \in SUBSET DOMAIN existing : results' = [t \in kept |-> existing[t]]

DiscoveryStep ==
    \/ OldFile \/ ProbeAll \/ (\E c \in {"200", "404", "429"} : Retest(c))
    \/ ProbeNext \/ Probing \/ Note \/ SaveResults \/ Abandon

DiscoverySpec == FetchInit /\ DiscoveryInit /\ [][DiscoveryStep]_<<discoveryVars, fetchVars>>

(***************************************************************************)
(* Properties.                                                             *)
(***************************************************************************)

(* Unless a run was killed while writing it, the results file holds the    *)
(* last saved answer of every token: retesting some loses none of the      *)
(* others, a run that raises takes nothing with it, and a row without a    *)
(* status reads as what the board answered (load_results, main).           *)
ResultsFileIsFaithful ==
    ~torn => /\ DOMAIN results = DOMAIN answered
             /\ \A t \in DOMAIN results :
                   /\ results[t].code = answered[t].code
                   /\ RecordedStatus(results[t]) = answered[t].status
=============================================================================
