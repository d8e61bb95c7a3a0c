---------------------------- MODULE FullRebuild ----------------------------
(***************************************************************************)
(* parse_run.run(full=True): the derived tables are emptied and every row  *)
(* of raw_fetches is parsed again.  Refused while a row's descriptions are *)
(* stripped, for posting_versions then holds the only copy of them;        *)
(* --i-know-this-destroys-history, which overrides that, is not modelled.  *)
(***************************************************************************)
EXTENDS ParseRun

(* Rows with a job whose description is null: a failed fetch has no jobs.  *)
StrippedRows == {r \in DOMAIN raw_fetches : raw_fetches[r].payload # NoPayload /\ raw_fetches[r].stripped}

(* Mutated form: a rebuild is never refused.                               *)
AlwaysRebuildable == TRUE

Rebuildable == StrippedRows = {}

(* TRUNCATE and UPDATE in one transaction; feed_anomalies is left alone.   *)
ResetParsedState ==
    /\ postings' = [b \in Boards |-> [i \in Ids |-> Absent]]
    /\ posting_versions' = [b \in Boards |-> [i \in Ids |-> <<>>]]
    /\ raw_fetches' = [r \in DOMAIN raw_fetches |-> [raw_fetches[r] EXCEPT !.parsed = FALSE]]
    /\ UNCHANGED <<serial, raw_details, feed_anomalies>>

StartFullRun ==
    /\ pc = "idle"
    /\ Rebuildable
    /\ ResetParsedState
    /\ pc' = "row"
    /\ todo' = DOMAIN raw_fetches
    /\ skipped' = {}
    /\ UNCHANGED <<day, configured, current, previous, pending, appends, orphaned,
                   candidates, joined, crashes>>

RebuildSpec == Init /\ [][Next \/ StartFullRun]_vars
=============================================================================
