------------------------------- MODULE MCWeb -------------------------------
(***************************************************************************)
(* Small instances of the parts of web/: the cache that serves the page,   *)
(* the queries that fill it, and how a role's location is shown.  They     *)
(* share no variable (the cache sees the tables as a version number), so   *)
(* each is explored from the others' initial states: the sum of their      *)
(* state spaces, not the product.                                          *)
(***************************************************************************)
EXTENDS SnapshotCache, BoardFloors, RoleLocation

CONSTANTS t1, t2, b1, b2, i1, i2

TwoThreads == {t1, t2}
TwoBoards  == {b1, b2}
TwoIds     == {i1, i2}
OneId      == {i1}

CacheAtRest == clock = 0 /\ version = 0 /\ up /\ \A t \in Threads : requests[t] = 0
TablesAtRest == time = 1 /\ raw = {}

NoLocation == location = <<>>

WebInit == CacheInit /\ FloorsInit /\ LocationInit

WebNext ==
    \/ TablesAtRest /\ NoLocation /\ CacheNext /\ UNCHANGED <<tableVars, location>>
    \/ CacheAtRest /\ NoLocation /\ FloorsNext /\ UNCHANGED <<vars, location>>
    \/ CacheAtRest /\ TablesAtRest /\ Look /\ UNCHANGED <<vars, tableVars>>

WebSpec == WebInit /\ [][WebNext]_<<vars, tableVars, location>> /\ CacheFairness
=============================================================================
