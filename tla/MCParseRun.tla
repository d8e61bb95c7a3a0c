----------------------------- MODULE MCParseRun -----------------------------
(***************************************************************************)
(* Small instances of ParseRun and FullRebuild.  The guard's minimum is    *)
(* scaled from 10 postings to 2 or 3, retention from 30 days to 1 or 0, a  *)
(* statement from 1000 rows to 1 or 2: each small enough to be crossed     *)
(* with two or three ids.                                                  *)
(***************************************************************************)
EXTENDS FullRebuild, TLC

CONSTANTS b1, b2, i1, i2, i3, c1, c2, d1, d2

OneBoard    == {b1}
TwoBoards   == {b1, b2}
Workday     == {b2}
None        == {}
OneId       == {i1}
TwoIds      == {i1, i2}
ThreeIds    == {i1, i2, i3}
OneContent  == {c1}
TwoContents == {c1, c2}
OneDetail   == {d1}
TwoDetails  == {d1, d2}

(* Ids and contents are only compared: no action and no invariant names one. *)
Interchangeable == Permutations(Ids) \cup Permutations(Contents) \cup Permutations(Details)
=============================================================================
