----------------------------- MODULE MCPipeline -----------------------------
(***************************************************************************)
(* Small instances of Pipeline.  DETAIL_RUN_LIMIT is scaled from 200 to 1, *)
(* so that two postings are already a backlog.                             *)
(***************************************************************************)
EXTENDS Pipeline, TLC

CONSTANTS w1, w2, i1, i2, i3

OneCompany   == {w1}
TwoCompanies == {w1, w2}
None         == {}
OneId        == {i1}
TwoIds       == {i1, i2}
ThreeIds     == {i1, i2, i3}

Interchangeable == Permutations(EarlyCareers) \cup Permutations(Companies)
=============================================================================
