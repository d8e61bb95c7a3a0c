----------------------------- MODULE MCCollect -----------------------------
(***************************************************************************)
(* Small instances of the fetchers, of an ingest pass and of the tools     *)
(* that run beside them, discovery and labelling.  A single fetch is       *)
(* explored on boards that page and change; the pass and discovery on      *)
(* boards of at most one posting, where every way a fetch can end still    *)
(* occurs.  Each part is explored from the initial states of the others.   *)
(***************************************************************************)
EXTENDS Ingest, TokenDiscovery, Labelling

CONSTANTS tok1, tok2, u1, u2, f1, f2

TwoTokens == <<tok1, tok2>>
TwoUrls   == <<u1, u2>>
TwoFiles  == {f1, f2}

(* Four workable boards: a trip leaves some unasked, and two 429s with     *)
(* another answer in between are followed by one that must be asked; a     *)
(* board of another source comes between them.                             *)
WorkableAndLever == <<"workable", "workable", "lever", "workable", "workable">>

(* No fetch was begun, and no board has a row.                             *)
Pristine == ~fetching /\ attempt = 0 /\ pages = 0 /\ status = "none" /\ rows = <<>>

NotDiscovering == discoveryVars = <<"idle", <<>>, NoRows, NoRows, 0, NoRows, NoRows, FALSE>>

NotLabelling == samples = 0 /\ pools = <<>>

SingleFetch ==
    /\ stage = "next" /\ NotDiscovering
    /\ \/ Pristine /\ \E k \in Kinds : StartFetch(k)
       \/ FetchStep
       \/ BoardStep
    /\ UNCHANGED <<ingestVars, discoveryVars>>

Pass ==
    /\ stage # "next" \/ ~fetching
    /\ NotDiscovering
    /\ IngestStep
    /\ Len(board') <= 1
    /\ UNCHANGED discoveryVars

Discovery ==
    /\ Pristine \/ ~NotDiscovering
    /\ DiscoveryStep
    /\ Len(board') <= 1
    /\ UNCHANGED ingestVars

CollectStep == NotLabelling /\ (SingleFetch \/ Pass \/ Discovery) /\ UNCHANGED labelVars

LabelStep ==
    /\ Pristine /\ NotDiscovering
    /\ \/ pools = <<>> /\ LabellingStep
       \/ samples = 0 /\ Count
    /\ UNCHANGED <<collectVars, discoveryVars>>

allVars == <<collectVars, discoveryVars, labelVars>>

CollectInit == FetchInit /\ IngestInit /\ DiscoveryInit /\ LabellingInit

CollectSpec ==
    /\ CollectInit
    /\ [][CollectStep \/ LabelStep]_allVars
    /\ WF_collectVars(NotLabelling /\ (SingleFetch \/ Pass))
=============================================================================
