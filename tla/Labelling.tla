----------------------------- MODULE Labelling -----------------------------
(***************************************************************************)
(* scripts/sample_for_labelling.py and scripts/label.py: the labels the    *)
(* classifier is evaluated on.  A sample of the open postings is written   *)
(* to a working file; a session labels its rows one by one, saving the     *)
(* file and then merging its labels into labels.csv after each.  Files are *)
(* rewritten in place, so a session may leave part of one.  A label stands *)
(* for the pair of both labels, which a row gets together.  One session    *)
(* runs at a time, and no file is sampled to while it does.                *)
(***************************************************************************)
EXTENDS Naturals, FiniteSets, Sequences, SequencesExt

CONSTANTS
    Urls,       \* urls of the open postings, sorted
    Files,      \* working files
    Labels,     \* what a row may be labelled
    MaxSamples, \* bound on the samples taken
    MaxPool,    \* bound on the postings of a cell
    MaxTotal    \* bound on --sample-size

ASSUME UrlsAssumption   == Urls \in Seq(ToSet(Urls))
ASSUME LabelsAssumption == "" \notin Labels
ASSUME FilesAssumption  == "" \notin Files
ASSUME PoolsAssumption  == MaxPool \in Nat /\ MaxTotal \in Nat

VARIABLES
    files,    \* rows of each working file: url and label, "" for none
    labels,   \* labels.csv: label by url
    file,     \* the session's file, "" outside a session
    sheet,    \* the file as the session loaded and labelled it
    visit,    \* to_visit
    position, \* position
    saved,    \* whether the row at hand is saved and not yet synced
    samples,  \* how many samples were taken
    given,    \* history: <<url, label>> of every save
    lost,     \* history: urls whose label a kill, or a new sample after one, took away
    pools     \* postings in each cell of a sample, and --sample-size

sessionVars == <<file, sheet, visit, position, saved>>
labelVars   == <<files, labels, sessionVars, samples, given, lost, pools>>

IsLabelled(row) == row.label # ""

LabelledIn(rs) == {r.url : r \in {q \in ToSet(rs) : IsLabelled(q)}}

NoLabels == [u \in {} |-> ""]

LabellingInit ==
    /\ files = [f \in Files |-> <<>>] /\ labels = NoLabels
    /\ file = "" /\ sheet = <<>> /\ visit = <<>> /\ position = 0 /\ saved = FALSE
    /\ samples = 0 /\ given = {} /\ lost = {} /\ pools = <<>>

-----------------------------------------------------------------------------
(* Sampling.                                                               *)

Shuffled(S) == {v \in [1..Cardinality(S) -> S] : IsInjective(v)}

(* Any of the postings that are not labelled in the excluded file, in any  *)
(* order; the file sampled to loses what it held.                          *)
SampleTo(f, excluded) ==
    /\ file = "" /\ samples < MaxSamples
    /\ \E S \in SUBSET (ToSet(Urls) \ excluded) : \E sampled \in Shuffled(S) :
          files' = [files EXCEPT ![f] = [n \in DOMAIN sampled |-> [url |-> sampled[n], label |-> ""]]]
    /\ samples' = samples + 1
    /\ lost' = lost \cup (LabelledIn(files[f]) \ DOMAIN labels)
    /\ UNCHANGED <<labels, sessionVars, given, pools>>

Sample == \E f \in Files : SampleTo(f, {}) \/ \E e \in Files : SampleTo(f, LabelledIn(files[e]))

(* How many are taken of each cell: an equal share or all there are, then  *)
(* what is missing, one of each cell with some left, round after round.    *)
Total(taken) == FoldLeft(LAMBDA a, b : a + b, 0, taken)

(* Mutated form: each cell in turn gives all it has left.                  *)
FirstCellsGive(cells, wanted) ==
    FoldLeft(LAMBDA taken, c :
                [taken EXCEPT ![c] = @ + LET left == cells[c] - @
                                             need == wanted - Total(taken)
                                         IN  IF left < need THEN left ELSE need],
             [c \in DOMAIN cells |->
                 IF cells[c] < wanted \div Len(cells) THEN cells[c] ELSE wanted \div Len(cells)],
             [c \in DOMAIN cells |-> c])

StratifiedSample(cells, wanted) ==
    LET each   == wanted \div Len(cells)
        even   == [c \in DOMAIN cells |-> IF cells[c] < each THEN cells[c] ELSE each]
        rounds == [n \in 1..(wanted * Len(cells)) |-> ((n - 1) % Len(cells)) + 1]
    IN  FoldLeft(LAMBDA taken, c : IF Total(taken) < wanted /\ taken[c] < cells[c]
                                   THEN [taken EXCEPT ![c] = @ + 1] ELSE taken,
                 even, rounds)

Count ==
    /\ pools = <<>>
    /\ \E cells \in [1..4 -> 0..MaxPool], wanted \in 0..MaxTotal : pools' = <<cells, wanted>>
    /\ UNCHANGED <<files, labels, sessionVars, samples, given, lost>>

-----------------------------------------------------------------------------
(* A session.                                                              *)

LabelOf(rs, u) == rs[SelectLastInSeq(rs, LAMBDA r : r.url = u /\ IsLabelled(r))].label

(* Mutated form: labels.csv holds this file's labels only.                 *)
OfThisFile(rs) == [u \in LabelledIn(rs) |-> LabelOf(rs, u)]

Synced(rs) ==
    [u \in DOMAIN labels \cup LabelledIn(rs) |->
        IF u \in LabelledIn(rs) THEN LabelOf(rs, u) ELSE labels[u]]

(* The file is sorted by url; killed while writing it, a session leaves    *)
(* its first rows.                                                         *)
SyncLabels(rs) == labels' = Synced(rs) /\ UNCHANGED lost

TearLabels(rs) ==
    \E n \in 0..Len(Urls) :
        LET kept == {u \in DOMAIN Synced(rs) : \E k \in 1..n : Urls[k] = u}
        IN  /\ labels' = [u \in kept |-> Synced(rs)[u]]
            /\ lost' = lost \cup (DOMAIN Synced(rs) \ kept)

End == file' = "" /\ sheet' = <<>> /\ visit' = <<>> /\ position' = 0 /\ saved' = FALSE

Unlabelled(rs) == {n \in DOMAIN rs : ~IsLabelled(rs[n])}

InOrder(S) == {v \in [1..Cardinality(S) -> S] : \A m, n \in DOMAIN v : m < n => v[m] < v[n]}

(* What is labelled in the file is exported before anything is asked.      *)
Open(f) ==
    /\ file = "" /\ files[f] # <<>>
    /\ \/ /\ SyncLabels(files[f])
          /\ IF Unlabelled(files[f]) = {} THEN UNCHANGED sessionVars
             ELSE /\ file' = f /\ sheet' = files[f] /\ visit' \in InOrder(Unlabelled(files[f]))
                  /\ position' = 1 /\ saved' = FALSE
       \/ TearLabels(files[f]) /\ UNCHANGED sessionVars
    /\ UNCHANGED <<files, samples, given, pools>>

LabelRow ==
    /\ file # "" /\ ~saved
    /\ \E l \in Labels : sheet' = [sheet EXCEPT ![visit[position]].label = l]
    /\ files' = [files EXCEPT ![file] = sheet'] /\ saved' = TRUE
    /\ given' = given \cup {<<sheet'[visit[position]].url, sheet'[visit[position]].label>>}
    /\ UNCHANGED <<file, visit, position, labels, samples, lost, pools>>

SyncRow ==
    /\ saved
    /\ SyncLabels(sheet)
    /\ IF position = Len(visit) THEN End
       ELSE position' = position + 1 /\ saved' = FALSE /\ UNCHANGED <<file, sheet, visit>>
    /\ UNCHANGED <<files, samples, given, pools>>

Back ==
    /\ file # "" /\ ~saved /\ position > 1
    /\ position' = position - 1
    /\ UNCHANGED <<files, labels, file, sheet, visit, saved, samples, given, lost, pools>>

(* Quit, Ctrl-C or a kill, wherever the session is.                        *)
Quit ==
    /\ file # "" /\ End
    /\ UNCHANGED <<files, labels, samples, given, lost, pools>>

KilledWhileSaving ==
    /\ file # "" /\ ~saved
    /\ \E n \in 0..(Len(sheet) - 1) : files' = [files EXCEPT ![file] = SubSeq(sheet, 1, n)]
    /\ End
    /\ UNCHANGED <<labels, samples, given, lost, pools>>

KilledWhileSyncing ==
    /\ saved /\ TearLabels(sheet)
    /\ End
    /\ UNCHANGED <<files, samples, given, pools>>

LabellingStep ==
    \/ Sample \/ (\E f \in Files : Open(f)) \/ LabelRow \/ SyncRow \/ Back
    \/ Quit \/ KilledWhileSaving \/ KilledWhileSyncing

LabellingSpec == LabellingInit /\ [][LabellingStep \/ Count]_labelVars

(***************************************************************************)
(* Properties.                                                             *)
(***************************************************************************)

(* labels.csv accumulates: whatever files are sampled, labelled, resumed   *)
(* or left half written, a url that was labelled once is in labels.csv, or *)
(* still labelled in a working file whose next session exports it, unless  *)
(* labels.csv itself was cut short or that file sampled anew in between;   *)
(* and what labels.csv says of a url is a label that was given to it       *)
(* (sync_labels_file, main of label.py).                                   *)
LabelsAreKept ==
    /\ \A g \in given : \/ g[1] \in DOMAIN labels \cup lost
                        \/ \E f \in Files : g[1] \in LabelledIn(files[f])
    /\ \A u \in DOMAIN labels : <<u, labels[u]>> \in given

(* A sample is as large as asked for, or holds every posting there is, and *)
(* as even as the cells allow: a cell gives fewer than another only when   *)
(* it has no more, or the total does not divide (stratified_sample).       *)
SampleIsEven ==
    pools # <<>> =>
        LET cells  == pools[1]
            wanted == pools[2]
            taken  == StratifiedSample(cells, wanted)
        IN  /\ Total(taken) = IF Total(cells) < wanted THEN Total(cells) ELSE wanted
            /\ \A c, d \in DOMAIN cells :
                  taken[c] <= cells[c] /\ (taken[c] < cells[c] => taken[c] + 1 >= taken[d])
=============================================================================
