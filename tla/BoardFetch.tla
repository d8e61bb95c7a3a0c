---------------------------- MODULE BoardFetch ----------------------------
(***************************************************************************)
(* sources/: one fetch(token) of one board.  Greenhouse, Ashby ("whole")   *)
(* and Workable answer with the whole board; Lever and Workday page        *)
(* through it by offset, while it may change.  Each request has its own    *)
(* retry loop.  What the servers send is external; what the fetchers make  *)
(* of it is the code.                                                      *)
(***************************************************************************)
EXTENDS Naturals, Sequences, FiniteSets, SequencesExt

CONSTANTS
    PageLimit,   \* PAGE_LIMIT: 100 (Lever), 20 (Workday)
    MaxPages,    \* MAX_PAGES: 50, 250
    MaxRetries,  \* MAX_RETRIES
    MaxPostings, \* bound on a board's postings when the fetch begins
    MaxChanges,  \* bound on what happens to the board during one fetch
    NoPayload    \* FetchResult.payload is None

ASSUME PagesAssumption == PageLimit \in Nat \ {0} /\ MaxPages \in Nat \ {0} /\ MaxRetries \in Nat
ASSUME BoardsAssumption == MaxPostings \in Nat /\ MaxChanges \in Nat

VARIABLES
    kind,       \* which fetcher is running
    fetching,   \* whether one is
    host,       \* Lever: "global" or "eu"
    attempt,    \* of the current request
    pages,      \* pages_fetched
    got,        \* all_jobs / postings: ids in the order they came
    total,      \* Workday: as read from the first page
    status,     \* FetchResult.status_code once it has ended
    payload,    \* FetchResult.payload once it has ended
    board,      \* external: the board's postings, in the server's order
    still,      \* history: postings on the board since the fetch began
    changes,    \* history: how often the board changed since
    withdrawn,  \* history: how many postings were taken down since
    odd         \* history: whether a page was not the one asked for

callVars  == <<kind, fetching, host, attempt, pages, got, total, status, payload>>
boardVars == <<board, still, changes, withdrawn, odd>>
fetchVars == <<callVars, boardVars>>

Kinds == {"whole", "workable", "lever", "workday"}

(* How a request may end, apart from a page: a RequestException, a 200     *)
(* whose body is no JSON, null, or JSON of another shape, and the other     *)
(* statuses; "quota" is a 429 whose Retry-After exceeds                     *)
(* MAX_RETRY_AFTER_SECONDS.                                                *)
Refusals  == {"exception", "bad json", "null", "shape", "404", "403", "429", "quota", "5xx"}
StatusOf(r) == CASE r = "exception" -> "none"
                 [] r \in {"bad json", "null", "shape"} -> "200"
                 [] r = "quota" -> "429"
                 [] OTHER -> r
Statuses == {"none", "200", "404", "403", "429", "5xx", "raised"}

NewBoard(n) == [i \in 1..n |-> i]

(* Workable has sent a posting twice in one response.                      *)
BoardsOf(k) ==
    {NewBoard(n) : n \in 0..MaxPostings}
       \cup {Append(NewBoard(n), n) : n \in IF k = "workable" THEN 1..MaxPostings ELSE {}}

FetchInit ==
    /\ kind \in Kinds /\ fetching = FALSE /\ host = "global" /\ attempt = 0
    /\ pages = 0 /\ got = <<>> /\ total = 0 /\ status = "none" /\ payload = NoPayload
    /\ board = <<>> /\ still = {} /\ changes = 0 /\ withdrawn = 0 /\ odd = FALSE

StartFetch(k) ==
    /\ ~fetching
    /\ kind' = k /\ fetching' = TRUE /\ host' = "global" /\ attempt' = 0
    /\ pages' = 0 /\ got' = <<>> /\ total' = 0 /\ status' = "none" /\ payload' = NoPayload
    /\ board' \in BoardsOf(k) /\ still' = ToSet(board')
    /\ changes' = 0 /\ withdrawn' = 0 /\ odd' = FALSE

(***************************************************************************)
(* The board between two pages: a posting appears anywhere or goes.        *)
(***************************************************************************)
PostingAppears ==
    /\ fetching /\ pages > 0 /\ changes < MaxChanges
    /\ \E p \in 1..(Len(board) + 1) : board' = InsertAt(board, p, MaxPostings + changes + 1)
    /\ changes' = changes + 1
    /\ UNCHANGED <<callVars, still, withdrawn, odd>>

PostingGoes ==
    /\ fetching /\ pages > 0 /\ changes < MaxChanges
    /\ \E p \in 1..Len(board) : board' = RemoveAt(board, p) /\ still' = still \ {board[p]}
    /\ changes' = changes + 1 /\ withdrawn' = withdrawn + 1
    /\ UNCHANGED <<callVars, odd>>

(***************************************************************************)
(* The retry loop around a request that did not bring a page.              *)
(***************************************************************************)
Finish(s, p) ==
    /\ fetching' = FALSE /\ status' = s /\ payload' = p
    /\ UNCHANGED <<kind, host, attempt, pages, got, total, boardVars>>

(* Mutated form: one attempt more than there are back-off times.           *)
OneMoreAttempt == attempt <= MaxRetries

AttemptsLeft == attempt < MaxRetries

(* Only Workable looks at how long it is told to wait.                     *)
NotWorthWaiting(r) == kind = "workable" /\ r = "quota"

Transient(r) == r \in {"exception", "429", "quota", "5xx"}

NextAttempt == attempt + 1

Retry(r) ==
    /\ fetching
    /\ Transient(r) /\ ~NotWorthWaiting(r) /\ AttemptsLeft
    /\ attempt' = NextAttempt
    /\ UNCHANGED <<kind, fetching, host, pages, got, total, status, payload, boardVars>>

(* Lever's accounts on the other host: once, for the first page.           *)
TriesEuHost(r) == kind = "lever" /\ host = "global" /\ pages = 0 /\ r = "404"

FallBackToEu ==
    /\ fetching /\ TriesEuHost("404")
    /\ host' = "eu" /\ attempt' = 0
    /\ UNCHANGED <<kind, fetching, pages, got, total, status, payload, boardVars>>

(* Lever asks whether the body is a list and Workday whether it is None; a *)
(* body they do not ask about has no .get, and that raises out of fetch.   *)
RaisesOn(r) ==
    \/ r = "shape" /\ kind # "lever"
    \/ r = "null" /\ kind \in {"whole", "workable"}

Fail(r) ==
    /\ fetching
    /\ Transient(r) => NotWorthWaiting(r) \/ ~AttemptsLeft
    /\ ~TriesEuHost(r) /\ ~RaisesOn(r)
    /\ Finish(StatusOf(r), NoPayload)

Raise(r) ==
    /\ fetching /\ RaisesOn(r)
    /\ Finish("raised", NoPayload)

(***************************************************************************)
(* Pages.  A server may also ignore the offset it is asked for (Lever's    *)
(* skip), send an empty page, or leave total out (Workday).                *)
(***************************************************************************)

Offset == Len(got)

PageAt(o) ==
    SubSeq(board, o + 1, IF kind \in {"whole", "workable"} THEN Len(board)
                                                           ELSE Min({Len(board), o + PageLimit}))

Pages == {PageAt(Offset)}
            \cup {PageAt(0) : x \in {"lever"} \cap {kind}}
            \cup {<<>> : x \in {"workday"} \cap {kind}}

TotalsRead(page) == IF kind = "workday" /\ pages = 0 THEN {Len(board), Len(page)} ELSE {total}

(* Mutated form: all_jobs as the pages brought them.                       *)
AsRead(jobs) == jobs

(* dict.values() of jobs by id: the first one's place.                     *)
Deduplicated(jobs) ==
    FoldLeft(LAMBDA kept, j : IF Contains(kept, j) THEN kept ELSE Append(kept, j), <<>>, jobs)

Deduplicates == kind \in {"workable", "lever"}

Result(jobs) == IF Deduplicates THEN Deduplicated(jobs) ELSE jobs

(* How fetch ends once everything is read.  _deduplicate_jobs raises if a   *)
(* job on any of the pages is no object; the other sources return such a    *)
(* payload like any other.                                                  *)
Returns ==
    \/ status' = "200" /\ payload' = Result(got')
    \/ Deduplicates /\ got' # <<>> /\ status' = "raised" /\ payload' = NoPayload

IsLast(page) ==
    CASE kind = "lever"   -> Len(page) # PageLimit
      [] kind = "workday" -> Len(got') >= total' \/ (pages > 0 /\ page = <<>>)
      [] OTHER            -> TRUE

(* Mutated form: what was read so far is returned.                         *)
Truncated == Result(got')

PastTheCap == NoPayload

ReadPage ==
    /\ fetching
    /\ \E page \in Pages : \E t \in TotalsRead(page) :
          /\ got' = got \o page /\ pages' = pages + 1 /\ total' = t
          /\ odd' = (odd \/ page # PageAt(Offset) \/ (kind = "workday" /\ pages = 0 /\ t # Len(board)))
          /\ \/ IsLast(page) /\ fetching' = FALSE /\ Returns
             \/ /\ ~IsLast(page) /\ pages' = MaxPages
                /\ fetching' = FALSE /\ status' = "200" /\ payload' = PastTheCap
             \/ ~IsLast(page) /\ pages' < MaxPages /\ UNCHANGED <<fetching, status, payload>>
    /\ attempt' = 0
    /\ UNCHANGED <<kind, host, board, still, changes, withdrawn>>

FetchStep == FallBackToEu \/ ReadPage \/ \E r \in Refusals : Retry(r) \/ Fail(r) \/ Raise(r)

BoardStep == PostingAppears \/ PostingGoes

(***************************************************************************)
(* Properties.                                                             *)
(***************************************************************************)

(* Fetched: the last fetch ended with a payload.                           *)
Fetched == ~fetching /\ payload # NoPayload

(* A request is sent at most MAX_RETRIES + 1 times and at most MAX_PAGES   *)
(* pages are read, whatever the server answers.                            *)
FetchTypeOK ==
    /\ kind \in Kinds /\ fetching \in BOOLEAN /\ host \in {"global", "eu"} /\ odd \in BOOLEAN
    /\ attempt \in 0..MaxRetries /\ pages \in 0..MaxPages
    /\ total \in Nat /\ status \in Statuses
    /\ payload # NoPayload => status = "200"
    /\ ToSet(got) \subseteq 1..(MaxPostings + MaxChanges) /\ withdrawn \in 0..changes

(* A board that does not change while it is read is archived whole or not  *)
(* at all: neither the page loop nor its cap truncates it (fetch of each   *)
(* source).                                                                *)
StillBoardIsFetchedWhole ==
    Fetched /\ changes = 0 /\ ~odd => ToSet(payload) = ToSet(board)

(* A board that changes between two pages loses, of the postings that stay *)
(* on it, at most one for every posting taken down meanwhile (Lever) or    *)
(* for every change (Workday, whose total is the first page's), and a      *)
(* Lever or Workable payload names no posting twice.                       *)
TornFetchLosesLittle ==
    Fetched =>
        /\ ~odd => Cardinality(still \ ToSet(payload)) <=
                      CASE kind = "lever" -> withdrawn [] kind = "workday" -> changes [] OTHER -> 0
        /\ kind \in {"lever", "workable"} => IsInjective(payload)
=============================================================================
