-------------------------- MODULE SnapshotService --------------------------
(***************************************************************************)
(* What web/store.py promises the routes: the service publishes snapshots, *)
(* each at least as new as the one before; a request is answered from a    *)
(* snapshot no older than what was published when it asked, and turned     *)
(* away (503) only if nothing had been published yet.  No clock, no lock,  *)
(* no back-off: SnapshotCache is shown to implement this.                  *)
(***************************************************************************)
EXTENDS Naturals

CONSTANTS Threads, NoSnapshot, NotAsked, Unavailable

VARIABLES
    published,  \* the snapshot answers are taken from, or NoSnapshot
    asked,      \* what was published when the pending request arrived, or NotAsked
    answer      \* the last answer given: a snapshot or Unavailable

serviceVars == <<published, asked, answer>>

(* Roles, statistics and arrivals are read one after the other, so each    *)
(* has a version of the tables of its own.                                 *)
AtLeast(new, old) ==
    \/ old = NoSnapshot
    \/ /\ new # NoSnapshot
       /\ new.roles >= old.roles
       /\ new.stats >= old.stats
       /\ new.arrivals >= old.arrivals

ServiceInit ==
    /\ published = NoSnapshot
    /\ asked = [t \in Threads |-> NotAsked]
    /\ answer = Unavailable

Ask(t) ==
    /\ asked[t] = NotAsked
    /\ asked' = [asked EXCEPT ![t] = published]
    /\ UNCHANGED <<published, answer>>

Publish ==
    /\ published' # NoSnapshot
    /\ AtLeast(published', published)
    /\ UNCHANGED <<asked, answer>>

Answer(t) ==
    /\ asked[t] # NotAsked
    /\ asked' = [asked EXCEPT ![t] = NotAsked]
    /\ answer' \notin {NoSnapshot, Unavailable}
    /\ AtLeast(answer', asked[t])
    /\ AtLeast(published, answer')
    /\ UNCHANGED published

TurnAway(t) ==
    /\ asked[t] = NoSnapshot
    /\ asked' = [asked EXCEPT ![t] = NotAsked]
    /\ answer' = Unavailable
    /\ UNCHANGED published

ServiceNext == Publish \/ \E t \in Threads : Ask(t) \/ Answer(t) \/ TurnAway(t)

ServiceSpec == ServiceInit /\ [][ServiceNext]_serviceVars
=============================================================================
