-------------------------- MODULE PostingLifecycle --------------------------
(***************************************************************************)
(* What the archive promises about each posting it tracks, however the     *)
(* pipeline is scheduled or interrupted: it is observed over time and      *)
(* never deleted; first_seen_at is set once; last_seen_at only moves       *)
(* forward; it is closed at most once, at a date no earlier than its last  *)
(* observation, and that closed_at never changes, reopened or not.         *)
(***************************************************************************)
EXTENDS Naturals

CONSTANTS
    Keys,   \* (source, company, external_id)
    Times   \* the times observations are made at: positive numbers

VARIABLE life   \* key -> the dates of its posting

Never == 0

Dates ==
    [first_seen_at : Times \cup {Never}, last_seen_at : Times \cup {Never},
     is_open : BOOLEAN, closed_at : Times \cup {Never}]

Unseen ==
    [first_seen_at |-> Never, last_seen_at |-> Never, is_open |-> FALSE, closed_at |-> Never]

Init == life = [k \in Keys |-> Unseen]

(* The posting is in a feed, for the first time or again.                  *)
Observe(k, t) ==
    /\ life[k].last_seen_at <= t
    /\ life'[k] = [first_seen_at |-> IF life[k].first_seen_at = Never THEN t
                                     ELSE life[k].first_seen_at,
                   last_seen_at  |-> t,
                   is_open       |-> TRUE,
                   closed_at     |-> life[k].closed_at]

(* The posting is gone, for the first time.                                *)
Close(k, t) ==
    /\ life[k].is_open /\ life[k].closed_at = Never
    /\ life[k].last_seen_at <= t
    /\ life'[k] = [life[k] EXCEPT !.is_open = FALSE, !.closed_at = t]

(* A step of the archive touches any number of postings.                   *)
Next ==
    /\ life' \in [Keys -> Dates]
    /\ \A k \in Keys :
          \/ life'[k] = life[k]
          \/ \E t \in Times : Observe(k, t) \/ Close(k, t)

Spec == Init /\ [][Next]_life
=============================================================================
