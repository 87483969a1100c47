------------------------------ MODULE EventFeed ------------------------------
(***************************************************************************)
(* What the outbox promises its services: an event that was committed with *)
(* a write stays until the broker has taken it, at least once.             *)
(***************************************************************************)
CONSTANT Event

VARIABLES
    row,     \* each event's row: none, pending or published
    heard    \* the events that the broker has taken

feed == <<row, heard>>

\* Where no broker is configured nobody waits for an event: all count as taken.
FeedInit == row = [e \in Event |-> "none"] /\ heard \in {{}, Event}

\* A transaction commits its events with its write.
Enqueue(E) ==
    /\ \A e \in E : row[e] = "none"
    /\ row' = [e \in Event |-> IF e \in E THEN "pending" ELSE row[e]]
    /\ UNCHANGED heard

\* The broker may take an event again.
Publish(e) == row[e] # "none" /\ heard' = heard \cup {e} /\ UNCHANGED row

Settle(e) == e \in heard /\ row' = [row EXCEPT ![e] = "published"] /\ UNCHANGED heard

FeedNext ==
    \/ \E E \in SUBSET Event : Enqueue(E)
    \/ \E e \in Event : Publish(e) \/ Settle(e)

FeedSpec == FeedInit /\ [][FeedNext]_feed
=============================================================================
