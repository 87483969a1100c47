------------------------------- MODULE Outbox -------------------------------
(***************************************************************************)
(* The transactional outbox of the order, payment and auth services: rows  *)
(* are written in the transaction of the change they announce, and drainers*)
(* (the worker's ticker, and a call after each write) publish and then     *)
(* mark them.  Drainers of every replica run at once and lock nothing.     *)
(***************************************************************************)
EXTENDS Integers, Sequences, Functions

CONSTANTS
    MaxEvent,       \* rows are numbered 1..MaxEvent by their table
    SameAggregate,  \* how many of the first rows belong to one order
    Drainer,        \* concurrent calls of Drain
    Batch,          \* rows listed at once (50)
    MaxAttempts     \* bound on recorded failures of one row

ASSUME OutboxAssumption ==
    /\ MaxEvent \in Nat /\ SameAggregate \in 0..MaxEvent
    /\ Batch \in Nat \ {0} /\ MaxAttempts \in Nat

Event == 1..MaxEvent

VARIABLES
    outbox,     \* each row: none, pending or published
    attempts,   \* failures recorded on each row
    broker,     \* whether a broker is configured
    todo,       \* the rows each drainer has listed and not finished with
    pc,         \* whether a drainer is idle, publishing or marking
    heard,      \* history: the events the broker has taken
    failed,     \* history: the events with a failed publish
    repeated,   \* history: the events the broker has taken more than once
    shared      \* history: the events two drainers held at once, or with a lost mark

table == <<outbox, attempts>>
history == <<heard, failed, repeated, shared>>
vars == <<table, broker, todo, pc, history>>

Init ==
    /\ outbox = [e \in Event |-> "none"] /\ attempts = [e \in Event |-> 0]
    /\ broker \in BOOLEAN
    /\ todo = [d \in Drainer |-> <<>>] /\ pc = [d \in Drainer |-> "idle"]
    /\ heard = {} /\ failed = {} /\ repeated = {} /\ shared = {}

Pending == {e \in Event : outbox[e] = "pending"}

Finish(d) == todo' = [todo EXCEPT ![d] = <<>>] /\ pc' = [pc EXCEPT ![d] = "idle"]

\* Advance gone wrong: the drain goes on after its last row.
AdvanceAlways(d) ==
    /\ todo' = [todo EXCEPT ![d] = Tail(todo[d])]
    /\ pc' = [pc EXCEPT ![d] = "publish"]

Advance(d) ==
    /\ todo' = [todo EXCEPT ![d] = Tail(todo[d])]
    /\ pc' = [pc EXCEPT ![d] = IF Len(todo[d]) = 1 THEN "idle" ELSE "publish"]

\* The events of one order are numbered under the lock of its row; those of
\* different orders may commit in any order.
outboxEvents(E) ==
    /\ E # {} /\ \A e \in E : outbox[e] = "none"
    /\ \A e \in E : e <= SameAggregate => \A f \in 1..(e-1) : f \in E \/ outbox[f] # "none"
    /\ outbox' = [e \in Event |-> IF e \in E THEN "pending" ELSE outbox[e]]
    /\ UNCHANGED <<attempts, broker, todo, pc, history>>

Ascending(s) == \A i, j \in 1..Len(s) : i < j => s[i] < s[j]

\* ORDER BY id LIMIT limit: what is left out comes after a full page.
FirstOf(rows, limit) ==
    {s \in UNION {[1..n -> rows] : n \in 0..limit} :
        /\ Ascending(s)
        /\ \A e \in rows \ Range(s) : Len(s) = limit /\ \A i \in 1..limit : s[i] < e}

\* ListPending gone wrong: the query has no ORDER BY.
AnyOrder(limit) ==
    {s \in UNION {[1..n -> Pending] : n \in 0..limit} :
        /\ IsInjective(s)
        /\ Pending \subseteq Range(s) \/ Len(s) = limit}

\* ListPending gone wrong: rows that failed before are left out.
OnlyFresh(limit) == FirstOf({e \in Pending : attempts[e] = 0}, limit)

\* ListPending gone wrong: rows that were published are listed again.
EveryRow(limit) == FirstOf({e \in Event : outbox[e] # "none"}, limit)

ListPending(limit) == FirstOf(Pending, limit)

Held(d) == Range(todo[d])

\* A drain lists; the query may fail.
List(d) ==
    /\ pc[d] = "idle"
    /\ \E rows \in ListPending(Batch) :
          /\ todo' = [todo EXCEPT ![d] = rows]
          /\ pc' = [pc EXCEPT ![d] = IF rows = <<>> THEN "idle"
                                     ELSE IF broker THEN "publish" ELSE "mark"]
          /\ shared' = shared \cup (Range(rows) \cap UNION {Held(c) : c \in Drainer})
    /\ UNCHANGED <<table, broker, heard, failed, repeated>>

Take(e) ==
    /\ heard' = heard \cup {e}
    /\ repeated' = repeated \cup ({e} \cap heard)

RecordAttempt(e) ==
    \/ attempts' = [attempts EXCEPT ![e] = IF @ < MaxAttempts THEN @ + 1 ELSE @]
    \/ UNCHANGED attempts

\* Publish gone wrong: a publish that fails is marked like one that did not.
PublishUnchecked(d) ==
    /\ pc[d] = "publish"
    /\ LET e == Head(todo[d])
       IN  \/ Take(e) /\ UNCHANGED failed
           \/ UNCHANGED <<heard, repeated>> /\ failed' = failed \cup {e}
    /\ pc' = [pc EXCEPT ![d] = "mark"]
    /\ UNCHANGED <<table, broker, todo, shared>>

\* Publish and flush; when the flush fails the broker may have the event all the
\* same.  A failure is recorded on the row, if the database takes it, and the
\* next row's turn comes.
Publish(d) ==
    /\ pc[d] = "publish"
    /\ LET e == Head(todo[d])
       IN  \/ Take(e) /\ pc' = [pc EXCEPT ![d] = "mark"] /\ UNCHANGED <<attempts, todo, failed, shared>>
           \/ /\ UNCHANGED <<heard, repeated>> /\ failed' = failed \cup {e}
              /\ RecordAttempt(e) /\ Advance(d) /\ UNCHANGED shared
           \/ /\ Take(e) /\ failed' = failed \cup {e} /\ shared' = shared \cup {e}
              /\ RecordAttempt(e) /\ Advance(d)
    /\ UNCHANGED <<outbox, broker>>

Mark(d) ==
    /\ pc[d] = "mark"
    /\ LET e == Head(todo[d])
       IN  \/ /\ outbox' = [outbox EXCEPT ![e] = "published"]
              /\ IF broker THEN Advance(d)
                 ELSE todo' = [todo EXCEPT ![d] = Tail(todo[d])]
                      /\ pc' = [pc EXCEPT ![d] = IF Len(todo[d]) = 1 THEN "idle" ELSE "mark"]
              /\ UNCHANGED shared
           \/ \* without a broker the first error ends the drain
              /\ shared' = shared \cup {e} /\ UNCHANGED outbox
              /\ IF broker THEN Advance(d) ELSE Finish(d)
    /\ UNCHANGED <<attempts, broker, heard, failed, repeated>>

\* A process stops in the middle of a drain, or the drain's context ends.
Stop(d) ==
    /\ pc[d] # "idle" /\ Finish(d)
    /\ shared' = shared \cup Held(d)
    /\ UNCHANGED <<table, broker, heard, failed, repeated>>

Drain(d) == List(d) \/ Publish(d) \/ Mark(d)

Next ==
    \/ \E E \in SUBSET Event : outboxEvents(E)
    \/ \E d \in Drainer : Drain(d) \/ Stop(d)

\* The ticker calls Drain for ever and a call ends.  A broker and a database that
\* are asked again and again answer some time: one row's turn is not always cut
\* short, nor its publish or its mark always refused.
Progress ==
    /\ \A d \in Drainer : WF_vars(Drain(d))
    /\ \A e \in Event :
          /\ SF_vars(\E d \in Drainer : Publish(d) /\ todo[d] # <<>> /\ Head(todo[d]) = e /\ pc'[d] = "mark")
          /\ SF_vars(\E d \in Drainer : Mark(d) /\ Head(todo[d]) = e /\ outbox'[e] = "published")

Spec == Init /\ [][Next]_vars
FairSpec == Spec /\ Progress

-----------------------------------------------------------------------------
\* The type invariant; a drainer holds rows while it works, and only those that were committed.
TypeOK ==
    /\ outbox \in [Event -> {"none", "pending", "published"}]
    /\ attempts \in [Event -> 0..MaxAttempts]
    /\ \A d \in Drainer : /\ (pc[d] = "idle") = (todo[d] = <<>>)
                          /\ \A e \in Held(d) : outbox[e] # "none"

\* However drainers overlap, fail and stop, a row is settled only after the
\* broker took its event.
Feed == INSTANCE EventFeed WITH row <- outbox, heard <- IF broker THEN heard ELSE Event

ImplementsFeed == Feed!FeedSpec

\* A later event of an order overtakes an earlier one only when publishing the
\* earlier one failed: consumers see an order's events in order otherwise.
OvertakenOnlyByFailure ==
    \A e, f \in 1..SameAggregate : e < f /\ f \in heard /\ e \notin heard => e \in failed

\* The broker takes an event twice only when drainers overlapped on it or an
\* answer was lost: with one drainer and no failure consumers see it once.
RepeatsAreExplained == repeated \subseteq shared

\* Consumers see the events of an order in order and once, but for what failed
\* publishes, lost answers and overlapping drainers account for.
DisorderIsExplained == TypeOK /\ OvertakenOnlyByFailure /\ RepeatsAreExplained

\* Every event that was committed leaves the outbox in the end.
EventuallyPublished == \A e \in Event : outbox[e] = "pending" ~> outbox[e] = "published"
=============================================================================
