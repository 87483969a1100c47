----------------------------- MODULE OutboxProofs -----------------------------
(***************************************************************************)
(* Theorems about Outbox, for any number of events and drainers and any    *)
(* size of a page: it implements EventFeed, and what its consumers see out *)
(* of order or twice is explained.  They hold of Spec: what can go wrong   *)
(* at any time may, for ever.                                              *)
(***************************************************************************)
EXTENDS Outbox, SequenceTheorems, TLAPS

TypesOK ==
    /\ outbox \in [Event -> {"none", "pending", "published"}]
    /\ attempts \in [Event -> 0..MaxAttempts]
    /\ broker \in BOOLEAN
    /\ todo \in [Drainer -> Seq(Event)]
    /\ pc \in [Drainer -> {"idle", "publish", "mark"}]
    /\ heard \subseteq Event

\* A drainer holds rows that were committed, by their number, while it works.
QueuesOK ==
    \A d \in Drainer :
        /\ Ascending(todo[d])
        /\ (pc[d] = "idle") = (todo[d] = <<>>)
        /\ \A e \in Held(d) : outbox[e] # "none"

\* What is marked, or is about to be, the broker has taken, if there is one.
BrokerOK ==
    /\ \A e \in heard : outbox[e] # "none"
    /\ ~broker => heard = {} /\ \A d \in Drainer : pc[d] # "publish"
    /\ broker => /\ \A d \in Drainer : pc[d] = "mark" => Head(todo[d]) \in heard
                 /\ \A e \in Event : outbox[e] = "published" => e \in heard

\* An event the broker has taken once, and no drainer shared or lost, is either
\* published or about to be marked by the one drainer that holds it.
SharedOK ==
    /\ RepeatsAreExplained
    /\ \A c, d \in Drainer : c # d => Held(c) \cap Held(d) \subseteq shared
    /\ \A d \in Drainer : \A e \in Held(d) :
          e \in heard /\ e \notin shared => pc[d] = "mark" /\ e = Head(todo[d])
    /\ \A e \in heard : outbox[e] = "pending" /\ e \notin shared
                        => \E d \in Drainer : e \in Held(d)

\* Events of one order are committed by their number, and a drainer that holds
\* one holds the earlier ones too, or the broker took them, or they failed.
OrderOK ==
    /\ \A e, f \in Event :
          f <= SameAggregate /\ e < f /\ outbox[f] # "none" => outbox[e] # "none"
    /\ broker => \A d \in Drainer : \A f \in Held(d) : \A e \in Event :
          f <= SameAggregate /\ e < f => e \in heard \cup failed \cup Held(d)
    /\ OvertakenOnlyByFailure

OutboxInv == TypesOK /\ QueuesOK /\ BrokerOK /\ SharedOK /\ OrderOK

-----------------------------------------------------------------------------
(* Pages and queues                                                        *)

\* A page has rows of the table only, by their number, and all that come before
\* one it has.
LEMMA FirstOfIsAPage ==
    ASSUME NEW rows \in SUBSET Event, NEW limit \in Nat, NEW s \in FirstOf(rows, limit)
    PROVE  /\ s \in Seq(Event) /\ Ascending(s) /\ Range(s) \subseteq rows
           /\ \A e \in rows : \A f \in Range(s) : e < f => e \in Range(s)
  <1>1. PICK n \in 0..limit : s \in [1..n -> rows]
    BY DEF FirstOf
  <1>2. s \in Seq(Event) /\ Len(s) = n /\ DOMAIN s = 1..n
    BY <1>1, OutboxAssumption
  <1>3. Ascending(s) /\ Range(s) \subseteq rows
    BY <1>1, <1>2 DEF FirstOf, Range
  <1>4. ASSUME NEW e \in rows, NEW f \in Range(s), e < f, e \notin Range(s)
        PROVE  FALSE
    <2>1. PICK i \in 1..n : f = s[i]
      BY <1>2 DEF Range
    <2>2. n = limit /\ s[i] < e
      BY <1>2, <1>4 DEF FirstOf
    <2>. QED
      BY <1>1, <1>4, <2>1, <2>2, OutboxAssumption DEF Event
  <1>. QED
    BY <1>2, <1>3, <1>4

\* Taking the first row off a queue leaves the others, all of a higher number.
LEMMA TakeFirst ==
    ASSUME NEW s \in Seq(Event), s # <<>>, Ascending(s)
    PROVE  /\ Tail(s) \in Seq(Event) /\ Ascending(Tail(s))
           /\ (Tail(s) = <<>>) = (Len(s) = 1)
           /\ Head(s) \in Range(s) /\ Head(s) \in Event
           /\ Range(Tail(s)) = Range(s) \ {Head(s)}
           /\ \A e \in Range(s) : e # Head(s) => Head(s) < e
  <1>1. /\ Len(s) \in Nat \ {0} /\ DOMAIN s = 1..Len(s)
        /\ Head(s) = s[1] /\ Head(s) \in Event
        /\ Tail(s) \in Seq(Event) /\ Len(Tail(s)) = Len(s) - 1
        /\ \A i \in 1..Len(Tail(s)) : Tail(s)[i] = s[i + 1]
    BY HeadTailProperties, LenProperties, EmptySeq
  <1>2. DOMAIN Tail(s) = 1..Len(s) - 1
    BY <1>1, LenProperties
  <1>3. \A i \in 1..Len(s) : s[i] \in Event
    BY ElementOfSeq
  <1>4. Ascending(Tail(s))
    BY <1>1 DEF Ascending
  <1>5. (Tail(s) = <<>>) = (Len(s) = 1)
    <2>1. /\ Len(<<>>) = 0
          /\ \A seq \in Seq(Event) : seq # <<>> => Len(seq) \in Nat \ {0}
      BY EmptySeq
    <2>2. ASSUME Tail(s) # <<>> PROVE Len(s) # 1
      <3>1. Len(Tail(s)) \in Nat \ {0} /\ Len(Tail(s)) = Len(s) - 1
        BY <1>1, <2>1, <2>2
      <3>. QED
        BY <1>1, <3>1
    <2>3. Tail(s) = <<>> => Len(s) = 1
      BY <1>1, <2>1
    <2>. QED
      BY <2>2, <2>3
  <1>6. \A i \in 2..Len(s) : Head(s) < s[i]
    BY <1>1 DEF Ascending
  <1>7. Range(Tail(s)) \subseteq Range(s) \ {Head(s)}
    <2>. SUFFICES ASSUME NEW i \in 1..Len(s) - 1
                  PROVE  Tail(s)[i] \in Range(s) \ {Head(s)}
      BY <1>2 DEF Range
    <2>1. Tail(s)[i] = s[i + 1] /\ i + 1 \in 2..Len(s)
      BY <1>1
    <2>2. s[i + 1] \in Range(s)
      BY <1>1, <2>1 DEF Range
    <2>. QED
      BY <1>1, <1>3, <1>6, <2>1, <2>2, OutboxAssumption DEF Event
  <1>8. \A e \in Range(s) : e # Head(s) => e \in Range(Tail(s)) /\ Head(s) < e
    <2>. SUFFICES ASSUME NEW i \in 1..Len(s), s[i] # Head(s)
                  PROVE  s[i] \in Range(Tail(s)) /\ Head(s) < s[i]
      BY <1>1 DEF Range
    <2>1. i \in 2..Len(s) /\ i - 1 \in 1..Len(s) - 1
      BY <1>1
    <2>2. Tail(s)[i - 1] = s[i]
      BY <1>1, <2>1
    <2>. QED
      BY <1>2, <1>6, <2>1, <2>2 DEF Range
  <1>9. Head(s) \in Range(s)
    BY <1>1 DEF Range
  <1>. QED
    BY <1>1, <1>4, <1>5, <1>7, <1>8, <1>9

-----------------------------------------------------------------------------
(* One drainer moves                                                       *)

\* The row that a working drainer is at.
LEMMA AtRow ==
    ASSUME TypesOK, QueuesOK, NEW d \in Drainer, pc[d] # "idle"
    PROVE  /\ Head(todo[d]) \in Held(d) /\ Head(todo[d]) \in Event
           /\ outbox[Head(todo[d])] # "none"
           /\ \A e \in Held(d) : e # Head(todo[d]) => Head(todo[d]) < e
  <1>1. todo[d] \in Seq(Event) /\ todo[d] # <<>> /\ Ascending(todo[d])
    BY DEF TypesOK, QueuesOK
  <1>. QED
    BY <1>1, TakeFirst DEF QueuesOK, Held

LEMMA HeldAreEvents ==
    ASSUME TypesOK, NEW d \in Drainer
    PROVE  Held(d) \subseteq Event
  <1>1. todo[d] \in Seq(Event)
    BY DEF TypesOK
  <1>. QED
    BY <1>1, LenProperties, ElementOfSeq DEF Held, Range

\* The drainer has another queue q, in order, that is empty when it is idle.
Moves(d, q) ==
    /\ todo' \in [Drainer -> Seq(Event)]
    /\ pc' \in [Drainer -> {"idle", "publish", "mark"}]
    /\ \A c \in Drainer : Ascending(todo'[c]) /\ (pc'[c] = "idle") = (todo'[c] = <<>>)
    /\ Held(d)' = Range(q)
    /\ \A c \in Drainer : c # d => Held(c)' = Held(c) /\ pc'[c] = pc[c] /\ todo'[c] = todo[c]

LEMMA NewQueue ==
    ASSUME TypesOK, QueuesOK, NEW d \in Drainer,
           NEW q \in Seq(Event), Ascending(q),
           NEW now \in {"idle", "publish", "mark"}, (now = "idle") = (q = <<>>),
           todo' = [todo EXCEPT ![d] = q], pc' = [pc EXCEPT ![d] = now]
    PROVE  Moves(d, q)
  <1>1. todo'[d] = q /\ pc'[d] = now
    BY DEF TypesOK
  <1>2. \A c \in Drainer : c # d => todo'[c] = todo[c] /\ pc'[c] = pc[c]
    BY DEF TypesOK
  <1>3. todo' \in [Drainer -> Seq(Event)] /\ pc' \in [Drainer -> {"idle", "publish", "mark"}]
    BY DEF TypesOK
  <1>4. \A c \in Drainer : Ascending(todo'[c]) /\ (pc'[c] = "idle") = (todo'[c] = <<>>)
    BY <1>1, <1>2 DEF QueuesOK
  <1>. QED
    BY <1>1, <1>2, <1>3, <1>4 DEF Moves, Held

LEMMA NextRow ==
    ASSUME TypesOK, QueuesOK, NEW d \in Drainer, pc[d] # "idle",
           NEW next \in {"publish", "mark"},
           todo' = [todo EXCEPT ![d] = Tail(todo[d])],
           pc' = [pc EXCEPT ![d] = IF Len(todo[d]) = 1 THEN "idle" ELSE next]
    PROVE  /\ Moves(d, Tail(todo[d])) /\ pc'[d] \in {"idle", next}
           /\ Range(Tail(todo[d])) = Held(d) \ {Head(todo[d])}
  <1>1. todo[d] \in Seq(Event) /\ todo[d] # <<>> /\ Ascending(todo[d])
    BY DEF TypesOK, QueuesOK
  <1>2. /\ Tail(todo[d]) \in Seq(Event) /\ Ascending(Tail(todo[d]))
        /\ (Tail(todo[d]) = <<>>) = (Len(todo[d]) = 1)
        /\ Range(Tail(todo[d])) = Held(d) \ {Head(todo[d])}
    BY <1>1, TakeFirst DEF Held
  <1>. DEFINE now == IF Len(todo[d]) = 1 THEN "idle" ELSE next
  <1>3. now \in {"idle", "publish", "mark"} /\ (now = "idle") = (Tail(todo[d]) = <<>>)
    BY <1>2
  <1>4. pc'[d] = now
    BY DEF TypesOK
  <1>5. Moves(d, Tail(todo[d]))
    BY <1>2, <1>3, NewQueue
  <1>. QED
    BY <1>2, <1>4, <1>5

LEMMA NoRow ==
    ASSUME TypesOK, QueuesOK, NEW d \in Drainer, Finish(d)
    PROVE  Moves(d, <<>>) /\ Range(<<>>) = {} /\ pc'[d] = "idle"
  <1>1. <<>> \in Seq(Event) /\ Ascending(<<>>) /\ Range(<<>>) = {}
    BY EmptySeq DEF Ascending, Range
  <1>2. Moves(d, <<>>)
    BY <1>1, NewQueue DEF Finish
  <1>. QED
    BY <1>1, <1>2 DEF Finish, TypesOK

-----------------------------------------------------------------------------
(* One lemma per action: the invariant is kept                             *)

LEMMA CommitKeepsInv ==
    ASSUME OutboxInv, NEW E \in SUBSET Event, outboxEvents(E)
    PROVE  OutboxInv'
  <1>. USE DEF outboxEvents, history
  <1>1. outbox' \in [Event -> {"none", "pending", "published"}]
    BY DEF OutboxInv, TypesOK
  <1>2. \A e \in Event : outbox'[e] = IF e \in E THEN "pending" ELSE outbox[e]
    OBVIOUS
  <1>3. \A d \in Drainer : Held(d)' = Held(d) /\ Held(d) \subseteq Event
    BY HeldAreEvents DEF Held, OutboxInv
  <1>4. TypesOK'
    BY <1>1 DEF OutboxInv, TypesOK
  <1>5. QueuesOK'
    BY <1>2, <1>3 DEF OutboxInv, QueuesOK
  <1>6. BrokerOK'
    BY <1>2 DEF OutboxInv, BrokerOK, TypesOK
  <1>7. SharedOK'
    <2>1. \A e \in heard : outbox'[e] = outbox[e]
      BY <1>2 DEF OutboxInv, BrokerOK, TypesOK
    <2>. QED
      BY <1>3, <2>1 DEF OutboxInv, SharedOK, RepeatsAreExplained
  <1>8. OrderOK'
    <2>1. ASSUME NEW e \in Event, NEW f \in Event,
                 f <= SameAggregate, e < f, outbox'[f] # "none"
          PROVE  outbox'[e] # "none"
      <3>1. CASE f \in E
        <4>1. e \in 1..(f - 1)
          BY <2>1, OutboxAssumption DEF Event
        <4>. QED
          BY <1>2, <2>1, <3>1, <4>1
      <3>2. CASE f \notin E
        BY <1>2, <2>1, <3>2 DEF OutboxInv, OrderOK
      <3>. QED
        BY <3>1, <3>2
    <2>. QED
      BY <1>3, <2>1 DEF OutboxInv, OrderOK, OvertakenOnlyByFailure
  <1>. QED
    BY <1>4, <1>5, <1>6, <1>7, <1>8 DEF OutboxInv

LEMMA ListKeepsInv ==
    ASSUME OutboxInv, NEW d \in Drainer, List(d)
    PROVE  OutboxInv'
  <1>1. PICK rows \in ListPending(Batch) :
            /\ todo' = [todo EXCEPT ![d] = rows]
            /\ pc' = [pc EXCEPT ![d] = IF rows = <<>> THEN "idle"
                                       ELSE IF broker THEN "publish" ELSE "mark"]
            /\ shared' = shared \cup (Range(rows) \cap UNION {Held(c) : c \in Drainer})
    BY DEF List
  <1>2. /\ pc[d] = "idle"
        /\ UNCHANGED <<outbox, attempts, broker, heard, failed, repeated>>
    BY DEF List, table
  <1>3. /\ rows \in Seq(Event) /\ Ascending(rows) /\ Range(rows) \subseteq Pending
        /\ \A e \in Pending : \A f \in Range(rows) : e < f => e \in Range(rows)
    BY <1>1, FirstOfIsAPage, OutboxAssumption DEF ListPending, Pending
  <1>. DEFINE now == IF rows = <<>> THEN "idle" ELSE IF broker THEN "publish" ELSE "mark"
  <1>4. now \in {"idle", "publish", "mark"} /\ (now = "idle") = (rows = <<>>)
    OBVIOUS
  <1>5. Moves(d, rows) /\ pc'[d] = now
    BY <1>1, <1>3, <1>4, NewQueue DEF OutboxInv, TypesOK
  <1>. HIDE DEF now
  <1>6. Held(d) = {}
    BY <1>2 DEF OutboxInv, QueuesOK, Held, Range
  <1>7. Held(d)' = Range(rows) /\ \A c \in Drainer : c # d => Held(c)' = Held(c)
    BY <1>5 DEF Moves
  <1>8. \A e \in Pending : e \in Event /\ outbox[e] = "pending"
    BY DEF Pending
  <1>9. TypesOK'
    BY <1>2, <1>5 DEF Moves, OutboxInv, TypesOK
  <1>10. QueuesOK'
    BY <1>2, <1>3, <1>5, <1>7, <1>8 DEF Moves, OutboxInv, QueuesOK
  <1>11. BrokerOK'
    BY <1>2, <1>5 DEF now, Moves, OutboxInv, BrokerOK
  <1>12. SharedOK'
    <2>1. shared \subseteq shared'
      BY <1>1
    <2>2. \A c \in Drainer : c # d => Held(c) \cap Range(rows) \subseteq shared'
      BY <1>1
    <2>3. \A e \in Range(rows) : e \in heard => e \in shared'
      BY <1>1, <1>3, <1>8, <2>1 DEF OutboxInv, SharedOK
    <2>4. \A e \in heard : outbox[e] = "pending" /\ e \notin shared
              => \E c \in Drainer : c # d /\ e \in Held(c)
      BY <1>6 DEF OutboxInv, SharedOK
    <2>5. \A c \in Drainer : c # d => pc'[c] = pc[c] /\ todo'[c] = todo[c]
      BY <1>5 DEF Moves
    <2>6. RepeatsAreExplained'
      BY <1>2, <2>1 DEF OutboxInv, SharedOK, RepeatsAreExplained
    <2>7. \A b, c \in Drainer : b # c => Held(b)' \cap Held(c)' \subseteq shared'
      BY <1>7, <2>1, <2>2 DEF OutboxInv, SharedOK
    <2>8. \A c \in Drainer : \A e \in Held(c)' :
              e \in heard' /\ e \notin shared' => pc'[c] = "mark" /\ e = Head(todo'[c])
      BY <1>2, <1>7, <2>1, <2>3, <2>5 DEF OutboxInv, SharedOK
    <2>9. \A e \in heard' : outbox'[e] = "pending" /\ e \notin shared'
              => \E c \in Drainer : e \in Held(c)'
      BY <1>2, <1>7, <2>1, <2>4
    <2>. QED
      BY <2>6, <2>7, <2>8, <2>9 DEF SharedOK
  <1>13. OrderOK'
    <2>1. ASSUME broker, NEW f \in Range(rows), NEW e \in Event, f <= SameAggregate, e < f
          PROVE  e \in heard \cup Range(rows)
      <3>1. outbox[f] = "pending" /\ f \in Event
        BY <1>3, <1>8
      <3>2. outbox[e] \in {"pending", "published"}
        BY <2>1, <3>1 DEF OutboxInv, OrderOK, TypesOK
      <3>3. CASE outbox[e] = "pending"
        BY <1>3, <2>1, <3>3 DEF Pending
      <3>4. CASE outbox[e] = "published"
        BY <2>1, <3>4 DEF OutboxInv, BrokerOK
      <3>. QED
        BY <3>2, <3>3, <3>4
    <2>. QED
      BY <1>2, <1>7, <2>1 DEF OutboxInv, OrderOK, OvertakenOnlyByFailure
  <1>. QED
    BY <1>9, <1>10, <1>11, <1>12, <1>13 DEF OutboxInv

\* A drainer publishes an event of an order after the order's earlier ones.
LEMMA EarlierOnesCameFirst ==
    ASSUME OutboxInv, NEW d \in Drainer, pc[d] = "publish", NEW g \in Event,
           Head(todo[d]) <= SameAggregate, g < Head(todo[d])
    PROVE  g \in heard \cup failed
  <1>1. /\ Head(todo[d]) \in Held(d) /\ Head(todo[d]) \in Event
        /\ \A f \in Held(d) : f # Head(todo[d]) => Head(todo[d]) < f
    BY AtRow DEF OutboxInv
  <1>2. broker
    BY DEF OutboxInv, BrokerOK
  <1>3. g \notin Held(d)
    BY <1>1, OutboxAssumption DEF Event
  <1>. QED
    BY <1>1, <1>2, <1>3 DEF OutboxInv, OrderOK

\* The broker answers.
LEMMA TakenKeepsInv ==
    ASSUME OutboxInv, NEW d \in Drainer, pc[d] = "publish",
           Take(Head(todo[d])), pc' = [pc EXCEPT ![d] = "mark"],
           UNCHANGED <<outbox, attempts, broker, todo, failed, shared>>
    PROVE  OutboxInv'
  <1>. DEFINE e == Head(todo[d])
  <1>1. e \in Held(d) /\ e \in Event /\ outbox[e] # "none"
    BY AtRow DEF OutboxInv
  <1>2. broker
    BY DEF OutboxInv, BrokerOK
  <1>3. heard' = heard \cup {e} /\ repeated' = repeated \cup ({e} \cap heard)
    BY DEF Take
  <1>4. \A c \in Drainer : Held(c)' = Held(c)
    BY DEF Held
  <1>5. pc'[d] = "mark" /\ \A c \in Drainer : c # d => pc'[c] = pc[c]
    BY DEF OutboxInv, TypesOK
  <1>. HIDE DEF e
  <1>6. TypesOK'
    BY <1>1, <1>3 DEF OutboxInv, TypesOK
  <1>7. QueuesOK'
    BY <1>4, <1>5 DEF OutboxInv, QueuesOK
  <1>8. BrokerOK'
    BY <1>1, <1>2, <1>3, <1>5 DEF OutboxInv, BrokerOK, e
  <1>9. SharedOK'
    <2>1. e \in heard => e \in shared
      BY <1>1 DEF OutboxInv, SharedOK
    <2>2. RepeatsAreExplained'
      BY <1>3, <2>1 DEF OutboxInv, SharedOK, RepeatsAreExplained
    <2>3. ASSUME NEW c \in Drainer, NEW f \in Held(c), f \in heard \cup {e}, f \notin shared
          PROVE  pc'[c] = "mark" /\ f = Head(todo[c])
      <3>1. CASE c = d
        BY <1>5, <2>3, <3>1 DEF OutboxInv, SharedOK, e
      <3>2. CASE c # d
        BY <1>1, <1>5, <2>3, <3>2 DEF OutboxInv, SharedOK
      <3>. QED
        BY <3>1, <3>2
    <2>. QED
      BY <1>1, <1>3, <1>4, <2>2, <2>3 DEF OutboxInv, SharedOK
  <1>10. OrderOK'
    <2>1. \A g \in Event : e <= SameAggregate /\ g < e => g \in heard \cup failed
      BY EarlierOnesCameFirst DEF e
    <2>2. OvertakenOnlyByFailure'
      BY <1>3, <2>1, OutboxAssumption DEF OutboxInv, OrderOK, OvertakenOnlyByFailure, Event
    <2>. QED
      BY <1>3, <1>4, <2>2 DEF OutboxInv, OrderOK
  <1>. QED
    BY <1>6, <1>7, <1>8, <1>9, <1>10 DEF OutboxInv

\* It does not answer, and has the event or not.
LEMMA FailedKeepsInv ==
    ASSUME OutboxInv, NEW d \in Drainer, pc[d] = "publish",
           \/ UNCHANGED <<heard, repeated, shared>>
           \/ Take(Head(todo[d])) /\ shared' = shared \cup {Head(todo[d])},
           failed' = failed \cup {Head(todo[d])},
           RecordAttempt(Head(todo[d])), Advance(d), UNCHANGED <<outbox, broker>>
    PROVE  OutboxInv'
  <1>. DEFINE e == Head(todo[d])
  <1>1. e \in Held(d) /\ e \in Event /\ outbox[e] # "none"
    BY AtRow DEF OutboxInv
  <1>2. broker
    BY DEF OutboxInv, BrokerOK
  <1>3. /\ Moves(d, Tail(todo[d])) /\ pc'[d] \in {"idle", "publish"}
        /\ Range(Tail(todo[d])) = Held(d) \ {e}
    BY NextRow DEF OutboxInv, Advance
  <1>4. /\ Held(d)' = Held(d) \ {e}
        /\ \A c \in Drainer : c # d => Held(c)' = Held(c) /\ pc'[c] = pc[c] /\ todo'[c] = todo[c]
    BY <1>3 DEF Moves
  <1>5. /\ heard \subseteq heard' /\ heard' \subseteq heard \cup {e}
        /\ shared \subseteq shared' /\ shared' \subseteq shared \cup {e}
        /\ e \in shared' \/ (heard' = heard /\ repeated' = repeated)
        /\ repeated' \subseteq repeated \cup {e}
    BY DEF Take
  <1>6. failed' = failed \cup {e}
    OBVIOUS
  <1>7. attempts' \in [Event -> 0..MaxAttempts]
    <2>1. attempts \in [Event -> 0..MaxAttempts]
      BY DEF OutboxInv, TypesOK
    <2>2. attempts[e] \in 0..MaxAttempts
      BY <1>1, <2>1
    <2>3. (IF attempts[e] < MaxAttempts THEN attempts[e] + 1 ELSE attempts[e]) \in 0..MaxAttempts
      BY <2>2, OutboxAssumption
    <2>. QED
      BY <2>1, <2>3 DEF RecordAttempt
  <1>. HIDE DEF e
  <1>8. TypesOK'
    BY <1>1, <1>3, <1>5, <1>7 DEF Moves, OutboxInv, TypesOK
  <1>9. QueuesOK'
    BY <1>3, <1>4 DEF Moves, OutboxInv, QueuesOK
  <1>10. BrokerOK'
    BY <1>1, <1>2, <1>3, <1>4, <1>5 DEF OutboxInv, BrokerOK
  <1>11. SharedOK'
    <2>1. e \in heard => e \in shared
      BY <1>1 DEF OutboxInv, SharedOK
    <2>2. RepeatsAreExplained'
      BY <1>5, <2>1 DEF OutboxInv, SharedOK, RepeatsAreExplained
    <2>3. \A b, c \in Drainer : b # c => Held(b)' \cap Held(c)' \subseteq shared'
      BY <1>4, <1>5 DEF OutboxInv, SharedOK
    <2>4. \A f \in Held(d) : f \in heard => f \in shared
      BY DEF OutboxInv, SharedOK
    <2>5. ASSUME NEW c \in Drainer, NEW f \in Held(c)', f \in heard', f \notin shared'
          PROVE  pc'[c] = "mark" /\ f = Head(todo'[c])
      <3>1. f \in heard /\ f \notin shared
        BY <1>5, <2>5
      <3>2. c # d
        BY <1>4, <2>4, <2>5, <3>1
      <3>. QED
        BY <1>4, <2>5, <3>1, <3>2 DEF OutboxInv, SharedOK
    <2>6. ASSUME NEW f \in heard', outbox[f] = "pending", f \notin shared'
          PROVE  \E c \in Drainer : f \in Held(c)'
      <3>1. f \in heard /\ f \notin shared
        BY <1>5, <2>6
      <3>2. PICK c \in Drainer : f \in Held(c)
        BY <2>6, <3>1 DEF OutboxInv, SharedOK
      <3>3. c # d
        BY <2>4, <3>1, <3>2
      <3>. QED
        BY <1>4, <3>2, <3>3
    <2>. QED
      BY <2>2, <2>3, <2>5, <2>6 DEF SharedOK
  <1>12. OrderOK'
    <2>1. \A g \in Event : e <= SameAggregate /\ g < e => g \in heard \cup failed
      BY EarlierOnesCameFirst DEF e
    <2>2. OvertakenOnlyByFailure'
      BY <1>5, <1>6, <2>1, OutboxAssumption
      DEF OutboxInv, OrderOK, OvertakenOnlyByFailure, Event
    <2>3. \A c \in Drainer : Held(c) \subseteq Held(c)' \cup {e} /\ Held(c)' \subseteq Held(c)
      BY <1>4
    <2>. QED
      BY <1>2, <1>5, <1>6, <2>2, <2>3 DEF OutboxInv, OrderOK
  <1>. QED
    BY <1>8, <1>9, <1>10, <1>11, <1>12 DEF OutboxInv

LEMMA PublishKeepsInv ==
    ASSUME OutboxInv, NEW d \in Drainer, Publish(d)
    PROVE  OutboxInv'
  BY TakenKeepsInv, FailedKeepsInv DEF Publish

\* A row is marked, or the error of the mark ends its turn.
LEMMA MarkedKeepsInv ==
    ASSUME OutboxInv, NEW d \in Drainer, pc[d] = "mark",
           NEW next \in {"publish", "mark"}, broker \/ next = "mark",
           todo' = [todo EXCEPT ![d] = Tail(todo[d])],
           pc' = [pc EXCEPT ![d] = IF Len(todo[d]) = 1 THEN "idle" ELSE next],
           broker => next = "publish",
           \/ /\ outbox' = [outbox EXCEPT ![Head(todo[d])] = "published"]
              /\ UNCHANGED shared
           \/ shared' = shared \cup {Head(todo[d])} /\ UNCHANGED outbox,
           UNCHANGED <<attempts, broker, heard, failed, repeated>>
    PROVE  OutboxInv'
  <1>. DEFINE e == Head(todo[d])
  <1>1. e \in Held(d) /\ e \in Event /\ outbox[e] # "none"
    BY AtRow DEF OutboxInv
  <1>2. /\ Moves(d, Tail(todo[d])) /\ pc'[d] \in {"idle", next}
        /\ Range(Tail(todo[d])) = Held(d) \ {e}
    BY NextRow DEF OutboxInv
  <1>3. /\ Held(d)' = Held(d) \ {e}
        /\ \A c \in Drainer : c # d => Held(c)' = Held(c) /\ pc'[c] = pc[c] /\ todo'[c] = todo[c]
    BY <1>2 DEF Moves
  <1>4. /\ outbox' \in [Event -> {"none", "pending", "published"}]
        /\ \A f \in Event : f # e => outbox'[f] = outbox[f]
        /\ outbox'[e] # "none" /\ shared \subseteq shared'
        /\ outbox'[e] = "published" \/ e \in shared'
    BY <1>1 DEF OutboxInv, TypesOK
  <1>5. broker => e \in heard
    BY DEF OutboxInv, BrokerOK
  <1>6. \A c \in Drainer : Held(c) \subseteq Event
    BY HeldAreEvents DEF OutboxInv
  <1>. HIDE DEF e
  <1>7. TypesOK'
    BY <1>2, <1>4 DEF Moves, OutboxInv, TypesOK
  <1>8. QueuesOK'
    BY <1>1, <1>2, <1>3, <1>4, <1>6 DEF Moves, OutboxInv, QueuesOK
  <1>9. BrokerOK'
    <2>1. \A f \in heard : outbox'[f] # "none"
      BY <1>4 DEF OutboxInv, BrokerOK, TypesOK
    <2>2. ASSUME ~broker PROVE heard = {} /\ \A c \in Drainer : pc'[c] # "publish"
      BY <1>2, <1>3, <2>2 DEF OutboxInv, BrokerOK
    <2>3. ASSUME broker, NEW c \in Drainer, pc'[c] = "mark" PROVE Head(todo'[c]) \in heard
      BY <1>2, <1>3, <2>3 DEF OutboxInv, BrokerOK
    <2>4. ASSUME broker, NEW f \in Event, outbox'[f] = "published" PROVE f \in heard
      BY <1>4, <1>5, <2>4 DEF OutboxInv, BrokerOK
    <2>. QED
      BY <2>1, <2>2, <2>3, <2>4 DEF BrokerOK
  <1>10. SharedOK'
    <2>1. RepeatsAreExplained'
      BY <1>4 DEF OutboxInv, SharedOK, RepeatsAreExplained
    <2>2. \A b, c \in Drainer : b # c => Held(b)' \cap Held(c)' \subseteq shared'
      BY <1>3, <1>4 DEF OutboxInv, SharedOK
    <2>3. \A f \in Held(d) : f \in heard /\ f \notin shared => f = e
      BY DEF OutboxInv, SharedOK, e
    <2>4. ASSUME NEW c \in Drainer, NEW f \in Held(c)', f \in heard, f \notin shared'
          PROVE  pc'[c] = "mark" /\ f = Head(todo'[c])
      <3>1. c # d
        BY <1>3, <1>4, <2>3, <2>4
      <3>. QED
        BY <1>3, <1>4, <2>4, <3>1 DEF OutboxInv, SharedOK
    <2>5. ASSUME NEW f \in heard, outbox'[f] = "pending", f \notin shared'
          PROVE  \E c \in Drainer : f \in Held(c)'
      <3>1. f # e /\ f \in Event
        BY <1>4, <2>5 DEF OutboxInv, TypesOK
      <3>2. PICK c \in Drainer : f \in Held(c)
        BY <1>4, <2>5, <3>1 DEF OutboxInv, SharedOK
      <3>. QED
        BY <1>3, <3>1, <3>2
    <2>. QED
      BY <2>1, <2>2, <2>4, <2>5 DEF SharedOK
  <1>11. OrderOK'
    <2>1. \A f, g \in Event :
              g <= SameAggregate /\ f < g /\ outbox'[g] # "none" => outbox'[f] # "none"
      BY <1>1, <1>4 DEF OutboxInv, OrderOK
    <2>2. OvertakenOnlyByFailure'
      BY DEF OutboxInv, OrderOK, OvertakenOnlyByFailure
    <2>3. \A c \in Drainer : Held(c) \subseteq Held(c)' \cup {e} /\ Held(c)' \subseteq Held(c)
      BY <1>3
    <2>. QED
      BY <1>5, <2>1, <2>2, <2>3 DEF OutboxInv, OrderOK
  <1>. QED
    BY <1>7, <1>8, <1>9, <1>10, <1>11 DEF OutboxInv

\* A drain ends before its last row: what it held counts as shared, or there is
\* no broker.
LEMMA EndKeepsInv ==
    ASSUME OutboxInv, NEW d \in Drainer, Finish(d),
           shared \subseteq shared', ~broker \/ Held(d) \subseteq shared',
           UNCHANGED <<outbox, attempts, broker, heard, failed, repeated>>
    PROVE  OutboxInv'
  <1>1. Moves(d, <<>>) /\ Range(<<>>) = {} /\ pc'[d] = "idle"
    BY NoRow DEF OutboxInv
  <1>2. /\ Held(d)' = {}
        /\ \A c \in Drainer : c # d => Held(c)' = Held(c) /\ pc'[c] = pc[c] /\ todo'[c] = todo[c]
    BY <1>1 DEF Moves
  <1>3. TypesOK'
    BY <1>1 DEF Moves, OutboxInv, TypesOK
  <1>4. QueuesOK'
    BY <1>1, <1>2 DEF Moves, OutboxInv, QueuesOK
  <1>5. BrokerOK'
    BY <1>1, <1>2 DEF OutboxInv, BrokerOK
  <1>6. SharedOK'
    <2>1. ~broker => heard = {}
      BY DEF OutboxInv, BrokerOK
    <2>2. ASSUME NEW f \in heard, outbox[f] = "pending", f \notin shared'
          PROVE  \E c \in Drainer : f \in Held(c)'
      BY <1>2, <2>1, <2>2 DEF OutboxInv, SharedOK
    <2>. QED
      BY <1>2, <2>2 DEF OutboxInv, SharedOK, RepeatsAreExplained
  <1>7. OrderOK'
    BY <1>2 DEF OutboxInv, OrderOK, OvertakenOnlyByFailure
  <1>. QED
    BY <1>3, <1>4, <1>5, <1>6, <1>7 DEF OutboxInv

LEMMA MarkKeepsInv ==
    ASSUME OutboxInv, NEW d \in Drainer, Mark(d)
    PROVE  OutboxInv'
  <1>1. pc[d] = "mark" /\ UNCHANGED <<attempts, broker, heard, failed, repeated>>
    BY DEF Mark
  <1>2. CASE broker
    BY <1>1, <1>2, MarkedKeepsInv DEF Mark, Advance
  <1>3. CASE ~broker /\ outbox' = [outbox EXCEPT ![Head(todo[d])] = "published"]
                     /\ todo' = [todo EXCEPT ![d] = Tail(todo[d])]
                     /\ pc' = [pc EXCEPT ![d] = IF Len(todo[d]) = 1 THEN "idle" ELSE "mark"]
                     /\ UNCHANGED shared
    BY <1>1, <1>3, MarkedKeepsInv
  <1>4. CASE ~broker /\ Finish(d) /\ UNCHANGED outbox
                     /\ shared' = shared \cup {Head(todo[d])}
    BY <1>1, <1>4, EndKeepsInv
  <1>. QED
    BY <1>2, <1>3, <1>4 DEF Mark

LEMMA StopKeepsInv ==
    ASSUME OutboxInv, NEW d \in Drainer, Stop(d)
    PROVE  OutboxInv'
  BY EndKeepsInv DEF Stop, table

-----------------------------------------------------------------------------
(* The theorems                                                            *)

LEMMA InitHasInv ==
    ASSUME Init
    PROVE  OutboxInv
  <1>1. \A d \in Drainer : Held(d) = {}
    BY DEF Init, Held, Range
  <1>2. TypesOK
    <2>1. <<>> \in Seq(Event)
      BY EmptySeq
    <2>. QED
      BY <2>1, OutboxAssumption DEF Init, TypesOK
  <1>3. QueuesOK
    BY <1>1 DEF Init, QueuesOK, Ascending
  <1>4. BrokerOK
    BY DEF Init, BrokerOK
  <1>5. SharedOK
    BY <1>1 DEF Init, SharedOK, RepeatsAreExplained
  <1>6. OrderOK
    BY <1>1 DEF Init, OrderOK, OvertakenOnlyByFailure
  <1>. QED
    BY <1>2, <1>3, <1>4, <1>5, <1>6 DEF OutboxInv

LEMMA StutterKeepsInv ==
    ASSUME OutboxInv, UNCHANGED vars
    PROVE  OutboxInv'
  <1>. USE DEF vars, table, history
  <1>1. \A d \in Drainer : Held(d)' = Held(d)
    BY DEF Held
  <1>2. TypesOK' /\ QueuesOK' /\ BrokerOK'
    BY <1>1 DEF OutboxInv, TypesOK, QueuesOK, BrokerOK
  <1>3. SharedOK' /\ OrderOK'
    BY <1>1 DEF OutboxInv, SharedOK, OrderOK, RepeatsAreExplained, OvertakenOnlyByFailure
  <1>. QED
    BY <1>2, <1>3 DEF OutboxInv

\* The invariant: what drainers hold, what the broker has taken and what is
\* marked fit together, whatever overlaps, fails and stops.
THEOREM OutboxInvHolds == Spec => []OutboxInv
  <1>1. Init => OutboxInv
    BY InitHasInv
  <1>2. OutboxInv /\ [Next]_vars => OutboxInv'
    BY CommitKeepsInv, ListKeepsInv, PublishKeepsInv, MarkKeepsInv, StopKeepsInv,
       StutterKeepsInv DEF Next, Drain
  <1>. QED
    BY <1>1, <1>2, PTL DEF Spec

\* Consumers see the events of an order in order, and each event once, but for
\* failed publishes, lost answers and drainers that overlap (Drain, outbox.go).
THEOREM DisorderIsExplainedHolds == Spec => []DisorderIsExplained
  <1>1. OutboxInv => DisorderIsExplained
    BY DEF OutboxInv, DisorderIsExplained, TypeOK, TypesOK, QueuesOK, SharedOK, OrderOK
  <1>. QED
    BY <1>1, OutboxInvHolds, PTL

\* A committed event stays until the broker has taken it: every step of the outbox
\* is a step of the feed it promises, or leaves that alone.
THEOREM OutboxImplementsFeed == Spec => ImplementsFeed
  <1>1. Init => Feed!FeedInit
    BY DEF Init, Feed!FeedInit
  <1>2. OutboxInv /\ [Next]_vars => [Feed!FeedNext]_(Feed!feed)
    <2>. SUFFICES ASSUME OutboxInv, [Next]_vars PROVE [Feed!FeedNext]_(Feed!feed)
      OBVIOUS
    <2>. USE DEF Feed!feed, Feed!FeedNext
    <2>1. CASE UNCHANGED vars
      BY <2>1 DEF vars, table, history
    <2>2. ASSUME NEW E \in SUBSET Event, outboxEvents(E) PROVE Feed!Enqueue(E)
      BY <2>2 DEF outboxEvents, history, Feed!Enqueue
    <2>3. ASSUME NEW d \in Drainer, List(d) PROVE UNCHANGED Feed!feed
      BY <2>3 DEF List, table
    <2>4. ASSUME NEW d \in Drainer, Publish(d) PROVE [Feed!FeedNext]_(Feed!feed)
      <3>1. broker /\ broker' = broker /\ outbox' = outbox
        BY <2>4 DEF OutboxInv, BrokerOK, Publish
      <3>2. Head(todo[d]) \in Event /\ outbox[Head(todo[d])] # "none"
        BY <2>4, AtRow DEF OutboxInv, Publish
      <3>3. CASE Take(Head(todo[d]))
        BY <3>1, <3>2, <3>3 DEF Take, Feed!Publish
      <3>4. CASE heard' = heard
        BY <3>1, <3>4
      <3>. QED
        BY <2>4, <3>3, <3>4 DEF Publish
    <2>5. ASSUME NEW d \in Drainer, Mark(d) PROVE [Feed!FeedNext]_(Feed!feed)
      <3>1. broker' = broker /\ heard' = heard
        BY <2>5 DEF Mark
      <3>2. Head(todo[d]) \in Event
        BY <2>5, AtRow DEF OutboxInv, Mark
      <3>3. broker => Head(todo[d]) \in heard
        BY <2>5 DEF OutboxInv, BrokerOK, Mark
      <3>4. CASE outbox' = [outbox EXCEPT ![Head(todo[d])] = "published"]
        BY <3>1, <3>2, <3>3, <3>4 DEF Feed!Settle
      <3>5. CASE outbox' = outbox
        BY <3>1, <3>5
      <3>. QED
        BY <2>5, <3>4, <3>5 DEF Mark
    <2>6. ASSUME NEW d \in Drainer, Stop(d) PROVE UNCHANGED Feed!feed
      BY <2>6 DEF Stop, table
    <2>. QED
      BY <2>1, <2>2, <2>3, <2>4, <2>5, <2>6 DEF Next, Drain
  <1>. QED
    BY <1>1, <1>2, OutboxInvHolds, PTL DEF Spec, ImplementsFeed, Feed!FeedSpec
=============================================================================
