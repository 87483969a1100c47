---------------------------- MODULE Subscriptions ----------------------------
(***************************************************************************)
(* The table telegram_subscriptions: the chats that asked for alerts, and  *)
(* the operations of its repository, each one statement.  A row's user is  *)
(* "unknown" when staff entered the chat alone; both columns are unique.   *)
(***************************************************************************)
EXTENDS Integers, Sequences, Functions

CONSTANTS
    Chat, User,
    SentBy          \* who writes to the bot from each chat

SubscriptionsAssumption == SentBy \in [Chat -> User]

VARIABLE subs       \* the table, newest row first

Sub(c, u, s, a) == [chat |-> c, user |-> u, status |-> s, alertOrder |-> a]

Rows == Range(subs)
ByChat(c) == {s \in Rows : s.chat = c}
ByUser(u) == {s \in Rows : s.user = u}
Accepted == {s \in Rows : s.status = "accepted"}
HasStatus(c, status) == \E s \in ByChat(c) : s.status = status

RowOf(c) == CHOOSE s \in ByChat(c) : TRUE

\* The row of a chat is replaced in its place.
Edit(c, row) == [i \in 1..Len(subs) |-> IF subs[i].chat = c THEN row ELSE subs[i]]

\* Insert gone wrong: no index keeps a user to one row.
InsertAgain(c) ==
    /\ ByChat(c) = {}
    /\ subs' = <<Sub(c, SentBy[c], "pending", FALSE)>> \o subs

Insert(c) ==
    /\ ByChat(c) = {} /\ ByUser(SentBy[c]) = {}
    /\ subs' = <<Sub(c, SentBy[c], "pending", FALSE)>> \o subs

\* A chat that is known is accepted in its place; a user id that another row has
\* is refused by the index.
CreateAccepted(c, u, a) ==
    /\ u = "unknown" \/ \A s \in ByUser(u) : s.chat = c
    /\ subs' = IF ByChat(c) = {} THEN <<Sub(c, u, "accepted", a)>> \o subs
               ELSE Edit(c, Sub(c, IF u = "unknown" THEN RowOf(c).user ELSE u, "accepted", a))

Accept(c, a) ==
    /\ HasStatus(c, "pending")
    /\ subs' = Edit(c, Sub(c, RowOf(c).user, "accepted", a))

Reject(c) ==
    /\ HasStatus(c, "pending")
    /\ subs' = Edit(c, Sub(c, RowOf(c).user, "rejected", RowOf(c).alertOrder))

Delete(c) ==
    \E i \in 1..Len(subs) :
        /\ subs[i].chat = c
        /\ subs' = SubSeq(subs, 1, i - 1) \o SubSeq(subs, i + 1, Len(subs))

\* What the managers' requests do to the table.
Manage ==
    \/ \E c \in Chat, a \in BOOLEAN :
          \/ \E u \in {"unknown", SentBy[c]} : CreateAccepted(c, u, a)
          \/ Accept(c, a)
    \/ \E c \in Chat : Reject(c) \/ Delete(c)

\* The type of the table, with its unique indexes.
Row == [chat : Chat, user : User \cup {"unknown"},
        status : {"pending", "accepted", "rejected"}, alertOrder : BOOLEAN]

TableOK ==
    /\ subs \in Seq(Row)
    /\ \A i, j \in 1..Len(subs) :
          i # j => /\ subs[i].chat # subs[j].chat
                   /\ subs[i].user = subs[j].user => subs[i].user = "unknown"
=============================================================================
