------------------------------- MODULE Alerts -------------------------------
(***************************************************************************)
(* The dispatcher of the notification service, which turns the events of   *)
(* the broker into messages to Telegram chats, and the managers' requests  *)
(* that accept and remove chats meanwhile.  It routes by the table and may *)
(* send by a list cached in memory, which each request that changes the    *)
(* table refreshes afterwards.                                             *)
(***************************************************************************)
EXTENDS Subscriptions

CONSTANTS
    EnvChats,       \* the chats configured by the environment
    EnvUsers,       \* the users configured by the environment
    Request         \* managers' requests in progress

AlertsAssumption == EnvChats \subseteq Chat /\ EnvUsers \subseteq User

VARIABLES
    access,     \* the cached chats and users that may be written to
    req,        \* the managers' requests
    alert,      \* the message that the dispatcher is sending
    blurred     \* history: the last refresh failed or a change overtook it

vars == <<subs, access, req, alert, blurred>>

\* What Refresh computes from the environment and the accepted rows.
AllowList ==
    [chats |-> EnvChats \cup {s.chat : s \in Accepted},
     users |-> EnvUsers \cup ({s.user : s \in Accepted} \ {"unknown"})]

NoAlert == [pc |-> "idle", chat |-> "none"]
NoRequest == [pc |-> "idle", view |-> [chats |-> {}, users |-> {}], overtaken |-> FALSE]

Init ==
    /\ subs = <<>> /\ access = AllowList
    /\ req = [q \in Request |-> NoRequest]
    /\ alert = NoAlert /\ blurred = FALSE

Refreshing(q) == req[q].pc = "install"

\* A request changes the table; what others have read of it is out of date.
Change(q) ==
    /\ req[q].pc = "idle" /\ Manage
    /\ req' = [p \in Request |-> CASE p = q -> [NoRequest EXCEPT !.pc = "list"]
                                   [] Refreshing(p) -> [req[p] EXCEPT !.overtaken = TRUE]
                                   [] OTHER -> req[p]]
    /\ UNCHANGED <<access, alert, blurred>>

\* notifyChanged gone wrong: a manager is answered before the list is refreshed.
AnswerFirst(q) ==
    /\ req[q].pc = "list"
    /\ req' = [req EXCEPT ![q] = NoRequest]
    /\ UNCHANGED <<subs, access, alert, blurred>>

\* notifyChanged: Refresh reads the accepted rows.
List(q) ==
    /\ req[q].pc = "list"
    /\ req' = [req EXCEPT ![q].pc = "install", ![q].view = AllowList]
    /\ UNCHANGED <<subs, access, alert, blurred>>

\* The query fails: this is logged, and the manager is told nothing of it.
ListFails(q) ==
    /\ req[q].pc = "list"
    /\ req' = [req EXCEPT ![q] = NoRequest]
    /\ blurred' = TRUE
    /\ UNCHANGED <<subs, access, alert>>

\* The list is swapped later, under its lock, and the manager is answered.
Install(q) ==
    /\ Refreshing(q)
    /\ access' = req[q].view /\ blurred' = req[q].overtaken
    /\ req' = [req EXCEPT ![q] = NoRequest]
    /\ UNCHANGED <<subs, alert>>

\* The bot registers a chat, which changes no list.
Register(c) == Insert(c) /\ UNCHANGED <<access, req, alert, blurred>>

-----------------------------------------------------------------------------
\* The environment's chat first, then the newest accepted row that asks for orders.
RoutingChats ==
    LET asks == SelectSeq(subs, LAMBDA s : s.status = "accepted" /\ s.alertOrder)
    IN  IF EnvChats # {} THEN CHOOSE c \in EnvChats : TRUE
        ELSE IF asks # <<>> THEN Head(asks).chat ELSE "none"

\* An event arrives; without a chat to tell it is logged and gone.
handleOrder ==
    /\ alert.pc = "idle" /\ RoutingChats # "none"
    /\ alert' = [pc |-> "send", chat |-> RoutingChats]
    /\ UNCHANGED <<subs, access, req, blurred>>

\* Send gone wrong: the dispatcher's choice of chat is trusted.
SendAnyway ==
    /\ alert.pc = "send"
    /\ alert' = [alert EXCEPT !.pc = "sent"] \/ alert' = NoAlert
    /\ UNCHANGED <<subs, access, req, blurred>>

\* The policy skips a chat in silence; a failure is logged, nothing is tried again.
Send ==
    /\ alert.pc = "send"
    /\ \/ alert.chat \in access.chats /\ alert' = [alert EXCEPT !.pc = "sent"]
       \/ alert' = NoAlert
    /\ UNCHANGED <<subs, access, req, blurred>>

Sent ==
    /\ alert.pc = "sent" /\ alert' = NoAlert
    /\ UNCHANGED <<subs, access, req, blurred>>

\* The process restarts with the table and the environment.
Restart ==
    /\ access' = AllowList /\ blurred' = FALSE /\ alert' = NoAlert
    /\ req' = [q \in Request |-> NoRequest]
    /\ UNCHANGED subs

Next ==
    \/ \E q \in Request : Change(q) \/ List(q) \/ ListFails(q) \/ Install(q)
    \/ \E c \in Chat : Register(c)
    \/ handleOrder \/ Send \/ Sent \/ Restart

Spec == Init /\ [][Next]_vars

-----------------------------------------------------------------------------
Busy == \E q \in Request : req[q].pc # "idle"

\* Once no change is in progress the cache is what the table and the environment
\* say, unless the last refresh failed or another change overtook it.
CacheFollowsTable == Busy \/ blurred \/ access = AllowList

\* A chat that was removed is silent once its manager is answered, even when the
\* event was routed to it before: unless a refresh went wrong, an alert goes to a
\* chat of the environment or to one that is accepted now.
RemovedChatIsSilentStep ==
    alert'.pc = "sent" /\ alert.pc = "send" /\ ~Busy /\ ~blurred
       => alert'.chat \in EnvChats \/ HasStatus(alert'.chat, "accepted")

RemovedChatIsSilent == [][RemovedChatIsSilentStep]_vars

-----------------------------------------------------------------------------
(* The inductive invariant of the proofs: a list that no change has overtaken since it *)
(* was read is the table's.                                                            *)
AlertsInv ==
    /\ TableOK /\ CacheFollowsTable
    /\ blurred \in BOOLEAN
    /\ req \in [Request -> [pc : {"idle", "list", "install"},
                            view : [chats : SUBSET Chat, users : SUBSET (User \cup {"unknown"})],
                            overtaken : BOOLEAN]]
    /\ \A q \in Request : Refreshing(q) /\ ~req[q].overtaken => req[q].view = AllowList
    /\ alert = [pc |-> alert.pc, chat |-> alert.chat]
=============================================================================
