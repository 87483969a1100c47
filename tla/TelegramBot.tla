----------------------------- MODULE TelegramBot -----------------------------
(***************************************************************************)
(* The bot that registers whoever writes to it: the poller's loop over the *)
(* updates that Telegram holds, and the processor that looks a chat up and *)
(* inserts it in three statements, while managers change the same table.   *)
(***************************************************************************)
EXTENDS Subscriptions

CONSTANT MaxUpdate      \* updates Telegram has for the bot

TelegramBotAssumption == MaxUpdate \in Nat

VARIABLES
    bot,        \* the update that the processor handles
    offset,     \* the poller's offset: the first update it has not begun
    batch,      \* the updates it has fetched and not begun
    confirmed,  \* Telegram: updates below this are gone
    handled     \* history: updates that the processor has finished with

botVars == <<bot, offset, batch, confirmed, handled>>
vars == <<subs, botVars>>

NoUpdate == [pc |-> "idle", id |-> 0, chat |-> "none", found |-> "none"]

Init ==
    /\ subs = <<>>
    /\ bot = NoUpdate /\ offset = 0 /\ batch = {} /\ confirmed = 1 /\ handled = {}

Larger(a, b) == IF a > b THEN a ELSE b

\* Asking with an offset confirms the updates below it: Telegram forgets them.
Ask ==
    /\ confirmed' = Larger(confirmed, offset)
    /\ \E last \in (confirmed' - 1)..MaxUpdate : batch' = confirmed'..last
    /\ UNCHANGED <<subs, bot, offset, handled>>

\* GetUpdates gone wrong: it does not wait for the last message of the batch.
GetUpdatesEarly == batch = {} /\ Ask

\* The next batch is asked for when the last message of this one is done with.
GetUpdates == batch = {} /\ bot = NoUpdate /\ Ask

\* An update of the batch: a message from chat c.
Handle(c) ==
    /\ bot = NoUpdate /\ batch # {}
    /\ LET n == CHOOSE n \in batch : \A k \in batch : n <= k
       IN  /\ batch' = batch \ {n}
           /\ offset' = Larger(offset, n + 1)
           /\ bot' = [pc |-> "find", id |-> n, chat |-> c, found |-> "none"]
    /\ UNCHANGED <<subs, confirmed, handled>>

\* The message is done with: answered, not meant for the bot, or failed and logged.
Done == bot' = NoUpdate /\ handled' = handled \cup {bot.id}

\* UpsertPending looks for the chat, then for its user, then inserts.
Find ==
    /\ bot.pc \in {"find", "find user"}
    /\ LET found == IF bot.pc = "find" THEN ByChat(bot.chat) ELSE ByUser(SentBy[bot.chat])
       IN  bot' = IF found = {}
                    THEN [bot EXCEPT !.pc = IF bot.pc = "find" THEN "find user" ELSE "insert"]
                    ELSE [bot EXCEPT !.pc = "reply",
                                     !.found = (CHOOSE s \in found : TRUE).status]
    /\ UNCHANGED <<subs, offset, batch, confirmed, handled>>

UpsertPending ==
    /\ bot.pc = "insert" /\ Insert(bot.chat)
    /\ bot' = [bot EXCEPT !.pc = "reply", !.found = "pending"]
    /\ UNCHANGED <<offset, batch, confirmed, handled>>

\* A unique index refuses the row, or a statement fails: the message is dropped.
Refused ==
    /\ bot.pc \in {"find", "find user", "insert"} /\ Done
    /\ UNCHANGED <<subs, offset, batch, confirmed>>

\* Only /start is answered, and not from a stranger; the answer itself may fail.
replyStart ==
    /\ bot.pc = "reply" /\ Done
    /\ UNCHANGED <<subs, offset, batch, confirmed>>

\* The process restarts and forgets its offset.
Restart ==
    /\ bot' = NoUpdate /\ offset' = 0 /\ batch' = {}
    /\ UNCHANGED <<subs, confirmed, handled>>

Next ==
    \/ GetUpdates \/ (\E c \in Chat : Handle(c))
    \/ Find \/ UpsertPending \/ Refused \/ replyStart \/ Restart
    \/ Manage /\ UNCHANGED botVars

Spec == Init /\ [][Next]_vars

-----------------------------------------------------------------------------
\* The type invariant, with the table's unique indexes.
TypeOK == TableOK /\ (bot = NoUpdate \/ bot.id \in 1..MaxUpdate)

\* Telegram forgets an update only after the processor has finished with it, however
\* often the service restarts.
UpdatesAreNotLost == \A n \in 1..(confirmed - 1) : n \in handled

-----------------------------------------------------------------------------
(* The inductive invariant of the proofs: what is below the batch, or below the offset, *)
(* has been handled but for the update that the processor is at.                        *)
Begun(n) == n \in handled \/ n = bot.id

BotInv ==
    /\ TableOK /\ UpdatesAreNotLost
    /\ bot = NoUpdate
         \/ /\ bot = [pc |-> bot.pc, id |-> bot.id, chat |-> bot.chat, found |-> bot.found]
            /\ bot.pc # "idle" /\ bot.id \in 1..MaxUpdate /\ bot.chat \in Chat
    /\ offset \in Nat /\ confirmed \in Nat \ {0}
    /\ \A n \in 1..(offset - 1) : Begun(n)
    /\ \E first \in 1..(MaxUpdate + 1), last \in 0..MaxUpdate :
          batch = first..last /\ \A n \in 1..(first - 1) : Begun(n)
=============================================================================
