------------------------------ MODULE Sessions ------------------------------
(***************************************************************************)
(* Refresh tokens of the auth service: a login stores one, a refresh       *)
(* exchanges it for another in a store that answers each call atomically,  *)
(* a logout deletes it.  The account is read in between, and an answer may *)
(* not reach the client.                                                   *)
(***************************************************************************)
EXTENDS Integers, FiniteSets

CONSTANTS
    Request,    \* requests in progress
    MaxToken    \* refresh tokens generated, each different from all others

SessionsAssumption == IsFiniteSet(Request) /\ MaxToken \in Nat

Token == 1..MaxToken

VARIABLES
    sessions,   \* the tokens that the store holds
    last,       \* the newest token generated
    usable,     \* the account is active and not locked
    job,        \* what each request is doing
    held,       \* the token that each login's client believes in, by login
    of,         \* history: the login that each token descends from
    ended,      \* history: the logins that a client has left
    troubled    \* history: logins whose client may have lost track of its token

vars == <<sessions, last, usable, job, held, of, ended, troubled>>

Nothing == [pc |-> "idle", token |-> 0, new |-> 0, seen |-> FALSE]

Init ==
    /\ sessions = {} /\ last = 0 /\ usable = TRUE
    /\ job = [q \in Request |-> Nothing]
    /\ held = [t \in Token |-> 0] /\ of = [t \in Token |-> 0]
    /\ ended = {} /\ troubled = {}

Started == {t \in Token : of[t] = t}
Chain(l) == {t \in Token : of[t] = l}

Become(q, j) == job' = [job EXCEPT ![q] = j]
Fail(q) == Become(q, Nothing)
Others(q, t) == \E p \in Request \ {q} : job[p].token # 0 /\ of[job[p].token] = of[t]

-----------------------------------------------------------------------------
\* Set.  The answer to a login whose session was stored may be lost, with the token.
Set(q) ==
    /\ job[q].pc = "idle" /\ usable /\ last < MaxToken
    /\ LET t == last + 1
       IN  /\ last' = t
           /\ \/ /\ sessions' = sessions \cup {t}
                 /\ of' = [of EXCEPT ![t] = t] /\ held' = [held EXCEPT ![t] = t]
              \/ UNCHANGED <<sessions, of, held>>
    /\ UNCHANGED <<usable, job, ended, troubled>>

\* A client refreshes with the token it holds; its retries may overlap.  The token's
\* own signature and expiry are checked first.
Validate(q) ==
    /\ job[q].pc = "idle"
    /\ \E l \in Started \ ended :
          /\ Become(q, [Nothing EXCEPT !.pc = "get", !.token = held[l], !.seen = usable])
          /\ troubled' = IF Others(q, held[l]) THEN troubled \cup {l} ELSE troubled
    /\ UNCHANGED <<sessions, last, usable, held, of, ended>>

\* Get gone wrong: a token is taken out of the store when it is presented.
GetAndDelete(q) ==
    /\ job[q].pc = "get"
    /\ IF job[q].token \in sessions THEN Become(q, [job[q] EXCEPT !.pc = "find"]) ELSE Fail(q)
    /\ sessions' = sessions \ {job[q].token}
    /\ UNCHANGED <<last, usable, held, of, ended, troubled>>

Get(q) ==
    /\ job[q].pc = "get"
    /\ IF job[q].token \in sessions THEN Become(q, [job[q] EXCEPT !.pc = "find"]) ELSE Fail(q)
    /\ UNCHANGED <<sessions, last, usable, held, of, ended, troubled>>

\* FindByID gone wrong: the account's status is not looked at.
FindAnyAccount(q) ==
    /\ job[q].pc = "find"
    /\ Become(q, [job[q] EXCEPT !.pc = "rotate"])
    /\ UNCHANGED <<sessions, last, usable, held, of, ended, troubled>>

\* The account is read once: it must be there, active and not locked.
FindAccount(q) ==
    /\ job[q].pc = "find"
    /\ IF usable THEN Become(q, [job[q] EXCEPT !.pc = "rotate"]) ELSE Fail(q)
    /\ UNCHANGED <<sessions, last, usable, held, of, ended, troubled>>

\* Rotate gone wrong: the script does not look for the old token.
RotateBlindly(q) ==
    /\ job[q].pc = "rotate" /\ last < MaxToken
    /\ LET old == job[q].token  new == last + 1
       IN  /\ last' = new
           /\ sessions' = (sessions \ {old}) \cup {new}
           /\ of' = [of EXCEPT ![new] = of[old]]
           /\ Become(q, [job[q] EXCEPT !.pc = "answer", !.new = new])
    /\ UNCHANGED <<usable, held, ended, troubled>>

\* One script: without the old token nothing happens, else the new one replaces it.
\* The call may fail before, or after it took effect.
Rotate(q) ==
    /\ job[q].pc = "rotate" /\ last < MaxToken
    /\ LET old == job[q].token  new == last + 1  l == of[old]
           replace == /\ sessions' = (sessions \ {old}) \cup {new}
                      /\ of' = [of EXCEPT ![new] = l]
       IN  /\ last' = new
           /\ \/ /\ old \in sessions /\ replace /\ UNCHANGED troubled
                 /\ Become(q, [job[q] EXCEPT !.pc = "answer", !.new = new])
              \/ old \in sessions /\ replace /\ troubled' = troubled \cup {l} /\ Fail(q)
              \/ UNCHANGED <<sessions, of, troubled>> /\ Fail(q)
    /\ UNCHANGED <<usable, held, ended>>

\* The client takes the new token, or never hears of it.
Answer(q) ==
    /\ job[q].pc = "answer" /\ Fail(q)
    /\ LET l == of[job[q].token]
       IN  \/ held' = [held EXCEPT ![l] = job[q].new] /\ UNCHANGED troubled
           \/ troubled' = troubled \cup {l} /\ UNCHANGED held
    /\ UNCHANGED <<sessions, last, usable, of, ended>>

\* A client leaves with the token it holds, perhaps while a refresh is under way.
Logout(q) ==
    /\ job[q].pc = "idle"
    /\ \E l \in Started \ ended :
          /\ ended' = ended \cup {l}
          /\ \/ sessions' = sessions \ {held[l]} /\ troubled' =
                   IF Others(q, held[l]) THEN troubled \cup {l} ELSE troubled
             \/ UNCHANGED sessions /\ troubled' = troubled \cup {l}
    /\ UNCHANGED <<last, usable, job, held, of>>

\* A token's time is over: the store drops it, and its client is not heard again.
Expire ==
    /\ \E t \in sessions : sessions' = sessions \ {t} /\ troubled' = troubled \cup {of[t]}
    /\ UNCHANGED <<last, usable, job, held, of, ended>>

\* The account is locked, deactivated, or made usable again.
ChangeAccount ==
    /\ usable' = ~usable
    /\ job' = [q \in Request |-> [job[q] EXCEPT !.seen = @ \/ (job[q].pc # "idle" /\ usable')]]
    /\ UNCHANGED <<sessions, last, held, of, ended, troubled>>

Next ==
    \/ \E q \in Request : \/ Set(q) \/ Validate(q) \/ Get(q) \/ FindAccount(q)
                          \/ Rotate(q) \/ Answer(q) \/ Logout(q)
    \/ Expire \/ ChangeAccount

Spec == Init /\ [][Next]_vars

-----------------------------------------------------------------------------
\* A login has one token that works, however its refreshes overlap, and the tokens
\* in the store are ones that were generated.
OneTokenPerLogin ==
    /\ sessions \subseteq 1..last
    /\ \A s, t \in sessions : of[s] = of[t] => s = t

\* A client that refreshes one at a time and hears every answer is never thrown out
\* before its token expires, and once it has logged out nothing of its login works.
ClientsKeepTheirToken ==
    \A l \in Started \ troubled :
        IF l \in ended THEN Chain(l) \cap sessions = {}
        ELSE \/ held[l] \in sessions
             \/ \E q \in Request : job[q].pc = "answer" /\ job[q].token = held[l]

\* New tokens come only of a request during which the account was usable.
RefreshedWhileUsable == \A q \in Request : job[q].pc = "answer" => job[q].seen
-----------------------------------------------------------------------------
\* The inductive invariant of the proofs, in parts.
Working(q) == job[q].pc # "idle"
LoginOf(q) == of[job[q].token]

SessionTypes ==
    /\ sessions \subseteq 1..last /\ last \in 0..MaxToken /\ usable \in BOOLEAN
    /\ job \in [Request -> [pc : {"idle", "get", "find", "rotate", "answer"},
                            token : 0..last, new : 0..last, seen : BOOLEAN]]
    /\ held \in [Token -> 0..last] /\ of \in [Token -> 0..last]

\* Every token in use descends from a login, and so does the one it was exchanged for.
TokensHaveLogins ==
    /\ \A t \in Token : of[t] # 0 => of[t] \in Started
    /\ \A t \in Token : t > last => of[t] = 0
    /\ \A t \in sessions : of[t] # 0
    /\ \A l \in Started : held[l] # 0 /\ of[held[l]] = l
    /\ ended \subseteq Started
    /\ \A q \in Request : IF Working(q) THEN job[q].token # 0 /\ LoginOf(q) # 0
                                        ELSE job[q] = Nothing
    /\ \A q \in Request : job[q].pc = "answer" => job[q].new # 0 /\ of[job[q].new] = LoginOf(q)

\* A request on a login whose client kept track of its token is the only one, presents
\* the token that the client holds, and finds it, or its successor, in the store.
UntroubledAlone ==
    /\ \A p, q \in Request : Working(p) /\ Working(q) /\ LoginOf(p) = LoginOf(q)
                               /\ LoginOf(p) \notin troubled => p = q
    /\ \A q \in Request : Working(q) /\ LoginOf(q) \notin troubled =>
          /\ LoginOf(q) \notin ended /\ job[q].token = held[LoginOf(q)]
          /\ (IF job[q].pc = "answer" THEN job[q].new ELSE job[q].token) \in sessions

\* A request sees the account usable whenever it is, and goes on only if it was.
UsableSeen ==
    \A q \in Request : /\ Working(q) /\ usable => job[q].seen
                       /\ job[q].pc \in {"rotate", "answer"} => job[q].seen

SessionsInv ==
    /\ SessionTypes /\ TokensHaveLogins /\ UntroubledAlone /\ UsableSeen
    /\ OneTokenPerLogin /\ ClientsKeepTheirToken
=============================================================================
