----------------------------- MODULE ShopProofs -----------------------------
(***************************************************************************)
(* Theorems about what a shopper meets, for any number of requests, carts, *)
(* lines, logins, tokens and windows.                                      *)
(*                                                                         *)
(* Each of the four components has a section: its invariant holds at first *)
(* and after every step, one lemma per action, and its properties follow   *)
(* from it.  Only the component that runs in a behaviour has a state, so   *)
(* an invariant is stated under which = "...".                             *)
(***************************************************************************)
EXTENDS ShopMC, Sequences, FiniteSetTheorems, TLAPS

-----------------------------------------------------------------------------
(* The tokens of a login *)

LEMMA NoSessionJob ==
    /\ Sessions!Nothing.pc = "idle" /\ Sessions!Nothing.token = 0
    /\ Sessions!Nothing.new = 0 /\ Sessions!Nothing.seen = FALSE
    /\ \A n \in Nat : Sessions!Nothing \in
          [pc : {"idle", "get", "find", "rotate", "answer"}, token : 0..n, new : 0..n,
           seen : BOOLEAN]
BY DEF Sessions!Nothing

LEMMA SessionsStart ==
    ASSUME Sessions!SessionsAssumption, Sessions!Init
    PROVE  Sessions!SessionsInv
<1>1. sessions = {} /\ last = 0 /\ usable = TRUE /\ ended = {} /\ troubled = {}
    BY DEF Sessions!Init
<1>2. /\ \A q \in Request : tokenJob[q] = Sessions!Nothing
      /\ \A t \in Sessions!Token : held[t] = 0 /\ of[t] = 0
    BY DEF Sessions!Init
<1>3. Sessions!SessionTypes
    BY NoSessionJob DEF Sessions!Init, Sessions!SessionTypes, Sessions!SessionsAssumption
<1>4. Sessions!Token \subseteq 1..MaxToken /\ Sessions!Started = {}
    BY <1>2 DEF Sessions!Token, Sessions!Started
<1>5. \A q \in Request : ~Sessions!Working(q) /\ tokenJob[q].pc = "idle"
    BY <1>2, NoSessionJob DEF Sessions!Working
<1>6. Sessions!TokensHaveLogins
    BY <1>1, <1>2, <1>4, <1>5 DEF Sessions!TokensHaveLogins
<1>7. Sessions!UntroubledAlone /\ Sessions!UsableSeen
    BY <1>5 DEF Sessions!UntroubledAlone, Sessions!UsableSeen
<1>8. Sessions!OneTokenPerLogin /\ Sessions!ClientsKeepTheirToken
    BY <1>1, <1>4 DEF Sessions!OneTokenPerLogin, Sessions!ClientsKeepTheirToken
<1> QED BY <1>3, <1>6, <1>7, <1>8 DEF Sessions!SessionsInv

\* A request that has not yet exchanged its token goes on, or gives up.
LEMMA SessionsGoOn ==
    ASSUME Sessions!SessionsAssumption, Sessions!SessionsInv,
           NEW q \in Request, tokenJob[q].pc \in {"get", "find"},
           NEW pc \in {"find", "rotate"}, pc = "rotate" => usable,
           \/ tokenJob' = [tokenJob EXCEPT ![q] = Sessions!Nothing]
           \/ tokenJob' = [tokenJob EXCEPT ![q] = [tokenJob[q] EXCEPT !.pc = pc]],
           UNCHANGED <<sessions, last, usable, held, of, ended, troubled>>
    PROVE  Sessions!SessionsInv'
<1> USE NoSessionJob DEF Sessions!Working, Sessions!LoginOf
<1>1. Sessions!SessionTypes BY DEF Sessions!SessionsInv
<1>2. /\ tokenJob[q].token \in 0..last /\ tokenJob[q].new \in 0..last
      /\ tokenJob[q].seen \in BOOLEAN
    BY <1>1 DEF Sessions!SessionTypes
<1>3. \A p \in Request : p # q => tokenJob'[p] = tokenJob[p]
    BY <1>1 DEF Sessions!SessionTypes
<1>4. \/ tokenJob'[q] = Sessions!Nothing
      \/ /\ tokenJob'[q].pc = pc /\ tokenJob'[q].token = tokenJob[q].token
         /\ tokenJob'[q].new = tokenJob[q].new /\ tokenJob'[q].seen = tokenJob[q].seen
    BY <1>1 DEF Sessions!SessionTypes
<1>5. Sessions!SessionTypes'
    BY <1>1, <1>2 DEF Sessions!SessionTypes
<1>6. Sessions!Token' = Sessions!Token /\ Sessions!Started' = Sessions!Started
    BY DEF Sessions!Token, Sessions!Started
<1>7. Sessions!TokensHaveLogins'
    BY <1>3, <1>4, <1>6 DEF Sessions!TokensHaveLogins, Sessions!SessionsInv
<1>8. Sessions!UntroubledAlone'
    BY <1>3, <1>4 DEF Sessions!UntroubledAlone, Sessions!SessionsInv
<1>9. Sessions!UsableSeen'
    BY <1>3, <1>4 DEF Sessions!UsableSeen, Sessions!SessionsInv
<1>10. Sessions!OneTokenPerLogin'
    BY DEF Sessions!OneTokenPerLogin, Sessions!SessionsInv
<1>11. Sessions!ClientsKeepTheirToken'
    BY <1>3, <1>6 DEF Sessions!ClientsKeepTheirToken, Sessions!SessionsInv, Sessions!Chain, Sessions!Token
<1> QED BY <1>5, <1>7, <1>8, <1>9, <1>10, <1>11 DEF Sessions!SessionsInv

LEMMA SessionsLookedAt ==
    ASSUME Sessions!SessionsAssumption, Sessions!SessionsInv, NEW q \in Request,
           Sessions!Get(q) \/ Sessions!FindAccount(q)
    PROVE  Sessions!SessionsInv'
<1>1. CASE Sessions!Get(q)
    BY <1>1, SessionsGoOn DEF Sessions!Get, Sessions!Become, Sessions!Fail
<1>2. CASE Sessions!FindAccount(q)
    BY <1>2, SessionsGoOn DEF Sessions!FindAccount, Sessions!Become, Sessions!Fail
<1> QED BY <1>1, <1>2

\* A login gets a token of its own.
LEMMA SessionsSet ==
    ASSUME Sessions!SessionsAssumption, Sessions!SessionsInv, NEW q \in Request, Sessions!Set(q)
    PROVE  Sessions!SessionsInv'
<1> USE NoSessionJob DEF Sessions!Working, Sessions!LoginOf
<1>1. Sessions!SessionTypes /\ Sessions!TokensHaveLogins BY DEF Sessions!SessionsInv
<1> DEFINE t == last + 1
<1>2. /\ last' = t /\ last < MaxToken
      /\ UNCHANGED <<usable, tokenJob, ended, troubled>>
      /\ \/ /\ sessions' = sessions \cup {t}
            /\ of' = [of EXCEPT ![t] = t] /\ held' = [held EXCEPT ![t] = t]
         \/ UNCHANGED <<sessions, of, held>>
    BY DEF Sessions!Set
<1>3. /\ t \in Sessions!Token /\ last \in Nat /\ t \in Nat /\ t # 0
      /\ t \notin sessions /\ of[t] = 0
      /\ \A s \in Sessions!Token : of[s] # t /\ held[s] # t
    BY <1>1, <1>2 DEF Sessions!SessionTypes, Sessions!TokensHaveLogins, Sessions!Token,
       Sessions!SessionsAssumption
<1>4. Sessions!Token' = Sessions!Token BY DEF Sessions!Token
<1>5. \A s \in Sessions!Token : s # t => of'[s] = of[s] /\ held'[s] = held[s]
    BY <1>1, <1>2 DEF Sessions!SessionTypes
<1>6. \/ sessions' = sessions \cup {t} /\ of'[t] = t /\ held'[t] = t
      \/ sessions' = sessions /\ of'[t] = of[t] /\ held'[t] = held[t]
    BY <1>1, <1>2, <1>3 DEF Sessions!SessionTypes
<1>t. Sessions!SessionTypes'
    <2>1. 0..last \subseteq 0..t /\ t \in 0..t /\ 1..last \subseteq 1..t /\ t \in 1..t
          /\ t \in 0..MaxToken
        BY <1>2, <1>3 DEF Sessions!SessionsAssumption
    <2> HIDE DEF t
    <2>2. sessions' \subseteq 1..t BY <1>1, <1>6, <2>1 DEF Sessions!SessionTypes
    <2>3. held' \in [Sessions!Token -> 0..t] /\ of' \in [Sessions!Token -> 0..t]
        BY <1>1, <1>2, <2>1 DEF Sessions!SessionTypes
    <2>4. tokenJob \in [Request -> [pc : {"idle", "get", "find", "rotate", "answer"},
                                    token : 0..t, new : 0..t, seen : BOOLEAN]]
        BY <1>1, <2>1 DEF Sessions!SessionTypes
    <2> QED BY <1>1, <1>2, <1>4, <2>1, <2>2, <2>3, <2>4 DEF Sessions!SessionTypes
<1> HIDE DEF t
<1>7. /\ sessions \subseteq Sessions!Token /\ last \in Nat
      /\ \A s \in Sessions!Token : s \in Nat /\ of[s] \in Nat /\ held[s] \in Nat
      /\ \A p \in Request : tokenJob[p].token \in 0..last /\ tokenJob[p].new \in 0..last
    BY <1>1, <1>3 DEF Sessions!SessionTypes, Sessions!Token, Sessions!SessionsAssumption
<1>8. /\ \A s \in 0..last : s # 0 => s \in Sessions!Token /\ s # t
      /\ \A s \in Sessions!Token : s > t => s > last
    BY <1>2, <1>3, <1>7 DEF Sessions!Token, Sessions!SessionsAssumption, t
<1>9. /\ Sessions!Started \subseteq Sessions!Started'
      /\ \A s \in Sessions!Started' : s # t => s \in Sessions!Started
      /\ t \notin Sessions!Started /\ (t \in Sessions!Started' => of'[t] = t)
      /\ (of'[t] = t => t \in Sessions!Started')
    BY <1>3, <1>5, <1>6 DEF Sessions!Started, Sessions!Token
<1>10. \A p \in Request : Sessions!Working(p) => /\ tokenJob[p].token \in Sessions!Token
                                                /\ tokenJob[p].token # t
                                                /\ of'[tokenJob[p].token] = of[tokenJob[p].token]
    BY <1>1, <1>5, <1>7, <1>8 DEF Sessions!TokensHaveLogins
<1>l. Sessions!TokensHaveLogins'
    <2>1. \A s \in Sessions!Token : of'[s] # 0 => of'[s] \in Sessions!Started'
        BY <1>1, <1>3, <1>5, <1>6, <1>9 DEF Sessions!TokensHaveLogins
    <2>2. \A s \in Sessions!Token : s > t => of'[s] = 0
        BY <1>1, <1>3, <1>5, <1>8 DEF Sessions!TokensHaveLogins, t
    <2>3. \A s \in sessions' : of'[s] # 0
        <3> TAKE s \in sessions'
        <3>1. CASE s \in sessions
            BY <3>1, <1>1, <1>3, <1>5, <1>7 DEF Sessions!TokensHaveLogins
        <3>2. CASE s \notin sessions
            <4>1. s = t /\ of'[t] = t BY <3>2, <1>6
            <4> QED BY <4>1, <1>3
        <3> QED BY <3>1, <3>2
    <2>4. \A l \in Sessions!Started' : held'[l] # 0 /\ of'[held'[l]] = l
        <3> TAKE l \in Sessions!Started'
        <3>1. CASE l = t BY <3>1, <1>3, <1>6, <1>9
        <3>2. CASE l # t
            <4>1. l \in Sessions!Started /\ l \in Sessions!Token BY <3>2, <1>9 DEF Sessions!Started
            <4>2. held'[l] = held[l] /\ held[l] # 0 /\ of[held[l]] = l /\ held[l] # t
                BY <4>1, <3>2, <1>1, <1>3, <1>5 DEF Sessions!TokensHaveLogins
            <4>3. held[l] \in Sessions!Token
                BY <4>1, <4>2, <1>1, <1>8 DEF Sessions!SessionTypes
            <4> QED BY <4>2, <4>3, <1>5
        <3> QED BY <3>1, <3>2
    <2>5. \A p \in Request : IF Sessions!Working(p) THEN tokenJob[p].token # 0 /\ of'[tokenJob[p].token] # 0
                                        ELSE tokenJob[p] = Sessions!Nothing
        BY <1>1, <1>10 DEF Sessions!TokensHaveLogins
    <2>6. \A p \in Request : tokenJob[p].pc = "answer" =>
              tokenJob[p].new # 0 /\ of'[tokenJob[p].new] = of'[tokenJob[p].token]
        BY <1>1, <1>5, <1>7, <1>8, <1>10 DEF Sessions!TokensHaveLogins
    <2>7. ended \subseteq Sessions!Started' BY <1>1, <1>9 DEF Sessions!TokensHaveLogins
    <2> QED BY <1>2, <1>4, <2>1, <2>2, <2>3, <2>4, <2>5, <2>6, <2>7 DEF Sessions!TokensHaveLogins
<1>u. Sessions!UntroubledAlone'
    <2>1. ASSUME NEW p \in Request, Sessions!Working(p), of'[tokenJob[p].token] \notin troubled
          PROVE  /\ of'[tokenJob[p].token] \notin ended
                 /\ tokenJob[p].token = held'[of'[tokenJob[p].token]]
                 /\ (IF tokenJob[p].pc = "answer" THEN tokenJob[p].new ELSE tokenJob[p].token)
                        \in sessions'
        <3> DEFINE l == of[tokenJob[p].token]
        <3>1. of'[tokenJob[p].token] = l /\ l \in Sessions!Started
            BY <2>1, <1>1, <1>10 DEF Sessions!TokensHaveLogins
        <3>2. l \in Sessions!Token /\ l # t BY <3>1, <1>9 DEF Sessions!Started
        <3> QED BY <2>1, <3>1, <3>2, <1>5, <1>6
                DEF Sessions!UntroubledAlone, Sessions!SessionsInv
    <2>2. ASSUME NEW p \in Request, NEW r \in Request, Sessions!Working(p), Sessions!Working(r),
                 of'[tokenJob[p].token] = of'[tokenJob[r].token], of'[tokenJob[p].token] \notin troubled
          PROVE  p = r
        BY <2>2, <1>10 DEF Sessions!UntroubledAlone, Sessions!SessionsInv
    <2> QED BY <1>2, <2>1, <2>2 DEF Sessions!UntroubledAlone
<1>s. Sessions!UsableSeen' BY <1>2 DEF Sessions!UsableSeen, Sessions!SessionsInv
<1>o. Sessions!OneTokenPerLogin'
    <2>1. \A s \in sessions : of'[s] = of[s] /\ s # t /\ of[s] # t
        BY <1>3, <1>5, <1>7
    <2>2. \A r, s \in sessions' : of'[r] = of'[s] => r = s
        <3> TAKE r, s \in sessions'
        <3>1. sessions' = sessions \/ (sessions' = sessions \cup {t} /\ of'[t] = t) BY <1>6
        <3>2. r \in sessions /\ s \in sessions => (of'[r] = of'[s] => r = s)
            BY <2>1 DEF Sessions!OneTokenPerLogin, Sessions!SessionsInv
        <3> QED BY <2>1, <3>1, <3>2
    <2>3. sessions' \subseteq 1..last' BY <1>t DEF Sessions!SessionTypes
    <2> QED BY <2>2, <2>3 DEF Sessions!OneTokenPerLogin
<1>c. Sessions!ClientsKeepTheirToken'
    <2> SUFFICES ASSUME NEW l \in Sessions!Started', l \notin troubled
                 PROVE  IF l \in ended THEN Sessions!Chain(l)' \cap sessions' = {}
                        ELSE \/ held'[l] \in sessions'
                             \/ \E p \in Request : tokenJob[p].pc = "answer" /\ tokenJob[p].token = held'[l]
        BY <1>2 DEF Sessions!ClientsKeepTheirToken
    <2>1. CASE l = t
        <3>1. held'[l] \in sessions' BY <2>1, <1>3, <1>6, <1>9
        <3>2. l \notin ended BY <2>1, <1>1, <1>9 DEF Sessions!TokensHaveLogins
        <3> QED BY <3>1, <3>2
    <2>2. CASE l # t
        <3>1. l \in Sessions!Started /\ l \in Sessions!Token BY <2>2, <1>9 DEF Sessions!Started
        <3>2. held'[l] = held[l] BY <3>1, <2>2, <1>5
        <3>3. sessions \subseteq sessions' BY <1>6
        <3>4. \A s \in Sessions!Token : s \in sessions' /\ of'[s] = l => s \in sessions /\ of[s] = l
            BY <2>2, <1>5, <1>6, <1>3
        <3>5. l \in ended => Sessions!Chain(l)' \cap sessions' = {}
            BY <3>1, <3>4, <1>4 DEF Sessions!ClientsKeepTheirToken, Sessions!SessionsInv, Sessions!Chain
        <3>6. l \notin ended =>  \/ held'[l] \in sessions'
                             \/ \E p \in Request : tokenJob[p].pc = "answer" /\ tokenJob[p].token = held'[l]
            BY <3>1, <3>2, <3>3 DEF Sessions!ClientsKeepTheirToken, Sessions!SessionsInv
        <3> QED BY <3>5, <3>6
    <2> QED BY <2>1, <2>2
<1> QED BY <1>t, <1>l, <1>u, <1>s, <1>o, <1>c DEF Sessions!SessionsInv

\* A client presents the token it holds.
LEMMA SessionsValidate ==
    ASSUME Sessions!SessionsAssumption, Sessions!SessionsInv, NEW q \in Request,
           Sessions!Validate(q)
    PROVE  Sessions!SessionsInv'
<1> USE NoSessionJob DEF Sessions!Working, Sessions!LoginOf
<1>1. Sessions!SessionTypes /\ Sessions!TokensHaveLogins BY DEF Sessions!SessionsInv
<1>2. PICK l \in Sessions!Started \ ended :
          /\ tokenJob' = [tokenJob EXCEPT ![q] = [Sessions!Nothing EXCEPT
                             !.pc = "get", !.token = held[l], !.seen = usable]]
          /\ troubled' = IF Sessions!Others(q, held[l]) THEN troubled \cup {l} ELSE troubled
    BY DEF Sessions!Validate, Sessions!Become
<1>3. tokenJob[q].pc = "idle" /\ UNCHANGED <<sessions, last, usable, held, of, ended>>
    BY DEF Sessions!Validate
<1>4. l \in Sessions!Token /\ held[l] \in 0..last /\ held[l] # 0 /\ of[held[l]] = l
      /\ l # 0 /\ usable \in BOOLEAN /\ last \in Nat
    BY <1>1 DEF Sessions!SessionTypes, Sessions!TokensHaveLogins, Sessions!Started,
       Sessions!Token, Sessions!SessionsAssumption
<1> DEFINE job == [Sessions!Nothing EXCEPT !.pc = "get", !.token = held[l], !.seen = usable]
<1>5. /\ job.pc = "get" /\ job.token = held[l] /\ job.new = 0 /\ job.seen = usable
      /\ job \in [pc : {"idle", "get", "find", "rotate", "answer"},
                  token : 0..last, new : 0..last, seen : BOOLEAN]
    <2>1. Sessions!Nothing \in [pc : {"idle", "get", "find", "rotate", "answer"},
                  token : 0..last, new : 0..last, seen : BOOLEAN]
        BY <1>4
    <2> QED BY <2>1, <1>4
<1> HIDE DEF job
<1>6. \A p \in Request : p # q => tokenJob'[p] = tokenJob[p]
    BY <1>1, <1>2 DEF Sessions!SessionTypes
<1>7. tokenJob'[q] = job
    BY <1>1, <1>2 DEF Sessions!SessionTypes, job
<1>8. /\ tokenJob'[q].pc = "get" /\ tokenJob'[q].token = held[l]
      /\ tokenJob'[q].new = 0 /\ tokenJob'[q].seen = usable
    BY <1>5, <1>7
<1>9. troubled \subseteq troubled' /\ \A x \in troubled' : x # l => x \in troubled
    BY <1>2
<1>10. Sessions!Others(q, held[l]) => l \in troubled'
    BY <1>2
<1>t. Sessions!SessionTypes'
    <2>1. tokenJob' \in [Request -> [pc : {"idle", "get", "find", "rotate", "answer"},
                            token : 0..last, new : 0..last, seen : BOOLEAN]]
        BY <1>1, <1>2, <1>5 DEF Sessions!SessionTypes, job
    <2> QED BY <2>1, <1>1, <1>3 DEF Sessions!SessionTypes, Sessions!Token
<1>0. Sessions!Token' = Sessions!Token /\ Sessions!Started' = Sessions!Started
    BY <1>3 DEF Sessions!Token, Sessions!Started
<1>l. Sessions!TokensHaveLogins'
    BY <1>0, <1>1, <1>3, <1>4, <1>6, <1>8 DEF Sessions!TokensHaveLogins
<1>u. Sessions!UntroubledAlone'
    <2>1. ASSUME NEW p \in Request, p # q, Sessions!Working(p), of[tokenJob[p].token] = l
          PROVE  l \in troubled'
        <3>1. tokenJob[p].token # 0 BY <1>1, <2>1 DEF Sessions!TokensHaveLogins
        <3>2. Sessions!Others(q, held[l]) BY <3>1, <2>1, <1>4 DEF Sessions!Others
        <3> QED BY <3>2, <1>10
    <2>2. l \notin troubled' => held[l] \in sessions
        <3> SUFFICES ASSUME l \notin troubled', held[l] \notin sessions PROVE FALSE
            OBVIOUS
        <3>1. l \notin troubled /\ l \in Sessions!Started /\ l \notin ended BY <1>9, <1>2
        <3>2. PICK p \in Request : tokenJob[p].pc = "answer" /\ tokenJob[p].token = held[l]
            BY <3>1 DEF Sessions!ClientsKeepTheirToken, Sessions!SessionsInv
        <3>3. p # q /\ Sessions!Working(p) BY <3>2, <1>3
        <3> QED BY <3>2, <3>3, <2>1, <1>4
    <2>3. ASSUME NEW p \in Request, tokenJob'[p].pc # "idle", of[tokenJob'[p].token] \notin troubled'
          PROVE  /\ of[tokenJob'[p].token] \notin ended
                 /\ tokenJob'[p].token = held[of[tokenJob'[p].token]]
                 /\ (IF tokenJob'[p].pc = "answer" THEN tokenJob'[p].new ELSE tokenJob'[p].token)
                        \in sessions
        <3>1. CASE p = q BY <3>1, <2>2, <2>3, <1>2, <1>4, <1>8
        <3>2. CASE p # q
            BY <3>2, <2>3, <1>6, <1>9 DEF Sessions!UntroubledAlone, Sessions!SessionsInv
        <3> QED BY <3>1, <3>2
    <2>4. ASSUME NEW p \in Request, NEW r \in Request, tokenJob'[p].pc # "idle", tokenJob'[r].pc # "idle",
                 of[tokenJob'[p].token] = of[tokenJob'[r].token], of[tokenJob'[p].token] \notin troubled'
          PROVE  p = r
        <3>1. CASE p # q /\ r # q
            BY <3>1, <2>4, <1>6, <1>9 DEF Sessions!UntroubledAlone, Sessions!SessionsInv
        <3>2. CASE p = q /\ r # q BY <3>2, <2>4, <2>1, <1>4, <1>6, <1>8
        <3>3. CASE p # q /\ r = q BY <3>3, <2>4, <2>1, <1>4, <1>6, <1>8
        <3> QED BY <3>1, <3>2, <3>3
    <2> QED BY <2>3, <2>4, <1>3 DEF Sessions!UntroubledAlone
<1>s. Sessions!UsableSeen'
    BY <1>3, <1>6, <1>8 DEF Sessions!UsableSeen, Sessions!SessionsInv
<1>o. Sessions!OneTokenPerLogin'
    BY <1>3 DEF Sessions!OneTokenPerLogin, Sessions!SessionsInv
<1>c. Sessions!ClientsKeepTheirToken'
    BY <1>0, <1>3, <1>6, <1>9 DEF Sessions!ClientsKeepTheirToken, Sessions!SessionsInv, Sessions!Chain
<1> QED BY <1>t, <1>l, <1>u, <1>s, <1>o, <1>c DEF Sessions!SessionsInv

\* The account's state changes: the requests under way see it usable from now on,
\* if it is.
LEMMA SessionsChangeAccount ==
    ASSUME Sessions!SessionsAssumption, Sessions!SessionsInv, Sessions!ChangeAccount
    PROVE  Sessions!SessionsInv'
<1> USE NoSessionJob DEF Sessions!Working, Sessions!LoginOf
<1>1. Sessions!SessionTypes /\ Sessions!TokensHaveLogins BY DEF Sessions!SessionsInv
<1>2. /\ usable' = ~usable /\ UNCHANGED <<sessions, last, held, of, ended, troubled>>
      /\ tokenJob' = [p \in Request |-> [tokenJob[p] EXCEPT
                         !.seen = @ \/ (tokenJob[p].pc # "idle" /\ usable')]]
    BY DEF Sessions!ChangeAccount
<1>3. \A p \in Request : tokenJob[p] \in
             [pc : {"idle", "get", "find", "rotate", "answer"},
              token : 0..last, new : 0..last, seen : BOOLEAN]
    BY <1>1 DEF Sessions!SessionTypes
<1>4. usable \in BOOLEAN /\ usable' \in BOOLEAN
    BY <1>1, <1>2 DEF Sessions!SessionTypes
<1>5. ASSUME NEW p \in Request
      PROVE  /\ tokenJob'[p] \in
                    [pc : {"idle", "get", "find", "rotate", "answer"},
                     token : 0..last, new : 0..last, seen : BOOLEAN]
             /\ tokenJob'[p].pc = tokenJob[p].pc /\ tokenJob'[p].token = tokenJob[p].token
             /\ tokenJob'[p].new = tokenJob[p].new
             /\ tokenJob[p].seen => tokenJob'[p].seen
             /\ tokenJob[p].pc # "idle" /\ usable' => tokenJob'[p].seen
             /\ tokenJob[p].pc = "idle" => tokenJob'[p] = tokenJob[p]
    <2> DEFINE seen == tokenJob[p].seen \/ (tokenJob[p].pc # "idle" /\ usable')
    <2>1. tokenJob'[p] = [tokenJob[p] EXCEPT !.seen = seen]
        BY <1>2
    <2>2. seen \in BOOLEAN /\ tokenJob[p].seen \in BOOLEAN BY <1>3, <1>4
    <2>3. tokenJob[p].seen => seen BY <2>2
    <2>4. tokenJob[p].pc # "idle" /\ usable' => seen BY <1>4
    <2>5. tokenJob[p].pc = "idle" => seen = tokenJob[p].seen BY <2>2
    <2>6. DOMAIN tokenJob[p] = {"pc", "token", "new", "seen"} BY <1>3
    <2> HIDE DEF seen
    <2>7. tokenJob'[p].seen = seen BY <2>1, <2>6
    <2>8. tokenJob'[p].pc = tokenJob[p].pc /\ tokenJob'[p].token = tokenJob[p].token
             /\ tokenJob'[p].new = tokenJob[p].new
        BY <2>1, <2>6
    <2>9. tokenJob'[p] \in [pc : {"idle", "get", "find", "rotate", "answer"},
                     token : 0..last, new : 0..last, seen : BOOLEAN]
        BY <2>1, <2>2, <1>3
    <2>10. seen = tokenJob[p].seen => tokenJob'[p] = tokenJob[p]
        BY <2>1, <1>3
    <2> QED BY <2>3, <2>4, <2>5, <2>7, <2>8, <2>9, <2>10
<1>6. \A p \in Request :
         /\ tokenJob'[p].pc = tokenJob[p].pc /\ tokenJob'[p].token = tokenJob[p].token
         /\ tokenJob'[p].new = tokenJob[p].new
         /\ tokenJob[p].pc = "idle" => tokenJob'[p] = tokenJob[p]
    BY <1>5
<1>t. Sessions!SessionTypes'
    <2>1. tokenJob' \in [Request -> [pc : {"idle", "get", "find", "rotate", "answer"},
                            token : 0..last, new : 0..last, seen : BOOLEAN]]
        BY <1>2, <1>5
    <2> QED BY <2>1, <1>1, <1>2, <1>4 DEF Sessions!SessionTypes, Sessions!Token
<1>0. Sessions!Token' = Sessions!Token /\ Sessions!Started' = Sessions!Started
    BY <1>2 DEF Sessions!Token, Sessions!Started
<1>l. Sessions!TokensHaveLogins'
    <2>1. \A p \in Request : IF Sessions!Working(p)'
                            THEN tokenJob'[p].token # 0 /\ of'[tokenJob'[p].token] # 0
                            ELSE tokenJob'[p] = Sessions!Nothing
        BY <1>1, <1>2, <1>6 DEF Sessions!TokensHaveLogins
    <2>2. \A p \in Request : tokenJob'[p].pc = "answer" =>
              tokenJob'[p].new # 0 /\ of'[tokenJob'[p].new] = of'[tokenJob'[p].token]
        BY <1>1, <1>2, <1>6 DEF Sessions!TokensHaveLogins
    <2> HIDE <1>6
    <2> QED BY <1>0, <1>1, <1>2, <2>1, <2>2 DEF Sessions!TokensHaveLogins
<1>u. Sessions!UntroubledAlone'
    <2> HIDE NoSessionJob
    <2>1. Sessions!UntroubledAlone BY DEF Sessions!SessionsInv
    <2>2. \A p \in Request : /\ Sessions!Working(p)' <=> Sessions!Working(p)
                            /\ Sessions!LoginOf(p)' = Sessions!LoginOf(p)
        BY <1>2, <1>6
    <2>3. \A p \in Request : (IF tokenJob[p].pc = "answer" THEN tokenJob[p].new
                                                        ELSE tokenJob[p].token)'
                         = IF tokenJob[p].pc = "answer" THEN tokenJob[p].new ELSE tokenJob[p].token
        BY <1>6
    <2>4. \A p \in Request : tokenJob'[p].token = tokenJob[p].token
        BY <1>6
    <2>5. UNCHANGED <<sessions, held, ended, troubled>> BY <1>2
    <2> HIDE DEF Sessions!Working, Sessions!LoginOf
    <2> QED BY <2>1, <2>2, <2>3, <2>4, <2>5 DEF Sessions!UntroubledAlone
<1>s. Sessions!UsableSeen'
    BY <1>5 DEF Sessions!UsableSeen, Sessions!SessionsInv
<1>o. Sessions!OneTokenPerLogin'
    BY <1>2 DEF Sessions!OneTokenPerLogin, Sessions!SessionsInv
<1>c. Sessions!ClientsKeepTheirToken'
    <2>1. Sessions!ClientsKeepTheirToken BY DEF Sessions!SessionsInv
    <2>2. \A t, p : p \in Request /\ tokenJob[p].pc = "answer" /\ tokenJob[p].token = t
                   => tokenJob'[p].pc = "answer" /\ tokenJob'[p].token = t
        BY <1>6
    <2>3. UNCHANGED <<sessions, of, held, ended, troubled>> BY <1>2
    <2> QED BY <1>0, <2>1, <2>2, <2>3 DEF Sessions!ClientsKeepTheirToken, Sessions!Chain
<1> QED BY <1>t, <1>l, <1>u, <1>s, <1>o, <1>c DEF Sessions!SessionsInv

\* What the invariant says of a request at work, in terms of its record.
LEMMA SessionsAtWork ==
    ASSUME Sessions!SessionsAssumption, Sessions!SessionsInv, NEW p \in Request,
           tokenJob[p].pc # "idle"
    PROVE  LET l == of[tokenJob[p].token]
               x == IF tokenJob[p].pc = "answer" THEN tokenJob[p].new ELSE tokenJob[p].token
           IN  /\ tokenJob[p].token \in Sessions!Token /\ tokenJob[p].token # 0
               /\ l \in Sessions!Started /\ l # 0
               /\ x \in Sessions!Token /\ of[x] = l
               /\ l \notin troubled => /\ l \notin ended /\ tokenJob[p].token = held[l]
                                       /\ x \in sessions
<1>1. Sessions!SessionTypes /\ Sessions!TokensHaveLogins /\ Sessions!UntroubledAlone
    BY DEF Sessions!SessionsInv
<1>2. /\ tokenJob[p].token \in 0..last /\ tokenJob[p].new \in 0..last
      /\ last \in 0..MaxToken /\ last \in Nat /\ MaxToken \in Nat
    BY <1>1 DEF Sessions!SessionTypes, Sessions!SessionsAssumption
<1>3. tokenJob[p].token # 0 /\ of[tokenJob[p].token] # 0
    BY <1>1 DEF Sessions!TokensHaveLogins, Sessions!Working, Sessions!LoginOf
<1>4. tokenJob[p].pc = "answer" =>
          tokenJob[p].new # 0 /\ of[tokenJob[p].new] = of[tokenJob[p].token]
    BY <1>1 DEF Sessions!TokensHaveLogins, Sessions!LoginOf
<1>5. tokenJob[p].token \in Sessions!Token
      /\ (tokenJob[p].new # 0 => tokenJob[p].new \in Sessions!Token)
    BY <1>2, <1>3 DEF Sessions!Token
<1>6. of[tokenJob[p].token] \in Sessions!Started
    BY <1>1, <1>3, <1>5 DEF Sessions!TokensHaveLogins
<1>7. of[tokenJob[p].token] \notin troubled =>
         /\ of[tokenJob[p].token] \notin ended
         /\ tokenJob[p].token = held[of[tokenJob[p].token]]
         /\ (IF tokenJob[p].pc = "answer" THEN tokenJob[p].new ELSE tokenJob[p].token) \in sessions
    BY <1>1 DEF Sessions!UntroubledAlone, Sessions!Working, Sessions!LoginOf
<1> QED BY <1>3, <1>4, <1>5, <1>6, <1>7

LEMMA SessionsAlone ==
    ASSUME Sessions!SessionsInv, NEW p \in Request, NEW r \in Request,
           tokenJob[p].pc # "idle", tokenJob[r].pc # "idle",
           of[tokenJob[p].token] = of[tokenJob[r].token], of[tokenJob[p].token] \notin troubled
    PROVE  p = r
BY DEF Sessions!SessionsInv, Sessions!UntroubledAlone, Sessions!Working, Sessions!LoginOf

\* What the invariant says of a login.
LEMMA SessionsOfLogin ==
    ASSUME Sessions!SessionsAssumption, Sessions!SessionsInv, NEW l \in Sessions!Started
    PROVE  /\ l \in Sessions!Token /\ of[l] = l /\ l # 0 /\ l \in Nat
           /\ held[l] \in Sessions!Token /\ of[held[l]] = l
           /\ l \in ended /\ l \notin troubled => (\A t \in sessions : of[t] # l)
           /\ l \notin ended /\ l \notin troubled =>
                 \/ held[l] \in sessions
                 \/ \E q \in Request : tokenJob[q].pc = "answer" /\ tokenJob[q].token = held[l]
<1>1. Sessions!SessionTypes /\ Sessions!TokensHaveLogins /\ Sessions!ClientsKeepTheirToken
    BY DEF Sessions!SessionsInv
<1>2. l \in Sessions!Token /\ of[l] = l /\ l \in Nat /\ l # 0 /\ last \in 0..MaxToken
      /\ MaxToken \in Nat
    BY <1>1 DEF Sessions!Started, Sessions!Token, Sessions!SessionsAssumption,
       Sessions!SessionTypes
<1>3. held[l] # 0 /\ of[held[l]] = l /\ held[l] \in 0..last
    BY <1>1, <1>2 DEF Sessions!TokensHaveLogins, Sessions!SessionTypes
<1>4. held[l] \in Sessions!Token BY <1>2, <1>3 DEF Sessions!Token
<1>5. sessions \subseteq Sessions!Token
    BY <1>1, <1>2 DEF Sessions!SessionTypes, Sessions!Token
<1>6. l \in ended /\ l \notin troubled => (\A t \in sessions : of[t] # l)
    BY <1>1, <1>5 DEF Sessions!ClientsKeepTheirToken, Sessions!Chain
<1> QED BY <1>1, <1>2, <1>3, <1>4, <1>6 DEF Sessions!ClientsKeepTheirToken

\* A token's time is over.
LEMMA SessionsExpire ==
    ASSUME Sessions!SessionsAssumption, Sessions!SessionsInv, Sessions!Expire
    PROVE  Sessions!SessionsInv'
<1>1. Sessions!SessionTypes /\ Sessions!TokensHaveLogins BY DEF Sessions!SessionsInv
<1>2. PICK t \in sessions : sessions' = sessions \ {t} /\ troubled' = troubled \cup {of[t]}
    BY DEF Sessions!Expire
<1>3. UNCHANGED <<last, usable, tokenJob, held, of, ended>>
    BY DEF Sessions!Expire
<1>0. Sessions!Token' = Sessions!Token /\ Sessions!Started' = Sessions!Started
    BY <1>3 DEF Sessions!Token, Sessions!Started
<1>t. Sessions!SessionTypes' BY <1>0, <1>1, <1>2, <1>3 DEF Sessions!SessionTypes
<1>l. Sessions!TokensHaveLogins'
    BY <1>0, <1>1, <1>2, <1>3
       DEF Sessions!TokensHaveLogins, Sessions!Working, Sessions!LoginOf
<1>u. Sessions!UntroubledAlone'
    <2>1. ASSUME NEW p \in Request, tokenJob[p].pc # "idle", of[tokenJob[p].token] \notin troubled'
          PROVE  /\ of[tokenJob[p].token] \notin ended
                 /\ tokenJob[p].token = held[of[tokenJob[p].token]]
                 /\ (IF tokenJob[p].pc = "answer" THEN tokenJob[p].new ELSE tokenJob[p].token)
                        \in sessions'
        BY <2>1, <1>2, SessionsAtWork
    <2>2. \A p, r \in Request : tokenJob[p].pc # "idle" /\ tokenJob[r].pc # "idle" /\
               of[tokenJob[p].token] = of[tokenJob[r].token] /\ of[tokenJob[p].token] \notin troubled'
               => p = r
        BY <1>2, SessionsAlone
    <2> QED BY <2>1, <2>2, <1>3 DEF Sessions!UntroubledAlone, Sessions!Working, Sessions!LoginOf
<1>s. Sessions!UsableSeen'
    BY <1>3 DEF Sessions!UsableSeen, Sessions!SessionsInv, Sessions!Working
<1>o. Sessions!OneTokenPerLogin'
    BY <1>2, <1>3 DEF Sessions!OneTokenPerLogin, Sessions!SessionsInv
<1>c. Sessions!ClientsKeepTheirToken'
    <2>1. ASSUME NEW l \in Sessions!Started, l \notin troubled'
          PROVE  /\ l \in ended => (\A x \in sessions' : of[x] # l)
                 /\ l \notin ended =>
                       \/ held[l] \in sessions'
                       \/ \E q \in Request : tokenJob[q].pc = "answer" /\ tokenJob[q].token = held[l]
        BY <2>1, <1>2, SessionsOfLogin
    <2>2. ASSUME NEW l, \A x \in sessions' : of[x] # l
          PROVE  Sessions!Chain(l)' \cap sessions' = {}
        BY <2>2, <1>3 DEF Sessions!Chain
    <2> QED BY <2>1, <2>2, <1>0, <1>3 DEF Sessions!ClientsKeepTheirToken
<1> QED BY <1>t, <1>l, <1>u, <1>s, <1>o, <1>c DEF Sessions!SessionsInv

\* The client hears of the new token, or does not.
LEMMA SessionsAnswer ==
    ASSUME Sessions!SessionsAssumption, Sessions!SessionsInv, NEW q \in Request,
           Sessions!Answer(q)
    PROVE  Sessions!SessionsInv'
<1>1. Sessions!SessionTypes /\ Sessions!TokensHaveLogins BY DEF Sessions!SessionsInv
<1> DEFINE l == of[tokenJob[q].token]
           new == tokenJob[q].new
<1>2. /\ tokenJob[q].pc = "answer" /\ tokenJob' = [tokenJob EXCEPT ![q] = Sessions!Nothing]
      /\ \/ held' = [held EXCEPT ![l] = new] /\ UNCHANGED troubled
         \/ troubled' = troubled \cup {l} /\ UNCHANGED held
      /\ UNCHANGED <<sessions, last, usable, of, ended>>
    BY DEF Sessions!Answer, Sessions!Fail, Sessions!Become
<1>3. /\ \A p \in Request : p # q => tokenJob'[p] = tokenJob[p]
      /\ tokenJob'[q] = Sessions!Nothing
    BY <1>1, <1>2 DEF Sessions!SessionTypes
<1>4. /\ l \in Sessions!Started /\ l \in Sessions!Token /\ new \in Sessions!Token
      /\ of[new] = l /\ new \in 0..last /\ new # 0
      /\ l \notin troubled => l \notin ended /\ new \in sessions
    <2>1. new \in 0..last /\ new # 0
        BY <1>1, <1>2 DEF Sessions!SessionTypes, Sessions!TokensHaveLogins
    <2> QED BY <2>1, <1>2, SessionsAtWork DEF Sessions!Started
<1>5. /\ \A x \in Sessions!Token : x # l => held'[x] = held[x]
      /\ held'[l] = new \/ (held'[l] = held[l] /\ l \in troubled')
      /\ \A x \in Sessions!Token : x # l /\ x \notin troubled' => x \notin troubled
      /\ l \notin troubled' => l \notin troubled /\ held'[l] = new
    BY <1>1, <1>2, <1>4 DEF Sessions!SessionTypes
<1>0. Sessions!Token' = Sessions!Token /\ Sessions!Started' = Sessions!Started
    BY <1>2 DEF Sessions!Token, Sessions!Started
<1> HIDE DEF l, new
<1>t. Sessions!SessionTypes'
    <2>1. last \in Nat BY <1>1 DEF Sessions!SessionTypes, Sessions!SessionsAssumption
    <2>2. tokenJob' \in [Request -> [pc : {"idle", "get", "find", "rotate", "answer"},
                            token : 0..last, new : 0..last, seen : BOOLEAN]]
        BY <2>1, <1>1, <1>2, NoSessionJob DEF Sessions!SessionTypes
    <2>3. held' \in [Sessions!Token -> 0..last]
        BY <1>1, <1>2, <1>4 DEF Sessions!SessionTypes
    <2> QED BY <2>2, <2>3, <1>0, <1>1, <1>2 DEF Sessions!SessionTypes
<1>l. Sessions!TokensHaveLogins'
    <2>1. \A p \in Request : IF tokenJob'[p].pc # "idle"
                            THEN tokenJob'[p].token # 0 /\ of[tokenJob'[p].token] # 0
                            ELSE tokenJob'[p] = Sessions!Nothing
        BY <1>1, <1>3, NoSessionJob
           DEF Sessions!TokensHaveLogins, Sessions!Working, Sessions!LoginOf
    <2>2. \A p \in Request : tokenJob'[p].pc = "answer" =>
              tokenJob'[p].new # 0 /\ of[tokenJob'[p].new] = of[tokenJob'[p].token]
        BY <1>1, <1>3, NoSessionJob DEF Sessions!TokensHaveLogins, Sessions!LoginOf
    <2>3. \A x \in Sessions!Started : held'[x] # 0 /\ of[held'[x]] = x
        <3> TAKE x \in Sessions!Started
        <3>1. x \in Sessions!Token BY DEF Sessions!Started
        <3>2. held[x] # 0 /\ of[held[x]] = x BY <1>1 DEF Sessions!TokensHaveLogins
        <3> QED BY <3>1, <3>2, <1>4, <1>5
    <2> QED BY <2>1, <2>2, <2>3, <1>0, <1>1, <1>2
            DEF Sessions!TokensHaveLogins, Sessions!Working, Sessions!LoginOf
<1>6. \A p \in Request : tokenJob'[p].pc # "idle" => p # q
    BY <1>3, NoSessionJob
<1>u. Sessions!UntroubledAlone'
    <2>1. ASSUME NEW p \in Request, tokenJob'[p].pc # "idle",
                 of[tokenJob'[p].token] \notin troubled'
          PROVE  /\ of[tokenJob'[p].token] \notin ended
                 /\ tokenJob'[p].token = held'[of[tokenJob'[p].token]]
                 /\ (IF tokenJob'[p].pc = "answer" THEN tokenJob'[p].new ELSE tokenJob'[p].token)
                        \in sessions
        <3>1. p # q /\ tokenJob'[p] = tokenJob[p] BY <2>1, <1>3, <1>6
        <3>2. of[tokenJob[p].token] # l
            BY <2>1, <3>1, <1>2, <1>5, SessionsAlone DEF l
        <3>3. of[tokenJob[p].token] \in Sessions!Token
            BY <2>1, <3>1, SessionsAtWork DEF Sessions!Started
        <3>4. of[tokenJob[p].token] \notin troubled BY <2>1, <3>1, <3>2, <3>3, <1>5
        <3> QED BY <2>1, <3>1, <3>2, <3>3, <3>4, <1>5, SessionsAtWork
    <2>2. ASSUME NEW p \in Request, NEW r \in Request, tokenJob'[p].pc # "idle",
                 tokenJob'[r].pc # "idle", of[tokenJob'[p].token] = of[tokenJob'[r].token],
                 of[tokenJob'[p].token] \notin troubled'
          PROVE  p = r
        <3>1. p # q /\ r # q /\ tokenJob'[p] = tokenJob[p] /\ tokenJob'[r] = tokenJob[r]
            BY <2>2, <1>3, <1>6
        <3>2. of[tokenJob[p].token] \notin troubled BY <2>2, <3>1, <1>2
        <3> QED BY <2>2, <3>1, <3>2, SessionsAlone
    <2> QED BY <2>1, <2>2, <1>2 DEF Sessions!UntroubledAlone, Sessions!Working, Sessions!LoginOf
<1>s. Sessions!UsableSeen'
    BY <1>2, <1>3, NoSessionJob DEF Sessions!UsableSeen, Sessions!SessionsInv, Sessions!Working
<1>o. Sessions!OneTokenPerLogin'
    BY <1>2 DEF Sessions!OneTokenPerLogin, Sessions!SessionsInv
<1>c. Sessions!ClientsKeepTheirToken'
    <2>1. ASSUME NEW m \in Sessions!Started, m \notin troubled'
          PROVE  /\ m \in ended => (\A x \in sessions : of[x] # m)
                 /\ m \notin ended =>
                       \/ held'[m] \in sessions
                       \/ \E p \in Request : tokenJob'[p].pc = "answer" /\ tokenJob'[p].token = held'[m]
        <3>1. CASE m = l BY <3>1, <2>1, <1>4, <1>5
        <3>2. CASE m # l
            <4>1. held'[m] = held[m] /\ m \notin troubled /\ of[held[m]] = m
                BY <3>2, <2>1, <1>5, SessionsOfLogin
            <4>2. \A p \in Request : tokenJob[p].token = held[m] => p # q
                BY <4>1, <3>2 DEF l
            <4> QED BY <4>1, <4>2, <1>3, SessionsOfLogin
        <3> QED BY <3>1, <3>2
    <2>2. ASSUME NEW m, \A x \in sessions : of[x] # m
          PROVE  Sessions!Chain(m)' \cap sessions = {}
        BY <2>2, <1>2 DEF Sessions!Chain
    <2> QED BY <2>1, <2>2, <1>0, <1>2 DEF Sessions!ClientsKeepTheirToken
<1> QED BY <1>t, <1>l, <1>u, <1>s, <1>o, <1>c DEF Sessions!SessionsInv

\* A client leaves: whoever else works on its login has lost track of it.
LEMMA SessionsLogout ==
    ASSUME Sessions!SessionsAssumption, Sessions!SessionsInv, NEW q \in Request,
           Sessions!Logout(q)
    PROVE  Sessions!SessionsInv'
<1>1. Sessions!SessionTypes /\ Sessions!TokensHaveLogins BY DEF Sessions!SessionsInv
<1>2. PICK l \in Sessions!Started \ ended :
          /\ ended' = ended \cup {l}
          /\ \/ /\ sessions' = sessions \ {held[l]}
                /\ troubled' = IF Sessions!Others(q, held[l]) THEN troubled \cup {l} ELSE troubled
             \/ UNCHANGED sessions /\ troubled' = troubled \cup {l}
    BY DEF Sessions!Logout
<1>3. tokenJob[q].pc = "idle" /\ UNCHANGED <<last, usable, tokenJob, held, of>>
    BY DEF Sessions!Logout
<1>4. l \in Sessions!Token /\ of[l] = l /\ held[l] \in Sessions!Token /\ of[held[l]] = l
    BY <1>2, SessionsOfLogin
<1>5. ASSUME NEW p \in Request, tokenJob[p].pc # "idle", of[tokenJob[p].token] = l
      PROVE  l \in troubled'
    <2>1. p # q /\ tokenJob[p].token # 0 BY <1>3, <1>5, SessionsAtWork
    <2>2. Sessions!Others(q, held[l]) BY <2>1, <1>4, <1>5 DEF Sessions!Others
    <2> QED BY <2>2, <1>2
<1>6. /\ \A x \in troubled : x \in troubled'
      /\ l \in troubled' \/ sessions' = sessions \ {held[l]}
      /\ sessions' \subseteq sessions
      /\ \A x \in sessions : x # held[l] => x \in sessions'
    BY <1>2
<1>0. Sessions!Token' = Sessions!Token /\ Sessions!Started' = Sessions!Started
    BY <1>3 DEF Sessions!Token, Sessions!Started
<1>t. Sessions!SessionTypes' BY <1>0, <1>1, <1>3, <1>6 DEF Sessions!SessionTypes
<1>l. Sessions!TokensHaveLogins'
    BY <1>0, <1>1, <1>2, <1>3, <1>6
       DEF Sessions!TokensHaveLogins, Sessions!Working, Sessions!LoginOf
<1>u. Sessions!UntroubledAlone'
    <2>1. ASSUME NEW p \in Request, tokenJob[p].pc # "idle", of[tokenJob[p].token] \notin troubled'
          PROVE  /\ of[tokenJob[p].token] \notin ended'
                 /\ tokenJob[p].token = held[of[tokenJob[p].token]]
                 /\ (IF tokenJob[p].pc = "answer" THEN tokenJob[p].new ELSE tokenJob[p].token)
                        \in sessions'
        <3>1. of[tokenJob[p].token] # l BY <2>1, <1>5
        <3> QED BY <2>1, <3>1, <1>2, <1>4, <1>6, SessionsAtWork
    <2>2. \A p, r \in Request : tokenJob[p].pc # "idle" /\ tokenJob[r].pc # "idle" /\
               of[tokenJob[p].token] = of[tokenJob[r].token] /\ of[tokenJob[p].token] \notin troubled'
               => p = r
        BY <1>6, SessionsAlone
    <2> QED BY <2>1, <2>2, <1>3 DEF Sessions!UntroubledAlone, Sessions!Working, Sessions!LoginOf
<1>s. Sessions!UsableSeen'
    BY <1>3 DEF Sessions!UsableSeen, Sessions!SessionsInv, Sessions!Working
<1>o. Sessions!OneTokenPerLogin'
    BY <1>6, <1>3 DEF Sessions!OneTokenPerLogin, Sessions!SessionsInv
<1>c. Sessions!ClientsKeepTheirToken'
    <2>1. ASSUME NEW m \in Sessions!Started, m \notin troubled'
          PROVE  /\ m \in ended' => (\A x \in sessions' : of[x] # m)
                 /\ m \notin ended' =>
                       \/ held[m] \in sessions'
                       \/ \E p \in Request : tokenJob[p].pc = "answer" /\ tokenJob[p].token = held[m]
        <3>1. m \notin troubled BY <2>1, <1>6
        <3>2. CASE m # l
            <4>1. held[m] # held[l] BY <3>2, <2>1, <1>4, SessionsOfLogin
            <4> QED BY <4>1, <3>1, <3>2, <1>2, <1>6, SessionsOfLogin
        <3>3. CASE m = l
            <4>1. m \in ended' /\ l \notin ended BY <3>3, <1>2
            <4>2. sessions' = sessions \ {held[l]} BY <3>3, <2>1, <1>6
            <4>3. held[l] \in sessions
                <5>1. \A p \in Request : ~(tokenJob[p].pc = "answer" /\ tokenJob[p].token = held[l])
                    BY <3>3, <2>1, <1>4, <1>5
                <5> QED BY <5>1, <4>1, <3>1, <3>3, SessionsOfLogin
            <4>4. \A x \in sessions : of[x] = l => x = held[l]
                BY <4>3, <1>4 DEF Sessions!OneTokenPerLogin, Sessions!SessionsInv
            <4> QED BY <4>1, <4>2, <4>4, <3>3
        <3> QED BY <3>2, <3>3
    <2>2. ASSUME NEW m, \A x \in sessions' : of[x] # m
          PROVE  Sessions!Chain(m)' \cap sessions' = {}
        BY <2>2, <1>3 DEF Sessions!Chain
    <2> QED BY <2>1, <2>2, <1>0, <1>3 DEF Sessions!ClientsKeepTheirToken
<1> QED BY <1>t, <1>l, <1>u, <1>s, <1>o, <1>c DEF Sessions!SessionsInv

\* The script replaces the token presented by a new one, or does nothing; the
\* answer may be lost.
LEMMA SessionsRotate ==
    ASSUME Sessions!SessionsAssumption, Sessions!SessionsInv, NEW q \in Request,
           Sessions!Rotate(q)
    PROVE  Sessions!SessionsInv'
<1>1. Sessions!SessionTypes /\ Sessions!TokensHaveLogins BY DEF Sessions!SessionsInv
<1> DEFINE old == tokenJob[q].token
           new == last + 1
           l == of[old]
           answer == [tokenJob[q] EXCEPT !.pc = "answer", !.new = new]
           replaced == /\ old \in sessions /\ sessions' = (sessions \ {old}) \cup {new}
                       /\ of' = [of EXCEPT ![new] = l]
<1>2. /\ last' = new /\ last < MaxToken /\ tokenJob[q].pc = "rotate"
      /\ UNCHANGED <<usable, held, ended>>
      /\ \/ /\ replaced /\ UNCHANGED troubled
            /\ tokenJob' = [tokenJob EXCEPT ![q] = answer]
         \/ /\ replaced /\ troubled' = troubled \cup {l}
            /\ tokenJob' = [tokenJob EXCEPT ![q] = Sessions!Nothing]
         \/ /\ UNCHANGED <<sessions, of, troubled>>
            /\ tokenJob' = [tokenJob EXCEPT ![q] = Sessions!Nothing]
    BY DEF Sessions!Rotate, Sessions!Become, Sessions!Fail
<1>3. /\ last \in Nat /\ MaxToken \in Nat /\ new \in 1..MaxToken /\ last < new /\ new # 0
      /\ new \in Nat
    BY <1>1, <1>2 DEF Sessions!SessionTypes, Sessions!SessionsAssumption
<1>4. /\ \A x \in 0..last : x \in 0..new /\ x # new
      /\ \A x \in 1..last : x \in 1..new /\ x # new /\ x \in Sessions!Token
      /\ new \in Sessions!Token /\ new \in 0..new /\ new \in 1..new /\ new \in 0..MaxToken
      /\ \A x \in Sessions!Token : x \in Nat /\ (x > new => x > last)
    BY <1>3 DEF Sessions!Token
<1>5. /\ \A p \in Request : tokenJob[p] \in
             [pc : {"idle", "get", "find", "rotate", "answer"},
              token : 0..last, new : 0..last, seen : BOOLEAN]
      /\ \A p \in Request : p # q => tokenJob'[p] = tokenJob[p]
      /\ tokenJob'[q] = answer \/ tokenJob'[q] = Sessions!Nothing
    BY <1>1, <1>2 DEF Sessions!SessionTypes
<1>6. /\ answer.pc = "answer" /\ answer.token = old /\ answer.new = new
      /\ answer.seen = tokenJob[q].seen
      /\ answer \in [pc : {"idle", "get", "find", "rotate", "answer"},
                     token : 0..new, new : 0..new, seen : BOOLEAN]
    <2>1. tokenJob[q] \in [pc : {"idle", "get", "find", "rotate", "answer"},
              token : 0..last, new : 0..last, seen : BOOLEAN] BY <1>5
    <2>2. tokenJob[q].token \in 0..new BY <2>1, <1>4
    <2> QED BY <2>1, <2>2, <1>4
<1>7. /\ old \in Sessions!Token /\ l \in Sessions!Started /\ l # 0
      /\ l \notin troubled => l \notin ended /\ old = held[l] /\ old \in sessions
    BY <1>2, SessionsAtWork
<1>8. of[new] = 0
    BY <1>1, <1>3, <1>4 DEF Sessions!TokensHaveLogins
<1> HIDE DEF answer, new, l, old
<1>r. replaced => /\ old \in sessions /\ of'[new] = l /\ sessions' = (sessions \ {old}) \cup {new}
                  /\ \A x \in Sessions!Token : x # new => of'[x] = of[x]
    BY <1>1, <1>4 DEF Sessions!SessionTypes
<1>a. /\ tokenJob' = [tokenJob EXCEPT ![q] = answer] => tokenJob'[q] = answer
      /\ tokenJob' = [tokenJob EXCEPT ![q] = Sessions!Nothing] => tokenJob'[q] = Sessions!Nothing
    BY <1>1 DEF Sessions!SessionTypes
<1> HIDE DEF replaced
<1>9. /\ \A x \in Sessions!Token : x # new => of'[x] = of[x]
      /\ of'[new] \in {0, l}
      /\ \/ /\ old \in sessions /\ of'[new] = l
            /\ sessions' = (sessions \ {old}) \cup {new}
         \/ of'[new] = 0 /\ sessions' = sessions
    <2>1. CASE replaced BY <2>1, <1>r
    <2>2. CASE UNCHANGED <<sessions, of>> BY <2>2, <1>8
    <2> QED BY <2>1, <2>2, <1>2
<1>10. /\ tokenJob'[q] = Sessions!Nothing \/ (tokenJob'[q] = answer /\ of'[new] = l /\ new \in sessions')
       /\ l \in troubled' \/ sessions' = sessions \/ tokenJob'[q] = answer
       /\ tokenJob'[q] = answer => troubled' = troubled
       /\ \A x \in troubled : x \in troubled'
       /\ \A x \in troubled' : x # l => x \in troubled
    <2>1. CASE tokenJob'[q] = answer
        <3>1. Sessions!Nothing # answer BY <1>6, NoSessionJob
        <3>2. replaced /\ UNCHANGED troubled BY <2>1, <3>1, <1>2, <1>a
        <3> QED BY <2>1, <3>2, <1>r
    <2>2. CASE tokenJob'[q] # answer
        <3>1. /\ tokenJob'[q] = Sessions!Nothing
              /\ troubled' = troubled \cup {l} \/ UNCHANGED <<sessions, troubled>>
            BY <2>2, <1>2, <1>a
        <3> QED BY <2>2, <3>1
    <2> QED BY <2>1, <2>2
<1>11. sessions \subseteq Sessions!Token /\ new \notin sessions
    BY <1>1, <1>4 DEF Sessions!SessionTypes
<1>12. new \notin Sessions!Started /\ l # new
    <2>1. new \notin Sessions!Started BY <1>3, <1>8 DEF Sessions!Started
    <2> QED BY <2>1, <1>7
<1>13. Sessions!Token' = Sessions!Token /\ Sessions!Started' = Sessions!Started
    <2>1. Sessions!Token' = Sessions!Token BY DEF Sessions!Token
    <2>2. \A x \in Sessions!Token : of'[x] = x <=> of[x] = x
        BY <1>3, <1>8, <1>9, <1>12
    <2> QED BY <2>1, <2>2 DEF Sessions!Started
<1>t. Sessions!SessionTypes'
    <2>1. sessions' \subseteq 1..new
        BY <1>1, <1>4, <1>9 DEF Sessions!SessionTypes
    <2>2. held \in [Sessions!Token -> 0..new]
        BY <1>1, <1>4 DEF Sessions!SessionTypes
    <2>3. of' \in [Sessions!Token -> 0..new]
        <3>1. of \in [Sessions!Token -> 0..new] BY <1>1, <1>4 DEF Sessions!SessionTypes
        <3>2. l \in 0..new BY <3>1, <1>7 DEF l
        <3>3. of' = [of EXCEPT ![new] = l] \/ of' = of BY <1>2 DEF replaced
        <3> QED BY <3>1, <3>2, <3>3
    <2>4. tokenJob' \in [Request -> [pc : {"idle", "get", "find", "rotate", "answer"},
                            token : 0..new, new : 0..new, seen : BOOLEAN]]
        <3>1. \A p \in Request : tokenJob'[p] \in
                   [pc : {"idle", "get", "find", "rotate", "answer"},
                            token : 0..new, new : 0..new, seen : BOOLEAN]
            BY <1>3, <1>4, <1>5, <1>6, NoSessionJob
        <3>2. DOMAIN tokenJob' = Request /\ tokenJob' = [p \in Request |-> tokenJob'[p]]
            BY <1>1, <1>2 DEF Sessions!SessionTypes
        <3> QED BY <3>1, <3>2
    <2> QED BY <2>1, <2>2, <2>3, <2>4, <1>1, <1>2, <1>4, <1>13 DEF Sessions!SessionTypes
<1>14. ASSUME NEW p \in Request, p # q, tokenJob'[p].pc # "idle"
       PROVE  /\ tokenJob'[p] = tokenJob[p] /\ tokenJob[p].pc # "idle"
              /\ tokenJob[p].token \in Sessions!Token /\ tokenJob[p].token # new
              /\ of'[tokenJob[p].token] = of[tokenJob[p].token]
              /\ tokenJob[p].new # new
              /\ of[tokenJob[p].token] = l => l \in troubled
    <2>1. tokenJob'[p] = tokenJob[p] /\ tokenJob[p].token # new /\ tokenJob[p].new # new
        BY <1>14, <1>4, <1>5
    <2>2. tokenJob[p].token \in Sessions!Token BY <2>1, <1>14, SessionsAtWork
    <2>3. of[tokenJob[p].token] = l => l \in troubled
        BY <2>1, <1>14, <1>2, SessionsAlone DEF l, old
    <2> QED BY <2>1, <2>2, <2>3, <1>9, <1>14
<1>l. Sessions!TokensHaveLogins'
    <2>1. \A x \in Sessions!Token : of'[x] # 0 => of'[x] \in Sessions!Started
        BY <1>1, <1>7, <1>9 DEF Sessions!TokensHaveLogins
    <2>2. \A x \in Sessions!Token : x > new => of'[x] = 0
        <3> TAKE x \in Sessions!Token
        <3> HAVE x > new
        <3>1. x > last /\ x # new BY <1>3, <1>4
        <3> QED BY <3>1, <1>1, <1>9 DEF Sessions!TokensHaveLogins
    <2>3. \A x \in sessions' : of'[x] # 0
        <3> TAKE x \in sessions'
        <3>1. CASE x \in sessions
            BY <3>1, <1>1, <1>9, <1>11 DEF Sessions!TokensHaveLogins
        <3>2. CASE x \notin sessions BY <3>2, <1>7, <1>9
        <3> QED BY <3>1, <3>2
    <2>4. \A x \in Sessions!Started : held[x] # 0 /\ of'[held[x]] = x
        <3> TAKE x \in Sessions!Started
        <3>1. held[x] \in Sessions!Token /\ held[x] \in 0..last /\ held[x] # 0 /\ of[held[x]] = x
            BY <1>1, SessionsOfLogin DEF Sessions!SessionTypes, Sessions!TokensHaveLogins
        <3> QED BY <3>1, <1>4, <1>9
    <2>5. \A p \in Request : IF tokenJob'[p].pc # "idle"
                            THEN tokenJob'[p].token # 0 /\ of'[tokenJob'[p].token] # 0
                            ELSE tokenJob'[p] = Sessions!Nothing
        <3> TAKE p \in Request
        <3>1. CASE p = q
            <4>1. CASE tokenJob'[q] = Sessions!Nothing BY <4>1, <3>1, NoSessionJob
            <4>2. CASE tokenJob'[q] = answer
                <5>1. old # new /\ old # 0
                    BY <4>2, <1>2, <1>4, <1>5, SessionsAtWork DEF old
                <5> QED BY <4>2, <5>1, <3>1, <1>6, <1>7, <1>9 DEF l
            <4> QED BY <4>1, <4>2, <1>10
        <3>2. CASE p # q /\ tokenJob'[p].pc # "idle"
            BY <3>2, <1>14, SessionsAtWork
        <3>3. CASE p # q /\ tokenJob'[p].pc = "idle"
            BY <3>3, <1>1, <1>5 DEF Sessions!TokensHaveLogins, Sessions!Working
        <3> QED BY <3>1, <3>2, <3>3
    <2>6. \A p \in Request : tokenJob'[p].pc = "answer" =>
              tokenJob'[p].new # 0 /\ of'[tokenJob'[p].new] = of'[tokenJob'[p].token]
        <3> TAKE p \in Request
        <3> HAVE tokenJob'[p].pc = "answer"
        <3>1. CASE p = q
            <4>1. tokenJob'[q] = answer /\ of'[new] = l BY <3>1, <1>10, NoSessionJob
            <4>2. old # new BY <1>4, <1>5 DEF old
            <4> QED BY <4>1, <4>2, <3>1, <1>3, <1>6, <1>7, <1>9 DEF l
        <3>2. CASE p # q
            <4>1. tokenJob'[p] = tokenJob[p] /\ tokenJob[p].new # new
                  /\ of'[tokenJob[p].token] = of[tokenJob[p].token]
                BY <3>2, <1>14
            <4>2. tokenJob[p].new # 0 BY <4>1, <1>1 DEF Sessions!TokensHaveLogins
            <4>3. /\ tokenJob[p].new \in Sessions!Token
                  /\ of[tokenJob[p].new] = of[tokenJob[p].token]
                BY <4>1, SessionsAtWork
            <4> QED BY <4>1, <4>2, <4>3, <1>9
        <3> QED BY <3>1, <3>2
    <2> QED BY <2>1, <2>2, <2>3, <2>4, <2>5, <2>6, <1>1, <1>2, <1>13
            DEF Sessions!TokensHaveLogins, Sessions!Working, Sessions!LoginOf
<1>u. Sessions!UntroubledAlone'
    <2>1. ASSUME NEW p \in Request, tokenJob'[p].pc # "idle",
                 of'[tokenJob'[p].token] \notin troubled'
          PROVE  /\ of'[tokenJob'[p].token] \notin ended
                 /\ tokenJob'[p].token = held[of'[tokenJob'[p].token]]
                 /\ (IF tokenJob'[p].pc = "answer" THEN tokenJob'[p].new ELSE tokenJob'[p].token)
                        \in sessions'
        <3>1. CASE p = q
            <4>1. tokenJob'[q] = answer /\ new \in sessions' BY <2>1, <3>1, <1>10, NoSessionJob
            <4>2. old # new BY <1>4, <1>5 DEF old
            <4>3. of'[old] = l BY <4>2, <1>7, <1>9 DEF l
            <4>4. l \notin troubled BY <4>1, <4>3, <2>1, <3>1, <1>6, <1>10
            <4> QED BY <4>1, <4>3, <4>4, <3>1, <1>6, <1>7
        <3>2. CASE p # q
            <4> DEFINE m == of[tokenJob[p].token]
                       x == IF tokenJob[p].pc = "answer" THEN tokenJob[p].new ELSE tokenJob[p].token
            <4>1. tokenJob'[p] = tokenJob[p] /\ tokenJob[p].pc # "idle" /\ of'[tokenJob'[p].token] = m
                  /\ (m = l => l \in troubled)
                BY <3>2, <2>1, <1>14
            <4>2. m \notin troubled' BY <4>1, <2>1
            <4>3. m \notin troubled /\ m # l BY <4>1, <4>2, <1>10
            <4>4. m \notin ended /\ tokenJob[p].token = held[m] /\ x \in sessions /\ of[x] = m
                BY <4>1, <4>3, SessionsAtWork
            <4>5. x # old BY <4>3, <4>4 DEF l
            <4>6. x \in sessions' BY <4>4, <4>5, <1>9
            <4> HIDE DEF m
            <4> QED BY <4>1, <4>4, <4>6
        <3> QED BY <3>1, <3>2
    <2>2. ASSUME NEW p \in Request, NEW r \in Request, tokenJob'[p].pc # "idle",
                 tokenJob'[r].pc # "idle", of'[tokenJob'[p].token] = of'[tokenJob'[r].token],
                 of'[tokenJob'[p].token] \notin troubled'
          PROVE  p = r
        <3>1. of'[tokenJob'[q].token] = l \/ tokenJob'[q].pc = "idle"
            <4>1. old # new BY <1>4, <1>5 DEF old
            <4>2. of'[old] = l BY <4>1, <1>7, <1>9 DEF l
            <4> QED BY <4>2, <1>6, <1>10, NoSessionJob
        <3>2. CASE p # q /\ r # q
            <4>1. /\ tokenJob[p].pc # "idle" /\ tokenJob[r].pc # "idle"
                  /\ of[tokenJob[p].token] = of[tokenJob[r].token]
                  /\ of[tokenJob[p].token] \notin troubled
                BY <3>2, <2>2, <1>10, <1>14
            <4> QED BY <4>1, SessionsAlone
        <3>3. CASE p = q /\ r # q
            <4>1. of[tokenJob[r].token] = l /\ l \notin troubled' BY <3>1, <3>3, <2>2, <1>14
            <4>2. l \in troubled BY <4>1, <3>3, <2>2, <1>14
            <4> QED BY <4>1, <4>2, <1>10
        <3>4. CASE p # q /\ r = q
            <4>1. of[tokenJob[p].token] = l /\ l \notin troubled' BY <3>1, <3>4, <2>2, <1>14
            <4>2. l \in troubled BY <4>1, <3>4, <2>2, <1>14
            <4> QED BY <4>1, <4>2, <1>10
        <3> QED BY <3>2, <3>3, <3>4
    <2> QED BY <2>1, <2>2, <1>2 DEF Sessions!UntroubledAlone, Sessions!Working, Sessions!LoginOf
<1>s. Sessions!UsableSeen'
    <2>1. tokenJob[q].seen BY <1>2 DEF Sessions!UsableSeen, Sessions!SessionsInv
    <2>2. tokenJob'[q] = answer => tokenJob'[q].seen BY <2>1, <1>6
    <2>3. tokenJob'[q] # answer => tokenJob'[q].pc = "idle" BY <1>10, NoSessionJob
    <2> QED BY <2>2, <2>3, <1>2, <1>5 DEF Sessions!UsableSeen, Sessions!SessionsInv, Sessions!Working
<1>o. Sessions!OneTokenPerLogin'
    <2>1. \A x, y \in sessions : of[x] = of[y] => x = y
        BY DEF Sessions!OneTokenPerLogin, Sessions!SessionsInv
    <2>2. \A x \in sessions : of'[x] = of[x] BY <1>9, <1>11
    <2>3. \A x, y \in sessions' : of'[x] = of'[y] => x = y
        <3>1. CASE sessions' = sessions BY <3>1, <2>1, <2>2
        <3>2. CASE old \in sessions /\ of'[new] = l /\ sessions' = (sessions \ {old}) \cup {new}
            <4>1. \A x \in sessions \ {old} : of'[x] # l BY <3>2, <2>1, <2>2 DEF l
            <4> QED BY <4>1, <3>2, <2>1, <2>2
        <3> QED BY <3>1, <3>2, <1>9
    <2>4. sessions' \subseteq 1..last' BY <1>t DEF Sessions!SessionTypes
    <2> QED BY <2>3, <2>4 DEF Sessions!OneTokenPerLogin
<1>c. Sessions!ClientsKeepTheirToken'
    <2>1. ASSUME NEW m \in Sessions!Started, m \notin troubled'
          PROVE  /\ m \in ended => (\A x \in sessions' : of'[x] # m)
                 /\ m \notin ended =>
                       \/ held[m] \in sessions'
                       \/ \E p \in Request : tokenJob'[p].pc = "answer" /\ tokenJob'[p].token = held[m]
        <3>1. m \notin troubled BY <2>1, <1>10
        <3>2. CASE m # l
            <4>1. m \in ended => (\A x \in sessions' : of'[x] # m)
                <5>1. \A x \in sessions' : of'[x] = m => x \in sessions /\ of[x] = m
                    BY <3>2, <1>9, <1>11
                <5> QED BY <5>1, <3>1, SessionsOfLogin
            <4>2. held[m] \in sessions => held[m] \in sessions'
                BY <3>2, <1>9, SessionsOfLogin DEF l
            <4>3. \A p \in Request : tokenJob[p].pc = "answer" => p # q BY <1>2
            <4> QED BY <4>1, <4>2, <4>3, <3>1, <1>5, SessionsOfLogin
        <3>3. CASE m = l
            <4>1. m \notin ended /\ old = held[m] /\ old \in sessions BY <3>1, <3>3, <1>7
            <4>2. CASE sessions' = sessions BY <4>1, <4>2
            <4>3. CASE tokenJob'[q] = answer BY <4>1, <4>3, <1>6
            <4> QED BY <4>2, <4>3, <2>1, <3>3, <1>10
        <3> QED BY <3>2, <3>3
    <2>2. ASSUME NEW m, \A x \in sessions' : of'[x] # m
          PROVE  Sessions!Chain(m)' \cap sessions' = {}
        BY <2>2 DEF Sessions!Chain
    <2> QED BY <2>1, <2>2, <1>2, <1>13 DEF Sessions!ClientsKeepTheirToken
<1> QED BY <1>t, <1>l, <1>u, <1>s, <1>o, <1>c DEF Sessions!SessionsInv

LEMMA SessionsStep ==
    ASSUME Sessions!SessionsAssumption, Sessions!SessionsInv,
           Sessions!Next \/ UNCHANGED tokenVars
    PROVE  Sessions!SessionsInv'
<1>1. CASE UNCHANGED tokenVars
    <2>1. UNCHANGED <<sessions, last, usable, tokenJob, held, of, ended, troubled>>
        BY <1>1 DEF tokenVars
    <2> QED BY <2>1 DEF Sessions!SessionsInv, Sessions!SessionTypes, Sessions!TokensHaveLogins,
            Sessions!UntroubledAlone, Sessions!UsableSeen, Sessions!OneTokenPerLogin,
            Sessions!ClientsKeepTheirToken, Sessions!Started, Sessions!Token, Sessions!Chain,
            Sessions!Working, Sessions!LoginOf
<1>2. CASE Sessions!Next
    BY <1>2, SessionsSet, SessionsValidate, SessionsLookedAt, SessionsRotate, SessionsAnswer,
       SessionsLogout, SessionsExpire, SessionsChangeAccount DEF Sessions!Next
<1> QED BY <1>1, <1>2

\* TokensFollowLogins: a login never has two refresh tokens that work, a client that
\* refreshes one at a time and hears every answer keeps its login until the token
\* expires or it logs out, and no new token comes of a request during which the
\* account was never usable, for any number of requests and tokens
\* (auth/pkg/service/service.go and the session store).
THEOREM TokensFollowLoginsHolds == Spec => []TokensFollowLogins
<1> DEFINE Inv == which = "sessions" => Sessions!SessionsInv
<1>1. Init => Inv
    BY Assumptions, SessionsStart DEF Init
<1>2. Inv /\ [Next]_vars => Inv'
    <2> SUFFICES ASSUME Inv, [Next]_vars, which' = "sessions" PROVE Sessions!SessionsInv'
        OBVIOUS
    <2>1. which = "sessions" /\ (Sessions!Next \/ UNCHANGED tokenVars)
        BY DEF Next, vars
    <2> QED BY <2>1, Assumptions, SessionsStep
<1>3. Inv => TokensFollowLogins
    BY DEF TokensFollowLogins, Sessions!SessionsInv, Sessions!RefreshedWhileUsable,
       Sessions!UsableSeen
<1> QED BY <1>1, <1>2, <1>3, PTL DEF Spec

-----------------------------------------------------------------------------
(* The answers of the card gateway *)

LEMMA NanoStart ==
    ASSUME NanoReturn!Init
    PROVE  NanoReturn!NanoInv
<1>1. NanoReturn!TypeOK
    BY DEF NanoReturn!Init, NanoReturn!TypeOK, NanoReturn!JobSet, NanoReturn!Page
<1>2. NanoReturn!JobsHaveAnswers
    BY DEF NanoReturn!Init, NanoReturn!JobsHaveAnswers
<1>3. NanoReturn!EveryChargeIsNoticed
    BY DEF NanoReturn!Init, NanoReturn!EveryChargeIsNoticed
<1>4. NanoReturn!ChargedIsNotInvitedBack
    BY DEF NanoReturn!Init, NanoReturn!ChargedIsNotInvitedBack
<1> QED BY <1>1, <1>2, <1>3, <1>4 DEF NanoReturn!NanoInv

\* The facts about a job that is not idle.
LEMMA NanoJob ==
    ASSUME NanoReturn!NanoInv, NEW j \in Request, answerJob[j].step \in {"check", "save"}
    PROVE  /\ answerJob[j] # NanoReturn!NoJob
           /\ answerJob[j] \in [step : {"check", "save"}, window : Thing,
                                source : NanoReturn!Source, signed : BOOLEAN,
                                row : {"none", "requires_payment", "succeeded", "failed"}]
           /\ answerJob[j].window \in Thing
           /\ window[answerJob[j].window] \in {"charged", "declined"}
<1>1. answerJob[j] \in NanoReturn!JobSet
    BY DEF NanoReturn!NanoInv, NanoReturn!TypeOK
<1>2. answerJob[j] # NanoReturn!NoJob BY DEF NanoReturn!NoJob
<1> QED BY <1>1, <1>2 DEF NanoReturn!JobSet, NanoReturn!NanoInv, NanoReturn!JobsHaveAnswers

\* A rejected answer raises an alert for a charge, and its page does not invite the
\* shopper back.
LEMMA NanoReject ==
    ASSUME NanoReturn!NanoInv, NEW source, NEW w \in Thing, NEW reason,
           window[w] \in {"charged", "declined"}, NanoReturn!Reject(source, w, reason),
           window' = window, recorded' = recorded
    PROVE  /\ alerted' \cup answered' \subseteq {x \in Thing : window[x] = "charged"}
           /\ page' \in [Thing -> NanoReturn!Page]
           /\ NanoReturn!EveryChargeIsNoticed' /\ NanoReturn!ChargedIsNotInvitedBack'
<1>1. NanoReturn!TypeOK /\ NanoReturn!EveryChargeIsNoticed /\ NanoReturn!ChargedIsNotInvitedBack
    BY DEF NanoReturn!NanoInv
<1>2. /\ alerted' = (IF window[w] = "charged" THEN alerted \cup {w} ELSE alerted)
      /\ answered' = (IF window[w] = "charged" THEN answered \cup {w} ELSE answered)
    BY DEF NanoReturn!Reject, NanoReturn!Alert, NanoReturn!NanoApproved
<1>3. PICK what \in {"declined", "amount_mismatch", "verify_failed"} :
          /\ page' = page \/ page' = [page EXCEPT ![w] = what]
          /\ what = "declined" => window[w] = "declined"
    BY DEF NanoReturn!Reject, NanoReturn!Tell, NanoReturn!NanoReturnReason, NanoReturn!NanoApproved
<1>4. alerted' \cup answered' \subseteq {x \in Thing : window[x] = "charged"}
    BY <1>1, <1>2 DEF NanoReturn!TypeOK
<1>5. page' \in [Thing -> NanoReturn!Page]
    BY <1>1, <1>3 DEF NanoReturn!TypeOK, NanoReturn!Page
<1>6. NanoReturn!EveryChargeIsNoticed'
    BY <1>1, <1>2 DEF NanoReturn!EveryChargeIsNoticed
<1>7. NanoReturn!ChargedIsNotInvitedBack'
    <2>1. \A x \in Thing : page'[x] = page[x] \/ (x = w /\ page'[x] = what)
        BY <1>1, <1>3 DEF NanoReturn!TypeOK
    <2> QED BY <2>1, <1>1, <1>3 DEF NanoReturn!ChargedIsNotInvitedBack
<1> QED BY <1>4, <1>5, <1>6, <1>7

\* A job that ends leaves the others as they were.
LEMMA NanoEnds ==
    ASSUME NanoReturn!NanoInv, NEW j \in Request, NanoReturn!Ends(j), window' = window
    PROVE  /\ answerJob' \in [Request -> NanoReturn!JobSet] /\ NanoReturn!JobsHaveAnswers'
           /\ answerJob'[j] = NanoReturn!NoJob
<1>1. answerJob \in [Request -> NanoReturn!JobSet] /\ NanoReturn!JobsHaveAnswers
    BY DEF NanoReturn!NanoInv, NanoReturn!TypeOK
<1>2. /\ answerJob' \in [Request -> NanoReturn!JobSet]
      /\ answerJob'[j] = NanoReturn!NoJob
      /\ \A i \in Request : i # j => answerJob'[i] = answerJob[i]
    BY <1>1 DEF NanoReturn!Ends, NanoReturn!JobSet
<1> QED BY <1>1, <1>2 DEF NanoReturn!JobsHaveAnswers, NanoReturn!NanoApproved

\* A job that goes on to save: not with a decline, if it had read a paid row.
LEMMA NanoGoesOn ==
    ASSUME NanoReturn!NanoInv, NEW j \in Request, answerJob[j].step = "check",
           answerJob' = [answerJob EXCEPT ![j].step = "save"], window' = window,
           answerJob[j].row # "succeeded" \/ window[answerJob[j].window] = "charged"
    PROVE  answerJob' \in [Request -> NanoReturn!JobSet] /\ NanoReturn!JobsHaveAnswers'
<1>1. answerJob \in [Request -> NanoReturn!JobSet] /\ NanoReturn!JobsHaveAnswers
    BY DEF NanoReturn!NanoInv, NanoReturn!TypeOK
<1> DEFINE JobRecord == [step : {"check", "save"}, window : Thing,
                         source : NanoReturn!Source, signed : BOOLEAN,
                         row : {"none", "requires_payment", "succeeded", "failed"}]
           job == [answerJob[j] EXCEPT !.step = "save"]
<1>2. answerJob[j] \in JobRecord /\ window[answerJob[j].window] \in {"charged", "declined"}
    BY NanoJob
<1>3. job \in JobRecord /\ job.window = answerJob[j].window /\ job.row = answerJob[j].row
    BY <1>2
<1>4. /\ answerJob'[j] = job
      /\ \A i \in Request : i # j => answerJob'[i] = answerJob[i]
      /\ DOMAIN answerJob' = Request /\ answerJob' = [i \in Request |-> answerJob'[i]]
    BY <1>1
<1> HIDE DEF job
<1>5. answerJob' \in [Request -> NanoReturn!JobSet]
    BY <1>1, <1>3, <1>4 DEF NanoReturn!JobSet
<1>6. NanoReturn!JobsHaveAnswers'
    BY <1>1, <1>2, <1>3, <1>4 DEF NanoReturn!JobsHaveAnswers, NanoReturn!NanoApproved
<1> QED BY <1>5, <1>6

LEMMA NanoWindows ==
    ASSUME NanoReturn!NanoInv, NEW w \in Thing,
           \/ NanoReturn!OpenWindow(w) \/ NanoReturn!WindowFails(w)
           \/ NanoReturn!BindingExpires(w)
           \/ NanoReturn!Decide(w, "charged") \/ NanoReturn!Decide(w, "declined")
    PROVE  NanoReturn!NanoInv'
<1>1. NanoReturn!TypeOK /\ NanoReturn!JobsHaveAnswers
      /\ NanoReturn!EveryChargeIsNoticed /\ NanoReturn!ChargedIsNotInvitedBack
    BY DEF NanoReturn!NanoInv
<1>2. UNCHANGED <<status, answerJob, recorded, alerted, answered>>
    BY DEF NanoReturn!OpenWindow, NanoReturn!WindowFails, NanoReturn!BindingExpires,
           NanoReturn!Decide
<1>3. /\ fresh' \subseteq Thing
      /\ window' \in [Thing -> {"closed", "open", "charged", "declined"}]
      /\ page' \in [Thing -> NanoReturn!Page]
    BY <1>1 DEF NanoReturn!OpenWindow, NanoReturn!WindowFails, NanoReturn!BindingExpires,
           NanoReturn!Decide, NanoReturn!BuildRequest, NanoReturn!TypeOK, NanoReturn!Page
<1>4. \A x \in Thing : window[x] \in {"charged", "declined"} => window'[x] = window[x]
    BY <1>1 DEF NanoReturn!OpenWindow, NanoReturn!WindowFails, NanoReturn!BindingExpires,
           NanoReturn!Decide, NanoReturn!BuildRequest, NanoReturn!TypeOK
<1>5. \A x \in Thing : page'[x] = "declined" => page[x] = "declined"
    BY <1>1 DEF NanoReturn!OpenWindow, NanoReturn!WindowFails, NanoReturn!BindingExpires,
           NanoReturn!Decide, NanoReturn!TypeOK
<1>6. NanoReturn!TypeOK'
    BY <1>1, <1>2, <1>3, <1>4 DEF NanoReturn!TypeOK
<1>7. NanoReturn!JobsHaveAnswers'
    <2>1. ASSUME NEW j \in Request, answerJob[j] # NanoReturn!NoJob
          PROVE  answerJob[j].window \in Thing /\ window[answerJob[j].window] \in {"charged", "declined"}
        <3>1. answerJob[j] \in NanoReturn!JobSet BY <1>1 DEF NanoReturn!TypeOK
        <3> QED BY <3>1, <2>1, <1>1 DEF NanoReturn!JobSet, NanoReturn!JobsHaveAnswers
    <2> QED BY <2>1, <1>1, <1>2, <1>4 DEF NanoReturn!JobsHaveAnswers, NanoReturn!NanoApproved
<1>8. NanoReturn!EveryChargeIsNoticed'
    BY <1>1, <1>2 DEF NanoReturn!EveryChargeIsNoticed
<1>9. NanoReturn!ChargedIsNotInvitedBack'
    BY <1>1, <1>4, <1>5 DEF NanoReturn!ChargedIsNotInvitedBack
<1> QED BY <1>6, <1>7, <1>8, <1>9 DEF NanoReturn!NanoInv

LEMMA NanoReceives ==
    ASSUME NanoReturn!NanoInv, NEW j \in Request, NEW w \in Thing,
           NEW source \in NanoReturn!Source, NEW signed \in BOOLEAN,
           NanoReturn!ReceiveAnswer(j, w, source, signed)
    PROVE  NanoReturn!NanoInv'
<1>1. NanoReturn!TypeOK /\ NanoReturn!JobsHaveAnswers
      /\ NanoReturn!EveryChargeIsNoticed /\ NanoReturn!ChargedIsNotInvitedBack
    BY DEF NanoReturn!NanoInv
<1> DEFINE job == [step |-> "check", window |-> w, source |-> source,
                   signed |-> signed, row |-> status]
<1>2. /\ window[w] \in {"charged", "declined"} /\ answerJob' = [answerJob EXCEPT ![j] = job]
      /\ UNCHANGED <<status, window, fresh, page, recorded, alerted, answered>>
    BY DEF NanoReturn!ReceiveAnswer
<1>3. job \in NanoReturn!JobSet /\ job.window = w /\ job.step = "check"
    BY <1>1 DEF NanoReturn!JobSet, NanoReturn!TypeOK
<1> HIDE DEF job
<1>4. /\ answerJob' \in [Request -> NanoReturn!JobSet] /\ answerJob'[j] = job
      /\ \A i \in Request : i # j => answerJob'[i] = answerJob[i]
    BY <1>1, <1>2, <1>3 DEF NanoReturn!TypeOK
<1>5. NanoReturn!TypeOK' BY <1>1, <1>2, <1>4 DEF NanoReturn!TypeOK
<1>6. NanoReturn!JobsHaveAnswers'
    BY <1>1, <1>2, <1>3, <1>4 DEF NanoReturn!JobsHaveAnswers, NanoReturn!NanoApproved
<1> QED BY <1>1, <1>2, <1>5, <1>6
        DEF NanoReturn!NanoInv, NanoReturn!EveryChargeIsNoticed, NanoReturn!ChargedIsNotInvitedBack

LEMMA NanoRefuses ==
    ASSUME NanoReturn!NanoInv, NEW w \in Thing, NEW source, NEW reason,
           NanoReturn!RefuseAnswer(w, source, reason)
    PROVE  NanoReturn!NanoInv'
<1>1. NanoReturn!TypeOK /\ NanoReturn!JobsHaveAnswers BY DEF NanoReturn!NanoInv
<1>2. /\ window[w] \in {"charged", "declined"} /\ NanoReturn!Reject(source, w, reason)
      /\ UNCHANGED <<status, window, fresh, answerJob, recorded>>
    BY DEF NanoReturn!RefuseAnswer
<1>3. /\ alerted' \cup answered' \subseteq {x \in Thing : window[x] = "charged"}
      /\ page' \in [Thing -> NanoReturn!Page]
      /\ NanoReturn!EveryChargeIsNoticed' /\ NanoReturn!ChargedIsNotInvitedBack'
    BY <1>2, NanoReject
<1>4. NanoReturn!TypeOK' BY <1>1, <1>2, <1>3 DEF NanoReturn!TypeOK
<1>5. NanoReturn!JobsHaveAnswers'
    BY <1>1, <1>2 DEF NanoReturn!JobsHaveAnswers, NanoReturn!NanoApproved
<1> QED BY <1>3, <1>4, <1>5 DEF NanoReturn!NanoInv

\* A page that does not invite the shopper back, unless NANO declined.
LEMMA NanoTell ==
    ASSUME NanoReturn!NanoInv, NEW source, NEW w \in Thing, NEW what \in NanoReturn!Page,
           NanoReturn!Tell(source, w, what), window' = window,
           what = "declined" => window[w] = "declined"
    PROVE  page' \in [Thing -> NanoReturn!Page] /\ NanoReturn!ChargedIsNotInvitedBack'
<1>1. page \in [Thing -> NanoReturn!Page] /\ NanoReturn!ChargedIsNotInvitedBack
    BY DEF NanoReturn!NanoInv, NanoReturn!TypeOK
<1>2. page' = page \/ page' = [page EXCEPT ![w] = what] BY DEF NanoReturn!Tell
<1> QED BY <1>1, <1>2 DEF NanoReturn!ChargedIsNotInvitedBack

LEMMA NanoChecks ==
    ASSUME NanoReturn!NanoInv, NEW j \in Request,
           \/ /\ NanoReturn!CheckDecline(j)
              /\ UNCHANGED <<status, window, fresh, recorded, alerted, answered>>
           \/ NanoReturn!CheckApproval(j)
    PROVE  NanoReturn!NanoInv'
<1>1. NanoReturn!TypeOK /\ NanoReturn!EveryChargeIsNoticed /\ NanoReturn!ChargedIsNotInvitedBack
    BY DEF NanoReturn!NanoInv
<1>2. answerJob[j].step = "check" /\ UNCHANGED <<status, window, fresh, recorded>>
    BY DEF NanoReturn!CheckDecline, NanoReturn!CheckApproval
<1> DEFINE w == answerJob[j].window
<1>3. w \in Thing /\ window[w] \in {"charged", "declined"} BY <1>2, NanoJob
<1>4. \/ /\ NanoReturn!Ends(j) /\ NanoReturn!Tell(answerJob[j].source, w, "paid")
         /\ UNCHANGED <<alerted, answered>>
      \/ /\ answerJob' = [answerJob EXCEPT ![j].step = "save"]
         /\ answerJob[j].row # "succeeded" \/ window[w] = "charged"
         /\ UNCHANGED <<page, alerted, answered>>
      \/ NanoReturn!Ends(j) /\ NanoReturn!Reject(answerJob[j].source, w, "verify_failed")
    BY DEF NanoReturn!CheckDecline, NanoReturn!CheckApproval, NanoReturn!NanoApproved
<1> HIDE DEF w
<1>5. answerJob' \in [Request -> NanoReturn!JobSet] /\ NanoReturn!JobsHaveAnswers'
    BY <1>2, <1>4, NanoEnds, NanoGoesOn DEF w
<1>6. /\ alerted' \cup answered' \subseteq {x \in Thing : window[x] = "charged"}
      /\ page' \in [Thing -> NanoReturn!Page]
      /\ NanoReturn!EveryChargeIsNoticed' /\ NanoReturn!ChargedIsNotInvitedBack'
    <2>1. CASE UNCHANGED <<alerted, answered>> /\ NanoReturn!Tell(answerJob[j].source, w, "paid")
        BY <2>1, <1>1, <1>2, <1>3, NanoTell
           DEF NanoReturn!TypeOK, NanoReturn!EveryChargeIsNoticed, NanoReturn!Page
    <2>2. CASE UNCHANGED <<page, alerted, answered>>
        BY <2>2, <1>1, <1>2
           DEF NanoReturn!TypeOK, NanoReturn!EveryChargeIsNoticed, NanoReturn!ChargedIsNotInvitedBack
    <2>3. CASE NanoReturn!Reject(answerJob[j].source, w, "verify_failed")
        BY <2>3, <1>2, <1>3, NanoReject
    <2> QED BY <2>1, <2>2, <2>3, <1>4
<1>7. NanoReturn!TypeOK' BY <1>1, <1>2, <1>5, <1>6 DEF NanoReturn!TypeOK
<1> QED BY <1>5, <1>6, <1>7 DEF NanoReturn!NanoInv

LEMMA NanoSaves ==
    ASSUME NanoReturn!NanoInv, NEW j \in Request,
           NanoReturn!SaveDecline(j) \/ NanoReturn!SaveApproval(j) \/ NanoReturn!SaveFails(j)
    PROVE  NanoReturn!NanoInv'
<1>1. NanoReturn!TypeOK /\ NanoReturn!EveryChargeIsNoticed /\ NanoReturn!ChargedIsNotInvitedBack
    BY DEF NanoReturn!NanoInv
<1>2. /\ answerJob[j].step = "save" /\ NanoReturn!Ends(j) /\ UNCHANGED <<window, fresh>>
    BY DEF NanoReturn!SaveDecline, NanoReturn!SaveApproval, NanoReturn!SaveFails
<1> DEFINE w == answerJob[j].window
<1>3. w \in Thing /\ window[w] \in {"charged", "declined"} BY <1>2, NanoJob
<1>4. answerJob' \in [Request -> NanoReturn!JobSet] /\ NanoReturn!JobsHaveAnswers'
    BY <1>2, NanoEnds
<1>5. CASE NanoReturn!SaveDecline(j)
    <2>1. /\ window[w] # "charged" /\ status' = "failed"
          /\ NanoReturn!Tell(answerJob[j].source, w, "declined")
          /\ UNCHANGED <<recorded, alerted, answered>>
        BY <1>5 DEF NanoReturn!SaveDecline, NanoReturn!NanoApproved
    <2>2. page' \in [Thing -> NanoReturn!Page] /\ NanoReturn!ChargedIsNotInvitedBack'
        BY <2>1, <1>2, <1>3, NanoTell DEF NanoReturn!Page
    <2>3. NanoReturn!TypeOK' BY <2>1, <2>2, <1>1, <1>2, <1>4 DEF NanoReturn!TypeOK
    <2>4. NanoReturn!EveryChargeIsNoticed' BY <2>1, <1>1 DEF NanoReturn!EveryChargeIsNoticed
    <2> QED BY <2>2, <2>3, <2>4, <1>4 DEF NanoReturn!NanoInv
<1>6. CASE NanoReturn!SaveApproval(j)
    <2>1. /\ window[w] = "charged" /\ status' = "succeeded" /\ recorded' = recorded \cup {w}
          /\ answered' = answered \cup {w} /\ UNCHANGED alerted
          /\ NanoReturn!Tell(answerJob[j].source, w, "paid")
        BY <1>6 DEF NanoReturn!SaveApproval, NanoReturn!NanoApproved
    <2>2. page' \in [Thing -> NanoReturn!Page] /\ NanoReturn!ChargedIsNotInvitedBack'
        BY <2>1, <1>2, <1>3, NanoTell DEF NanoReturn!Page
    <2>3. NanoReturn!TypeOK'
        BY <2>1, <2>2, <1>1, <1>2, <1>3, <1>4 DEF NanoReturn!TypeOK
    <2>4. NanoReturn!EveryChargeIsNoticed' BY <2>1, <1>1 DEF NanoReturn!EveryChargeIsNoticed
    <2> QED BY <2>2, <2>3, <2>4, <1>4 DEF NanoReturn!NanoInv
<1>7. CASE NanoReturn!SaveFails(j)
    <2>1. /\ NanoReturn!Reject(answerJob[j].source, w, "persist_failed")
          /\ UNCHANGED <<status, recorded>>
        BY <1>7 DEF NanoReturn!SaveFails
    <2> HIDE DEF w
    <2>2. /\ alerted' \cup answered' \subseteq {x \in Thing : window[x] = "charged"}
          /\ page' \in [Thing -> NanoReturn!Page]
          /\ NanoReturn!EveryChargeIsNoticed' /\ NanoReturn!ChargedIsNotInvitedBack'
        BY <2>1, <1>2, <1>3, NanoReject
    <2>3. NanoReturn!TypeOK' BY <2>1, <2>2, <1>1, <1>2, <1>4 DEF NanoReturn!TypeOK
    <2> QED BY <2>2, <2>3, <1>4 DEF NanoReturn!NanoInv
<1> QED BY <1>5, <1>6, <1>7

LEMMA NanoCrash ==
    ASSUME NanoReturn!NanoInv, NEW j \in Request, NanoReturn!Crash(j)
    PROVE  NanoReturn!NanoInv'
<1>1. /\ NanoReturn!Ends(j)
      /\ UNCHANGED <<status, window, fresh, page, recorded, alerted, answered>>
    BY DEF NanoReturn!Crash
<1>2. answerJob' \in [Request -> NanoReturn!JobSet] /\ NanoReturn!JobsHaveAnswers'
    BY <1>1, NanoEnds
<1>3. NanoReturn!TypeOK' BY <1>1, <1>2 DEF NanoReturn!TypeOK, NanoReturn!NanoInv
<1> QED BY <1>1, <1>2, <1>3
        DEF NanoReturn!NanoInv, NanoReturn!EveryChargeIsNoticed, NanoReturn!ChargedIsNotInvitedBack

LEMMA NanoStep ==
    ASSUME NanoReturn!NanoInv, NanoReturn!Next \/ UNCHANGED answerVars
    PROVE  NanoReturn!NanoInv'
<1>1. CASE UNCHANGED answerVars
    BY <1>1 DEF answerVars, NanoReturn!NanoInv, NanoReturn!TypeOK, NanoReturn!JobsHaveAnswers,
       NanoReturn!NanoApproved, NanoReturn!EveryChargeIsNoticed, NanoReturn!ChargedIsNotInvitedBack
<1>2. CASE NanoReturn!Next
    BY <1>2, NanoWindows, NanoRefuses, NanoReceives, NanoChecks, NanoSaves, NanoCrash
       DEF NanoReturn!Next
<1> QED BY <1>1, <1>2

\* A paid row becomes failed only with a decline that had read the row before.
LEMMA NanoPaidOutlives ==
    ASSUME NanoReturn!NanoInv, NanoReturn!Next
    PROVE  NanoReturn!PaidOutlivesDeclinesStep
<1> SUFFICES ASSUME status = "succeeded", status' # "succeeded"
             PROVE  \E j \in Request : /\ answerJob[j] # NanoReturn!NoJob
                                       /\ answerJob'[j] = NanoReturn!NoJob
                                       /\ answerJob[j].row # "succeeded"
    BY DEF NanoReturn!PaidOutlivesDeclinesStep
<1>1. PICK j \in Request : NanoReturn!SaveDecline(j)
    BY DEF NanoReturn!Next, NanoReturn!OpenWindow, NanoReturn!WindowFails,
       NanoReturn!BindingExpires, NanoReturn!Decide, NanoReturn!RefuseAnswer,
       NanoReturn!ReceiveAnswer, NanoReturn!CheckApproval, NanoReturn!SaveApproval,
       NanoReturn!SaveFails, NanoReturn!Crash
<1>2. /\ answerJob[j].step = "save" /\ ~NanoReturn!NanoApproved(answerJob[j].window)
      /\ NanoReturn!Ends(j) /\ window' = window
    BY <1>1 DEF NanoReturn!SaveDecline
<1>3. answerJob[j] # NanoReturn!NoJob BY <1>2, NanoJob
<1>4. answerJob[j].row # "succeeded"
    BY <1>2, <1>3 DEF NanoReturn!NanoInv, NanoReturn!JobsHaveAnswers
<1>5. answerJob'[j] = NanoReturn!NoJob BY <1>2, NanoEnds
<1> QED BY <1>3, <1>4, <1>5

LEMMA NanoAlways == Spec => [](which = "nano" => NanoReturn!NanoInv)
<1> DEFINE Inv == which = "nano" => NanoReturn!NanoInv
<1>1. Init => Inv
    BY NanoStart DEF Init
<1>2. Inv /\ [Next]_vars => Inv'
    <2> SUFFICES ASSUME Inv, [Next]_vars, which' = "nano" PROVE NanoReturn!NanoInv'
        OBVIOUS
    <2>1. which = "nano" /\ (NanoReturn!Next \/ UNCHANGED answerVars)
        BY DEF Next, vars
    <2> QED BY <2>1, NanoStep
<1> QED BY <1>1, <1>2, PTL DEF Spec

\* ChargesAreNoticed: whatever an answer of the card gateway lacks, in whatever order
\* the answers come and whatever fails, a charge that was reported leaves a paid row or
\* an alert, no page invites a charged shopper to pay again, and only a decline that
\* had read the row before it was paid undoes it
\* (payment/pkg/service/nano_callback.go, HandleNanoResult).
THEOREM ChargesAreNoticedHolds == Spec => ChargesAreNoticed
<1> DEFINE Inv == which = "nano" => NanoReturn!NanoInv
           Noticed == which = "nano" =>
               NanoReturn!EveryChargeIsNoticed /\ NanoReturn!ChargedIsNotInvitedBack
           Outlives == which = "nano" => NanoReturn!PaidOutlivesDeclinesStep
<1>1. Inv => Noticed
    BY DEF NanoReturn!NanoInv
<1>2. Inv /\ [Next]_vars => [Outlives]_vars
    BY NanoPaidOutlives DEF Next
<1>3. Spec => [](Noticed) /\ [][Outlives]_vars
    BY <1>1, <1>2, NanoAlways, PTL DEF Spec
<1> QED BY <1>3 DEF ChargesAreNoticed

-----------------------------------------------------------------------------
(* The rows of a product *)

LEMMA RowValues ==
    /\ ProductRows!NewProduct \in ProductRows!ProductRow
    /\ ProductRows!Gone \in ProductRows!ProductRow
    /\ ProductRows!NewVariant \in ProductRows!VariantRow
    /\ ProductRows!NoVariant \in ProductRows!VariantRow
    /\ ProductRows!Nothing \in ProductRows!Wanted
    /\ ProductRows!Idle.pc = "idle"
BY DEF ProductRows!NewProduct, ProductRows!Gone, ProductRows!ProductRow, ProductRows!NewVariant,
       ProductRows!NoVariant, ProductRows!VariantRow, ProductRows!Nothing, ProductRows!Wanted,
       ProductRows!Idle, ProductRows!Status

LEMMA RowFields ==
    /\ ProductRows!NewProduct.there = TRUE /\ ProductRows!NewProduct.name = "old"
    /\ ProductRows!NewProduct.status = "active" /\ ProductRows!NewProduct.wishlist = 0
    /\ ProductRows!NewProduct.views = 0 /\ ProductRows!NewProduct.sold = 0
    /\ ProductRows!Gone.there = FALSE /\ ProductRows!Gone.wishlist = 0
    /\ ProductRows!Gone.views = 0 /\ ProductRows!Gone.sold = 0
    /\ ProductRows!NewVariant.color = "old" /\ ProductRows!NewVariant.status = "active"
    /\ ProductRows!NewVariant.images = {}
    /\ ProductRows!NoVariant.there = FALSE /\ ProductRows!NoVariant.images = {}
    /\ ProductRows!Nothing.name = "old" /\ ProductRows!Nothing.status = "active"
    /\ ProductRows!Nothing.color = "old" /\ ProductRows!Nothing.variant = "active"
    /\ ProductRows!Nothing.images = {}
BY DEF ProductRows!NewProduct, ProductRows!Gone, ProductRows!NewVariant, ProductRows!NoVariant,
       ProductRows!Nothing

\* The instances' finite sets are the usual ones.
LEMMA RowsCardinality ==
    /\ \A S : ProductRows!Cardinality(S) = Cardinality(S)
    /\ \A S : ProductRows!IsFiniteSet(S) <=> IsFiniteSet(S)
<1>1. \A S : ProductRows!Cardinality(S) = Cardinality(S)
    BY DEF ProductRows!Cardinality, Cardinality
<1>2. \A S : ProductRows!IsFiniteSet(S) <=> IsFiniteSet(S)
    BY DEF ProductRows!IsFiniteSet, IsFiniteSet
<1> QED BY <1>1, <1>2

LEMMA RowsIdle == ProductRows!Held(ProductRows!Idle)
BY RowValues DEF ProductRows!Held

LEMMA RowsStart ==
    ASSUME ProductRows!ProductRowsAssumption, ProductRows!Init
    PROVE  ProductRows!RowsInv
<1>1. /\ product = ProductRows!NewProduct /\ variant = ProductRows!NewVariant
      /\ wanted = ProductRows!Nothing /\ wishlists = {} /\ views = {} /\ objects = {}
      /\ shipped = 0 /\ excused = FALSE
      /\ DOMAIN rowReq = Request /\ \A q \in Request : rowReq[q] = ProductRows!Idle
    BY DEF ProductRows!Init
<1>2. ProductRows!RowTypes
    <2>1. 0 \in 0..MaxSold BY DEF ProductRows!ProductRowsAssumption
    <2>2. /\ product \in ProductRows!ProductRow /\ variant \in ProductRows!VariantRow
          /\ wanted \in ProductRows!Wanted
        BY <1>1, RowValues
    <2> QED BY <1>1, <2>1, <2>2 DEF ProductRows!RowTypes
<1>3. ProductRows!CountersMatchRows
    BY <1>1, RowFields, RowsCardinality, FS_EmptySet DEF ProductRows!CountersMatchRows
<1>4. ProductRows!EditsStand
    BY <1>1, RowFields DEF ProductRows!EditsStand
<1>5. ProductRows!NoBrokenImage
    BY <1>1, RowFields DEF ProductRows!NoBrokenImage
<1>6. \A q \in Request : ProductRows!Held(rowReq[q])
    BY <1>1, RowsIdle
<1> QED BY <1>2, <1>3, <1>4, <1>5, <1>6 DEF ProductRows!RowsInv

LEMMA RowsHeldOn ==
    ASSUME NEW r, ProductRows!Held(r), objects \subseteq objects'
    PROVE  ProductRows!Held(r)'
<1>1. \A images : ProductRows!ShownWith(images) => ProductRows!ShownWith(images)'
    BY DEF ProductRows!ShownWith
<1>2. r.pc = "upload thumb" => <<r.image, "full">> \in objects'
    BY DEF ProductRows!Held
<1>3. r.pc \in {"upload", "upload thumb"} => ProductRows!ShownWith(r.variant.images)'
    BY <1>1 DEF ProductRows!Held
<1>4. r.pc = "update variant" => ProductRows!ShownWith(r.patch["images"])'
    BY <1>1 DEF ProductRows!Held
<1> QED BY <1>2, <1>3, <1>4 DEF ProductRows!Held, ProductRows!Columns, ProductRows!Status,
            ProductRows!VariantRow, ProductRows!Image, ProductRows!Idle

\* The image store only grows, and what was read stays showable.
LEMMA RowsHeld ==
    ASSUME ProductRows!RowsInv, NEW q \in Request, NEW r,
           rowReq' = [rowReq EXCEPT ![q] = r], objects \subseteq objects',
           ProductRows!Held(r)'
    PROVE  \A p \in Request : ProductRows!Held(rowReq[p])'
<1>1. DOMAIN rowReq = Request BY DEF ProductRows!RowsInv, ProductRows!RowTypes
<1> TAKE p \in Request
<1>2. CASE p = q
    <2>1. rowReq'[p] = r BY <1>1, <1>2
    <2> QED BY <2>1 DEF ProductRows!Held, ProductRows!ShownWith
<1>3. CASE p # q
    <2>1. rowReq'[p] = rowReq[p] BY <1>1, <1>3
    <2>2. ProductRows!Held(rowReq[p]) BY DEF ProductRows!RowsInv
    <2>3. ProductRows!Held(rowReq[p]) => ProductRows!Held(rowReq[p])'
        <3>1. ASSUME NEW x, ProductRows!Held(x) PROVE ProductRows!Held(x)'
            BY <3>1, RowsHeldOn
        <3>2. PICK x : x = rowReq[p] /\ x = rowReq'[p] BY <2>1
        <3>3. ProductRows!Held(x) => ProductRows!Held(x)' BY <3>1
        <3>4. ProductRows!Held(x) <=> ProductRows!Held(rowReq[p]) BY <3>2
        <3>5. ProductRows!Held(rowReq[p])' <=> ProductRows!Held(x)'
            BY <3>2 DEF ProductRows!Held, ProductRows!ShownWith
        <3> QED BY <3>3, <3>4, <3>5
    <2> QED BY <2>2, <2>3
<1> QED BY <1>2, <1>3

\* A step that only moves a request on.
LEMMA RowsMoveOn ==
    ASSUME ProductRows!RowsInv, NEW q \in Request, NEW r, ProductRows!Held(r),
           rowReq' = [rowReq EXCEPT ![q] = r],
           UNCHANGED <<product, variant, wishlists, views, objects, shipped, wanted, excused>>
    PROVE  ProductRows!RowsInv'
<1>1. ProductRows!Held(r)'
    BY RowsHeldOn
<1>2. \A p \in Request : ProductRows!Held(rowReq[p])'
    BY <1>1, RowsHeld
<1>3. ProductRows!RowTypes' BY DEF ProductRows!RowsInv, ProductRows!RowTypes
<1> QED BY <1>2, <1>3 DEF ProductRows!RowsInv, ProductRows!CountersMatchRows,
        ProductRows!EditsStand, ProductRows!NoBrokenImage

LEMMA RowsRead ==
    ASSUME ProductRows!RowsInv, NEW q \in Request,
           \/ ProductRows!UpdateProduct(q) \/ ProductRows!UpdateVariant(q)
           \/ ProductRows!UploadVariantImage(q) \/ ProductRows!Fail(q)
           \/ ProductRows!GetProduct(q) \/ ProductRows!AddWishlist(q)
    PROVE  ProductRows!RowsInv'
<1> USE DEF ProductRows!Step, ProductRows!history
<1>1. /\ product \in ProductRows!ProductRow /\ variant \in ProductRows!VariantRow
      /\ ProductRows!ShownWith(variant.images)
    BY DEF ProductRows!RowsInv, ProductRows!RowTypes, ProductRows!NoBrokenImage,
           ProductRows!ShownWith
<1>2. CASE ProductRows!UpdateProduct(q)
    <2>1. PICK patch \in [{"name"} -> {"new"}] \cup [{"status"} -> ProductRows!Status] :
             rowReq' = [rowReq EXCEPT ![q] = [ProductRows!Idle EXCEPT
                           !.pc = "update product", !.patch = patch,
                           !.product = [f \in ProductRows!Columns |-> product[f]]]]
        BY <1>2 DEF ProductRows!UpdateProduct
    <2> DEFINE r == [ProductRows!Idle EXCEPT
                           !.pc = "update product", !.patch = patch,
                           !.product = [f \in ProductRows!Columns |-> product[f]]]
    <2>2. /\ r.pc = "update product" /\ r.patch = patch /\ DOMAIN r = DOMAIN ProductRows!Idle
          /\ r.product = [f \in ProductRows!Columns |-> product[f]]
        BY DEF ProductRows!Idle
    <2>3. product["name"] \in {"none", "old", "new"} /\ product["status"] \in ProductRows!Status
        BY <1>1 DEF ProductRows!ProductRow
    <2>4. ProductRows!Held(r)
        BY <2>2, <2>3 DEF ProductRows!Held, ProductRows!Columns
    <2> HIDE DEF r
    <2> QED BY <2>1, <2>4, <1>2, RowsMoveOn DEF ProductRows!UpdateProduct, r
<1>3. CASE ProductRows!UpdateVariant(q)
    <2>1. PICK patch \in [{"color"} -> {"new"}] \cup [{"status"} -> ProductRows!Status] :
             rowReq' = [rowReq EXCEPT ![q] = [ProductRows!Idle EXCEPT
                           !.pc = "update variant", !.variant = variant,
                           !.patch = [f \in DOMAIN patch \cup {"images"} |->
                                  IF f = "images" THEN variant.images ELSE patch[f]]]]
        BY <1>3 DEF ProductRows!UpdateVariant
    <2> DEFINE changes == [f \in DOMAIN patch \cup {"images"} |->
                                  IF f = "images" THEN variant.images ELSE patch[f]]
               r == [ProductRows!Idle EXCEPT !.pc = "update variant", !.variant = variant,
                                             !.patch = changes]
    <2>2. DOMAIN r = DOMAIN ProductRows!Idle /\ r.pc = "update variant" /\ r.variant = variant /\ r.patch = changes /\ r.image = 0
        BY DEF ProductRows!Idle
    <2>3. /\ DOMAIN changes = DOMAIN patch \cup {"images"} /\ changes["images"] = variant.images
          /\ \A f \in DOMAIN patch : f # "images" => changes[f] = patch[f]
        OBVIOUS
    <2>4. DOMAIN patch \in {{"color"}, {"status"}}
        OBVIOUS
    <2>5. /\ "color" \in DOMAIN patch => patch["color"] = "new"
          /\ "status" \in DOMAIN patch => patch["status"] \in ProductRows!Status
        OBVIOUS
    <2> HIDE DEF changes
    <2>6. /\ DOMAIN changes \subseteq {"color", "status", "images"} /\ "images" \in DOMAIN changes
          /\ "color" \in DOMAIN changes => changes["color"] = "new"
          /\ "status" \in DOMAIN changes => changes["status"] \in ProductRows!Status
          /\ changes["images"] = variant.images \cup {}
          /\ ProductRows!ShownWith(changes["images"])
        BY <1>1, <2>3, <2>4, <2>5
    <2> HIDE DEF r
    <2>7. ProductRows!Held(r)
        BY <1>1, <2>2, <2>6 DEF ProductRows!Held
    <2> QED BY <2>1, <2>7, <1>3, RowsMoveOn DEF ProductRows!UpdateVariant, r, changes
<1>4. CASE ProductRows!UploadVariantImage(q)
    <2>1. PICK i \in ProductRows!Image :
             rowReq' = [rowReq EXCEPT ![q] = [ProductRows!Idle EXCEPT
                           !.pc = "upload", !.variant = variant, !.image = i]]
        BY <1>4 DEF ProductRows!UploadVariantImage
    <2> DEFINE r == [ProductRows!Idle EXCEPT !.pc = "upload", !.variant = variant, !.image = i]
    <2>2. DOMAIN r = DOMAIN ProductRows!Idle /\ r.pc = "upload" /\ r.variant = variant /\ r.image = i
        BY DEF ProductRows!Idle
    <2> HIDE DEF r
    <2>3. ProductRows!Held(r)
        BY <1>1, <2>2 DEF ProductRows!Held
    <2> QED BY <2>1, <2>3, <1>4, RowsMoveOn DEF ProductRows!UploadVariantImage, r
<1>5. CASE ProductRows!Fail(q)
    BY <1>5, RowsMoveOn, RowsIdle DEF ProductRows!Fail, ProductRows!Done
<1>6. CASE ProductRows!GetProduct(q) \/ ProductRows!AddWishlist(q)
    <2>1. PICK pc \in {"view", "wish"}, v \in Visitor :
             rowReq' = [rowReq EXCEPT ![q] = [ProductRows!Idle EXCEPT !.pc = pc, !.visitor = v]]
        BY <1>6 DEF ProductRows!GetProduct, ProductRows!AddWishlist, ProductRows!Visit
    <2> DEFINE r == [ProductRows!Idle EXCEPT !.pc = pc, !.visitor = v]
    <2>2. DOMAIN r = DOMAIN ProductRows!Idle /\ r.pc = pc /\ r.visitor = v
        BY DEF ProductRows!Idle
    <2> HIDE DEF r
    <2>3. ProductRows!Held(r)
        BY <2>2 DEF ProductRows!Held
    <2> QED BY <2>1, <2>3, <1>6, RowsMoveOn
            DEF ProductRows!GetProduct, ProductRows!AddWishlist, ProductRows!Visit, r
<1> QED BY <1>2, <1>3, <1>4, <1>5, <1>6

\* The sets that types are made of do not change.
LEMMA RowSets ==
    /\ ProductRows!Image' = ProductRows!Image /\ ProductRows!Status' = ProductRows!Status
    /\ ProductRows!ProductRow' = ProductRows!ProductRow
    /\ ProductRows!VariantRow' = ProductRows!VariantRow
    /\ ProductRows!Wanted' = ProductRows!Wanted /\ ProductRows!Columns' = ProductRows!Columns
    /\ ProductRows!Idle' = ProductRows!Idle
<1>1. ProductRows!Image' = ProductRows!Image BY DEF ProductRows!Image
<1>2. ProductRows!Status' = ProductRows!Status BY DEF ProductRows!Status
<1> QED BY <1>1, <1>2 DEF ProductRows!ProductRow, ProductRows!VariantRow, ProductRows!Wanted,
        ProductRows!Columns, ProductRows!Idle

LEMMA RowsUpload ==
    ASSUME ProductRows!ProductRowsAssumption, ProductRows!RowsInv, NEW q \in Request,
           ProductRows!Upload(q) \/ ProductRows!UploadThumb(q)
    PROVE  ProductRows!RowsInv'
<1> USE DEF ProductRows!Step, ProductRows!history
<1>1. /\ UNCHANGED <<product, variant, wishlists, views, shipped, wanted, excused>>
      /\ rowReq[q].pc \in {"upload", "upload thumb"}
    BY DEF ProductRows!Upload, ProductRows!UploadThumb
<1>2. PICK old : old = rowReq[q] OBVIOUS
<1>3. ProductRows!Held(old) BY <1>2 DEF ProductRows!RowsInv
<1>4. /\ old.pc \in {"upload", "upload thumb"}
      /\ old.variant \in ProductRows!VariantRow /\ old.image \in ProductRows!Image
      /\ ProductRows!ShownWith(old.variant.images)
      /\ DOMAIN old = DOMAIN ProductRows!Idle
      /\ DOMAIN old = {"pc", "patch", "product", "variant", "visitor", "image"}
    BY <1>1, <1>2, <1>3 DEF ProductRows!Held, ProductRows!Idle
<1>5. CASE ProductRows!Upload(q)
    <2> DEFINE r == [old EXCEPT !.pc = "upload thumb"]
    <2>1. rowReq' = [rowReq EXCEPT ![q] = r] /\ objects' = objects \cup {<<old.image, "full">>}
        BY <1>2, <1>5 DEF ProductRows!Upload
    <2>2. /\ r.pc = "upload thumb" /\ r.variant = old.variant /\ r.image = old.image
          /\ DOMAIN r = DOMAIN old
        BY <1>4
    <2>3. ProductRows!ShownWith(old.variant.images)'
        BY <1>4, <2>1 DEF ProductRows!ShownWith
    <2> HIDE DEF r
    <2>4. PICK x : x = r OBVIOUS
    <2>5. ProductRows!Held(x)'
        BY <1>4, <2>1, <2>2, <2>3, <2>4
           DEF ProductRows!Held, ProductRows!VariantRow, ProductRows!Image, ProductRows!Status,
               ProductRows!Idle
    <2>6. \A p \in Request : ProductRows!Held(rowReq[p])'
        BY <2>1, <2>4, <2>5, RowsHeld
    <2>7. ProductRows!RowTypes'
        <3>1. <<old.image, "full">> \in ProductRows!Image \X {"full", "thumb"} BY <1>4
        <3> HIDE <1>4
        <3>2. DOMAIN rowReq' = DOMAIN rowReq BY <2>1
        <3> QED BY <1>1, <2>1, <3>1, <3>2, RowSets DEF ProductRows!RowsInv, ProductRows!RowTypes
    <2> QED BY <1>1, <2>1, <2>6, <2>7 DEF ProductRows!RowsInv, ProductRows!CountersMatchRows,
            ProductRows!EditsStand, ProductRows!NoBrokenImage
<1>6. CASE ProductRows!UploadThumb(q)
    <2> DEFINE patch == [f \in {"images"} |-> old.variant.images \cup {old.image}]
               r == [old EXCEPT !.pc = "update variant", !.patch = patch]
    <2>1. rowReq' = [rowReq EXCEPT ![q] = r] /\ objects' = objects \cup {<<old.image, "thumb">>}
        BY <1>2, <1>6 DEF ProductRows!UploadThumb
    <2>2. /\ r.pc = "update variant" /\ r.variant = old.variant /\ r.image = old.image
          /\ r.patch = patch /\ DOMAIN r = DOMAIN old
        BY <1>4
    <2>3. <<old.image, "full">> \in objects
        BY <1>2, <1>3, <1>6 DEF ProductRows!Held, ProductRows!UploadThumb
    <2>4. ProductRows!ShownWith(old.variant.images \cup {old.image})'
        BY <1>4, <2>1, <2>3 DEF ProductRows!ShownWith
    <2>5. /\ DOMAIN patch = {"images"} /\ patch["images"] = old.variant.images \cup {old.image}
        OBVIOUS
    <2>6. old.image # 0
        <3>1. old.image \in ProductRows!Image BY <1>4
        <3>2. MaxImage \in Nat BY DEF ProductRows!ProductRowsAssumption
        <3>3. 0 \notin 1..MaxImage BY <3>2
        <3> QED BY <3>1, <3>3 DEF ProductRows!Image
    <2> HIDE DEF r, patch
    <2>7. PICK x : x = r OBVIOUS
    <2>8. ProductRows!Held(x)'
        <3>1. /\ x.pc = "update variant" /\ DOMAIN x = DOMAIN ProductRows!Idle
              /\ x.variant \in ProductRows!VariantRow /\ x.image \in ProductRows!Image \cup {0}
              /\ DOMAIN x.patch = {"images"}
              /\ x.patch["images"] = x.variant.images \cup (IF x.image = 0 THEN {} ELSE {x.image})
              /\ ProductRows!ShownWith(x.patch["images"])'
            BY <1>4, <2>2, <2>4, <2>5, <2>6, <2>7
        <3> QED BY <3>1, RowSets DEF ProductRows!Held
    <2>9. \A p \in Request : ProductRows!Held(rowReq[p])'
        BY <2>1, <2>7, <2>8, RowsHeld
    <2>10. ProductRows!RowTypes'
        <3>1. <<old.image, "thumb">> \in ProductRows!Image \X {"full", "thumb"} BY <1>4
        <3> HIDE <1>4
        <3>2. DOMAIN rowReq' = DOMAIN rowReq BY <2>1
        <3> QED BY <1>1, <2>1, <3>1, <3>2, RowSets DEF ProductRows!RowsInv, ProductRows!RowTypes
    <2> QED BY <1>1, <2>1, <2>9, <2>10 DEF ProductRows!RowsInv, ProductRows!CountersMatchRows,
            ProductRows!EditsStand, ProductRows!NoBrokenImage
<1> QED BY <1>5, <1>6 DEF ProductRows!Upload, ProductRows!UploadThumb

\* What a step leaves of the requests when it ends one, or none, and the image store
\* stays as it is.
LEMMA RowsDone ==
    ASSUME ProductRows!RowsInv, objects' = objects,
           \/ rowReq' = rowReq
           \/ \E q \in Request : rowReq' = [rowReq EXCEPT ![q] = ProductRows!Idle]
    PROVE  (\A p \in Request : ProductRows!Held(rowReq[p])') /\ DOMAIN rowReq' = Request
<1>1. DOMAIN rowReq = Request BY DEF ProductRows!RowsInv, ProductRows!RowTypes
<1>2. CASE rowReq' = rowReq
    <2>1. \A p \in Request : ProductRows!Held(rowReq[p]) BY DEF ProductRows!RowsInv
    <2>2. ASSUME NEW p \in Request PROVE ProductRows!Held(rowReq[p])'
        <3>1. PICK x : x = rowReq[p] OBVIOUS
        <3>2. ProductRows!Held(x)' BY <2>1, <3>1, RowsHeldOn
        <3>3. rowReq'[p] = x BY <1>2, <3>1
        <3> QED BY <3>2, <3>3 DEF ProductRows!Held, ProductRows!ShownWith
    <2> QED BY <1>1, <1>2, <2>2
<1>3. ASSUME NEW q \in Request, rowReq' = [rowReq EXCEPT ![q] = ProductRows!Idle]
      PROVE  (\A p \in Request : ProductRows!Held(rowReq[p])') /\ DOMAIN rowReq' = Request
    <2>1. ProductRows!Idle' = ProductRows!Idle BY DEF ProductRows!Idle
    <2>2. PICK x : x = ProductRows!Idle OBVIOUS
    <2>3. ProductRows!Held(x)' BY <2>2, RowsIdle, RowsHeldOn
    <2>4. \A p \in Request : ProductRows!Held(rowReq[p])' BY <1>3, <2>2, <2>3, RowsHeld
    <2> QED BY <1>1, <1>3, <2>4
<1> QED BY <1>2, <1>3

\* A field of the product's row that a step sets.
LEMMA RowsCount ==
    ASSUME ProductRows!RowsInv, NEW n \in Nat, NEW f \in {"wishlist", "views", "sold"},
           product' = [product EXCEPT ![f] = n]
    PROVE  /\ product' \in ProductRows!ProductRow /\ product'[f] = n
           /\ \A g \in {"there", "name", "status", "wishlist", "views", "sold"} \ {f} :
                  product'[g] = product[g]
<1>1. product \in ProductRows!ProductRow BY DEF ProductRows!RowsInv, ProductRows!RowTypes
<1>2. /\ product' \in ProductRows!ProductRow
    BY <1>1 DEF ProductRows!ProductRow
<1>3. DOMAIN product = {"there", "name", "status", "wishlist", "views", "sold"}
    BY <1>1 DEF ProductRows!ProductRow
<1> QED BY <1>2, <1>3

\* Staff write the row they read, with their fields.
LEMMA RowsWriteProduct ==
    ASSUME ProductRows!RowsInv, NEW q \in Request, ProductRows!UpdateProductRow(q)
    PROVE  ProductRows!RowsInv'
<1> USE DEF ProductRows!Step
<1> DEFINE r == rowReq[q]
           saved == ProductRows!Merge(r.product, r.patch)
<1>1. /\ r.pc = "update product" /\ product.there
      /\ product' = [f \in DOMAIN product |->
                        IF f \in ProductRows!Columns THEN saved[f] ELSE product[f]]
      /\ excused' = (excused \/ \E f \in {"name", "status"} : product[f] # r.product[f])
      /\ wanted' = IF excused' THEN ProductRows!Nothing ELSE ProductRows!Merge(wanted, r.patch)
      /\ rowReq' = [rowReq EXCEPT ![q] = ProductRows!Idle]
      /\ UNCHANGED <<variant, wishlists, views, objects, shipped>>
    BY DEF ProductRows!UpdateProductRow, ProductRows!Done
<1>2. /\ DOMAIN r.product = {"name", "status"}
      /\ r.product["name"] \in {"none", "old", "new"} /\ r.product["status"] \in ProductRows!Status
      /\ r.patch \in [{"name"} -> {"new"}] \cup [{"status"} -> ProductRows!Status]
    BY <1>1 DEF ProductRows!RowsInv, ProductRows!Held, ProductRows!Columns
<1>3. PICK p : p = r.patch OBVIOUS
<1>4. /\ saved = [f \in {"name", "status"} |-> IF f \in DOMAIN p THEN p[f] ELSE r.product[f]]
      /\ ProductRows!Merge(wanted, r.patch)
             = [f \in DOMAIN wanted |-> IF f \in DOMAIN p THEN p[f] ELSE wanted[f]]
    BY <1>2, <1>3 DEF ProductRows!Merge
<1>5. \/ DOMAIN p = {"name"} /\ p["name"] = "new"
      \/ DOMAIN p = {"status"} /\ p["status"] \in ProductRows!Status
    BY <1>2, <1>3
<1>6. /\ saved["name"] = (IF "name" \in DOMAIN p THEN p["name"] ELSE r.product["name"])
      /\ saved["status"] = (IF "status" \in DOMAIN p THEN p["status"] ELSE r.product["status"])
    BY <1>4
<1>7. saved["name"] \in {"none", "old", "new"} /\ saved["status"] \in ProductRows!Status
    BY <1>2, <1>5, <1>6
<1>8. product \in ProductRows!ProductRow /\ wanted \in ProductRows!Wanted
    BY DEF ProductRows!RowsInv, ProductRows!RowTypes
<1> HIDE DEF saved
<1>9. /\ DOMAIN product = {"there", "name", "status", "wishlist", "views", "sold"}
      /\ DOMAIN wanted = {"name", "status", "color", "variant", "images"}
    BY <1>8 DEF ProductRows!ProductRow, ProductRows!Wanted
<1>10. product' = [product EXCEPT !["name"] = saved["name"], !["status"] = saved["status"]]
    BY <1>1, <1>9 DEF ProductRows!Columns
<1>11. /\ product'.name = saved["name"] /\ product'.status = saved["status"]
       /\ product'.there = product.there /\ product'.wishlist = product.wishlist
       /\ product'.views = product.views /\ product'.sold = product.sold
    BY <1>9, <1>10
<1>12. product' \in ProductRows!ProductRow
    BY <1>7, <1>8, <1>10 DEF ProductRows!ProductRow
<1>13. wanted' \in ProductRows!Wanted
    <2>1. CASE excused' BY <2>1, <1>1, RowValues
    <2>2. CASE ~excused'
        <3>1. wanted' = [f \in DOMAIN wanted |-> IF f \in DOMAIN p THEN p[f] ELSE wanted[f]]
            BY <2>2, <1>1, <1>4
        <3>2. CASE DOMAIN p = {"name"} /\ p["name"] = "new"
            <4>1. wanted' = [wanted EXCEPT !["name"] = "new"] BY <3>1, <3>2, <1>9
            <4> QED BY <4>1, <1>8 DEF ProductRows!Wanted
        <3>3. CASE DOMAIN p = {"status"} /\ p["status"] \in ProductRows!Status
            <4>1. wanted' = [wanted EXCEPT !["status"] = p["status"]] BY <3>1, <3>3, <1>9
            <4> QED BY <4>1, <3>3, <1>8 DEF ProductRows!Wanted
        <3> QED BY <3>2, <3>3, <1>5
    <2> QED BY <2>1, <2>2
<1>14. excused \in BOOLEAN BY DEF ProductRows!RowsInv, ProductRows!RowTypes
<1>15. excused' \in BOOLEAN
    BY <1>1, <1>14
<1>16. (\A x \in Request : ProductRows!Held(rowReq[x])') /\ DOMAIN rowReq' = Request
    BY <1>1, RowsDone
<1>17. ProductRows!RowTypes'
    BY <1>1, <1>12, <1>13, <1>15, <1>16, RowSets DEF ProductRows!RowsInv, ProductRows!RowTypes
<1>18. ProductRows!CountersMatchRows'
    BY <1>1, <1>11 DEF ProductRows!RowsInv, ProductRows!CountersMatchRows
<1>19. ProductRows!EditsStand'
    <2> SUFFICES ASSUME ~excused'
                 PROVE  /\ product'.name = wanted'.name /\ product'.status = wanted'.status
                        /\ variant.there => /\ variant.color = wanted'.color
                                            /\ variant.status = wanted'.variant
                                            /\ variant.images = wanted'.images
        BY <1>1 DEF ProductRows!EditsStand
    <2>1. ~excused /\ product["name"] = r.product["name"] /\ product["status"] = r.product["status"]
        BY <1>1, <1>14
    <2>2. /\ product.name = wanted.name /\ product.status = wanted.status
          /\ variant.there => /\ variant.color = wanted.color /\ variant.status = wanted.variant
                              /\ variant.images = wanted.images
        BY <2>1, <1>1 DEF ProductRows!RowsInv, ProductRows!EditsStand
    <2>3. wanted' = [f \in DOMAIN wanted |-> IF f \in DOMAIN p THEN p[f] ELSE wanted[f]]
        BY <1>1, <1>4
    <2>4. /\ wanted'.color = wanted.color /\ wanted'.variant = wanted.variant
          /\ wanted'.images = wanted.images
          /\ wanted'.name = (IF "name" \in DOMAIN p THEN p["name"] ELSE wanted.name)
          /\ wanted'.status = (IF "status" \in DOMAIN p THEN p["status"] ELSE wanted.status)
        BY <2>3, <1>5, <1>9
    <2>5. product'.name = wanted'.name /\ product'.status = wanted'.status
        BY <2>1, <2>2, <2>4, <1>6, <1>11
    <2> QED BY <2>2, <2>4, <2>5
<1>20. ProductRows!NoBrokenImage'
    BY <1>1 DEF ProductRows!RowsInv, ProductRows!NoBrokenImage
<1> QED BY <1>16, <1>17, <1>18, <1>19, <1>20 DEF ProductRows!RowsInv

LEMMA RowsWriteVariant ==
    ASSUME ProductRows!RowsInv, NEW q \in Request, ProductRows!UpdateVariantRow(q)
    PROVE  ProductRows!RowsInv'
<1> USE DEF ProductRows!Step
<1>1. PICK r : r = rowReq[q] OBVIOUS
<1> DEFINE p == r.patch
           new == IF r.image = 0 THEN {} ELSE {r.image}
           says == IF "status" \in DOMAIN p THEN p["status"] ELSE wanted.variant
           color == IF "color" \in DOMAIN p THEN "new" ELSE wanted.color
           newWanted == [wanted EXCEPT !.color = color, !.variant = says,
                                       !.images = wanted.images \cup new]
<1>2. /\ r.pc = "update variant" /\ variant.there
      /\ variant' = [f \in DOMAIN r.variant |-> IF f \in DOMAIN p THEN p[f] ELSE r.variant[f]]
      /\ excused' = (excused \/ variant # r.variant)
      /\ wanted' = IF excused' THEN ProductRows!Nothing ELSE newWanted
      /\ rowReq' = [rowReq EXCEPT ![q] = ProductRows!Idle]
      /\ UNCHANGED <<product, wishlists, views, objects, shipped>>
    BY <1>1 DEF ProductRows!UpdateVariantRow, ProductRows!Done, ProductRows!Merge
<1>3. /\ r.variant \in ProductRows!VariantRow /\ r.image \in ProductRows!Image \cup {0}
      /\ DOMAIN p \subseteq {"color", "status", "images"} /\ "images" \in DOMAIN p
      /\ "color" \in DOMAIN p => p["color"] = "new"
      /\ "status" \in DOMAIN p => p["status"] \in ProductRows!Status
      /\ p["images"] = r.variant.images \cup new
      /\ ProductRows!ShownWith(p["images"])
    BY <1>1, <1>2 DEF ProductRows!RowsInv, ProductRows!Held
<1>4. /\ product \in ProductRows!ProductRow /\ wanted \in ProductRows!Wanted
      /\ variant \in ProductRows!VariantRow /\ excused \in BOOLEAN
    BY DEF ProductRows!RowsInv, ProductRows!RowTypes
<1>5. /\ DOMAIN r.variant = {"there", "color", "status", "images"}
      /\ DOMAIN wanted = {"name", "status", "color", "variant", "images"}
      /\ r.variant.images \subseteq ProductRows!Image /\ wanted.images \subseteq ProductRows!Image
      /\ wanted.variant \in ProductRows!Status /\ wanted.color \in {"old", "new"}
    BY <1>3, <1>4 DEF ProductRows!VariantRow, ProductRows!Wanted
<1>6. new \subseteq ProductRows!Image BY <1>3
<1>7. says \in ProductRows!Status /\ color \in {"old", "new"} BY <1>3, <1>5
<1> HIDE DEF p, new, says, color
<1>8. /\ newWanted \in ProductRows!Wanted
      /\ newWanted.name = wanted.name /\ newWanted.status = wanted.status
      /\ newWanted.color = color /\ newWanted.variant = says
      /\ newWanted.images = wanted.images \cup new
    <2>1. newWanted \in ProductRows!Wanted
        BY <1>4, <1>5, <1>6, <1>7 DEF ProductRows!Wanted
    <2> QED BY <2>1, <1>5
<1> HIDE DEF newWanted
<1>9. wanted' \in ProductRows!Wanted BY <1>2, <1>8, RowValues
<1> DEFINE newColor == IF "color" \in DOMAIN p THEN p["color"] ELSE r.variant.color
           newStatus == IF "status" \in DOMAIN p THEN p["status"] ELSE r.variant.status
<1>10. variant' = [r.variant EXCEPT !["color"] = newColor, !["status"] = newStatus,
                                    !["images"] = p["images"]]
    BY <1>2, <1>3, <1>5
<1>11. newColor \in {"none", "old", "new"} /\ newStatus \in ProductRows!Status
       /\ p["images"] \subseteq ProductRows!Image
    <2>1. r.variant.color \in {"none", "old", "new"} /\ r.variant.status \in ProductRows!Status
        BY <1>3 DEF ProductRows!VariantRow
    <2> QED BY <2>1, <1>3, <1>5, <1>6
<1> HIDE DEF newColor, newStatus
<1>12. variant' \in ProductRows!VariantRow
    BY <1>3, <1>10, <1>11 DEF ProductRows!VariantRow
<1>13. /\ variant'.there = r.variant.there /\ variant'.color = newColor
       /\ variant'.status = newStatus /\ variant'.images = p["images"]
    BY <1>5, <1>10
<1>14. excused' \in BOOLEAN BY <1>2, <1>4
<1>15. (\A x \in Request : ProductRows!Held(rowReq[x])') /\ DOMAIN rowReq' = Request
    BY <1>2, RowsDone
<1>16. ProductRows!RowTypes'
    BY <1>2, <1>9, <1>12, <1>14, <1>15, RowSets DEF ProductRows!RowsInv, ProductRows!RowTypes
<1>17. ProductRows!CountersMatchRows'
    BY <1>2 DEF ProductRows!RowsInv, ProductRows!CountersMatchRows
<1>18. ProductRows!EditsStand'
    <2> SUFFICES ASSUME ~excused'
                 PROVE  /\ product.there => product.name = wanted'.name /\ product.status = wanted'.status
                        /\ variant'.color = wanted'.color /\ variant'.status = wanted'.variant
                        /\ variant'.images = wanted'.images
        BY <1>2 DEF ProductRows!EditsStand
    <2>1. ~excused /\ variant = r.variant BY <1>2, <1>4
    <2>2. /\ product.there => product.name = wanted.name /\ product.status = wanted.status
          /\ variant.color = wanted.color /\ variant.status = wanted.variant
          /\ variant.images = wanted.images
        BY <2>1, <1>2 DEF ProductRows!RowsInv, ProductRows!EditsStand
    <2>3. wanted' = newWanted BY <1>2
    <2>4. newColor = color /\ newStatus = says /\ p["images"] = wanted.images \cup new
        BY <2>1, <2>2, <1>3 DEF newColor, newStatus, color, says
    <2> QED BY <2>2, <2>3, <2>4, <1>8, <1>13
<1>19. ProductRows!NoBrokenImage'
    BY <1>2, <1>3, <1>13 DEF ProductRows!NoBrokenImage, ProductRows!ShownWith
<1> QED BY <1>15, <1>16, <1>17, <1>18, <1>19 DEF ProductRows!RowsInv

\* A row more or less is counted, and the counter cannot pass the number of visitors.
LEMMA RowsCardinal ==
    ASSUME ProductRows!ProductRowsAssumption, NEW S \in SUBSET Visitor, NEW v \in Visitor
    PROVE  /\ ProductRows!Cardinality(S) \in Nat
           /\ ProductRows!Cardinality(S) <= ProductRows!Cardinality(Visitor)
           /\ ProductRows!Cardinality(S \cup {v}) =
                 IF v \in S THEN ProductRows!Cardinality(S) ELSE ProductRows!Cardinality(S) + 1
           /\ v \in S => /\ ProductRows!Cardinality(S) > 0
                         /\ ProductRows!Cardinality(S \ {v}) = ProductRows!Cardinality(S) - 1
<1>1. IsFiniteSet(Visitor)
    BY RowsCardinality DEF ProductRows!ProductRowsAssumption
<1>2. IsFiniteSet(S) /\ Cardinality(S) <= Cardinality(Visitor)
    BY <1>1, FS_Subset
<1>3. Cardinality(S) \in Nat BY <1>2, FS_CardinalityType
<1>4. Cardinality(S \cup {v}) = IF v \in S THEN Cardinality(S) ELSE Cardinality(S) + 1
    BY <1>2, FS_AddElement
<1>5. v \in S => Cardinality(S \ {v}) = Cardinality(S) - 1
    BY <1>2, FS_RemoveElement
<1>6. v \in S => Cardinality(S) > 0
    <2>1. v \in S => Cardinality(S) # 0 BY <1>2, FS_EmptySet
    <2> QED BY <2>1, <1>3
<1> QED BY <1>2, <1>3, <1>4, <1>5, <1>6, RowsCardinality

LEMMA RowsVisit ==
    ASSUME ProductRows!ProductRowsAssumption, ProductRows!RowsInv,
           \/ \E q \in Request : ProductRows!RecordUniqueView(q) \/ ProductRows!AddWishlistRow(q)
           \/ \E v \in Visitor : ProductRows!RemoveWishlist(v)
           \/ ProductRows!CommitSale
    PROVE  ProductRows!RowsInv'
<1> USE DEF ProductRows!Step, ProductRows!history
<1>1. /\ product \in ProductRows!ProductRow /\ wishlists \subseteq Visitor /\ views \subseteq Visitor
      /\ shipped \in 0..MaxSold
    BY DEF ProductRows!RowsInv, ProductRows!RowTypes
<1>2. /\ product.wishlist = ProductRows!Cardinality(wishlists)
      /\ product.views = ProductRows!Cardinality(views) /\ product.sold = shipped
    BY DEF ProductRows!RowsInv, ProductRows!CountersMatchRows
<1>3. /\ product.wishlist \in Nat /\ product.views \in Nat /\ product.sold \in Nat
      /\ shipped \in Nat /\ MaxSold \in Nat
    BY <1>1 DEF ProductRows!ProductRow, ProductRows!ProductRowsAssumption
<1>4. PICK f \in {"wishlist", "views", "sold"}, n \in Nat :
          /\ product' = [product EXCEPT ![f] = n]
          /\ wishlists' \subseteq Visitor /\ views' \subseteq Visitor /\ shipped' \in 0..MaxSold
          /\ IF f = "wishlist" THEN n = ProductRows!Cardinality(wishlists')
                               ELSE wishlists' = wishlists
          /\ IF f = "views" THEN n = ProductRows!Cardinality(views') ELSE views' = views
          /\ IF f = "sold" THEN n = shipped' ELSE shipped' = shipped
    <2>1. ASSUME NEW q \in Request, ProductRows!RecordUniqueView(q)
          PROVE  \E n \in Nat : /\ product' = [product EXCEPT !["views"] = n]
                                /\ n = ProductRows!Cardinality(views')
                                /\ views' \subseteq Visitor /\ UNCHANGED <<wishlists, shipped>>
        <3>1. /\ rowReq[q].pc = "view" /\ views' = views \cup {rowReq[q].visitor}
              /\ product' = [product EXCEPT !.views = IF rowReq[q].visitor \in views THEN @ ELSE @ + 1]
              /\ UNCHANGED <<wishlists, shipped>>
            BY <2>1 DEF ProductRows!RecordUniqueView
        <3>2. rowReq[q].visitor \in Visitor
            BY <3>1 DEF ProductRows!RowsInv, ProductRows!Held
        <3> DEFINE n == IF rowReq[q].visitor \in views THEN product.views ELSE product.views + 1
        <3>3. product' = [product EXCEPT !["views"] = n] /\ n \in Nat BY <3>1, <1>3
        <3>4. n = ProductRows!Cardinality(views')
            <4>1. ProductRows!Cardinality(views \cup {rowReq[q].visitor})
                     = IF rowReq[q].visitor \in views THEN product.views ELSE product.views + 1
                <5>1. PICK v \in Visitor : v = rowReq[q].visitor BY <3>2
                <5>2. views \in SUBSET Visitor BY <1>1
                <5>3. ProductRows!Cardinality(views \cup {v}) =
                          IF v \in views THEN ProductRows!Cardinality(views)
                                         ELSE ProductRows!Cardinality(views) + 1
                    BY <5>2, RowsCardinal
                <5> QED BY <5>1, <5>3, <1>2
            <4> QED BY <4>1, <3>1
        <3> QED BY <3>1, <3>2, <3>3, <3>4, <1>1
    <2>2. ASSUME NEW q \in Request, ProductRows!AddWishlistRow(q)
          PROVE  \E n \in Nat : /\ product' = [product EXCEPT !["wishlist"] = n]
                                /\ n = ProductRows!Cardinality(wishlists')
                                /\ wishlists' \subseteq Visitor /\ UNCHANGED <<views, shipped>>
        <3>1. /\ rowReq[q].pc = "wish" /\ wishlists' = wishlists \cup {rowReq[q].visitor}
              /\ product' = [product EXCEPT !.wishlist =
                                IF rowReq[q].visitor \in wishlists THEN @ ELSE @ + 1]
              /\ UNCHANGED <<views, shipped>>
            BY <2>2 DEF ProductRows!AddWishlistRow
        <3>2. rowReq[q].visitor \in Visitor
            BY <3>1 DEF ProductRows!RowsInv, ProductRows!Held
        <3> DEFINE n == IF rowReq[q].visitor \in wishlists THEN product.wishlist
                                                           ELSE product.wishlist + 1
        <3>3. product' = [product EXCEPT !["wishlist"] = n] /\ n \in Nat BY <3>1, <1>3
        <3>4. n = ProductRows!Cardinality(wishlists') BY <3>1, <3>2, <1>1, <1>2, RowsCardinal
        <3> QED BY <3>1, <3>2, <3>3, <3>4, <1>1
    <2>3. ASSUME NEW v \in Visitor, ProductRows!RemoveWishlist(v)
          PROVE  \E n \in Nat : /\ product' = [product EXCEPT !["wishlist"] = n]
                                /\ n = ProductRows!Cardinality(wishlists')
                                /\ wishlists' \subseteq Visitor /\ UNCHANGED <<views, shipped>>
        <3>1. /\ v \in wishlists /\ wishlists' = wishlists \ {v}
              /\ product' = [product EXCEPT !.wishlist = IF @ > 0 THEN @ - 1 ELSE 0]
              /\ UNCHANGED <<views, shipped>>
            BY <2>3 DEF ProductRows!RemoveWishlist
        <3> DEFINE n == product.wishlist - 1
        <3>2. product.wishlist > 0 /\ n = ProductRows!Cardinality(wishlists')
            BY <3>1, <1>1, <1>2, RowsCardinal
        <3>3. product' = [product EXCEPT !["wishlist"] = n] /\ n \in Nat BY <3>1, <3>2, <1>3
        <3> QED BY <3>1, <3>2, <3>3, <1>1
    <2>4. ASSUME ProductRows!CommitSale
          PROVE  \E n \in Nat : /\ product' = [product EXCEPT !["sold"] = n]
                                /\ n = shipped' /\ shipped' \in 0..MaxSold
                                /\ UNCHANGED <<views, wishlists>>
        <3>1. /\ shipped < MaxSold /\ product' = [product EXCEPT !.sold = @ + 1]
              /\ shipped' = shipped + 1 /\ UNCHANGED <<views, wishlists>>
            BY <2>4 DEF ProductRows!CommitSale
        <3>2. product' = [product EXCEPT !["sold"] = shipped + 1] BY <3>1, <1>2
        <3>3. shipped + 1 \in Nat /\ shipped' \in 0..MaxSold BY <3>1, <1>1, <1>3
        <3> QED BY <3>1, <3>2, <3>3
    <2> HIDE DEF ProductRows!history
    <2> QED BY <2>1, <2>2, <2>3, <2>4, <1>1
<1>5. /\ UNCHANGED <<variant, objects, wanted, excused>>
      /\ rowReq' = rowReq \/ \E q \in Request : rowReq' = [rowReq EXCEPT ![q] = ProductRows!Idle]
    BY DEF ProductRows!RecordUniqueView, ProductRows!AddWishlistRow, ProductRows!RemoveWishlist,
           ProductRows!CommitSale, ProductRows!Done
<1>6. /\ product' \in ProductRows!ProductRow /\ product'[f] = n
      /\ \A g \in {"there", "name", "status", "wishlist", "views", "sold"} \ {f} :
             product'[g] = product[g]
    BY <1>4, RowsCount
<1>7. /\ product'.there = product.there /\ product'.name = product.name
      /\ product'.status = product.status
      /\ product'.wishlist = IF f = "wishlist" THEN n ELSE product.wishlist
      /\ product'.views = IF f = "views" THEN n ELSE product.views
      /\ product'.sold = IF f = "sold" THEN n ELSE product.sold
    BY <1>6
<1>8. (\A x \in Request : ProductRows!Held(rowReq[x])') /\ DOMAIN rowReq' = Request
    BY <1>5, RowsDone
<1>9. ProductRows!RowTypes'
    BY <1>4, <1>5, <1>6, <1>8, RowSets DEF ProductRows!RowsInv, ProductRows!RowTypes
<1>10. ProductRows!CountersMatchRows'
    <2>1. product'.wishlist = ProductRows!Cardinality(wishlists') BY <1>2, <1>4, <1>7
    <2>2. product'.views = ProductRows!Cardinality(views') BY <1>2, <1>4, <1>7
    <2>3. product'.sold = shipped' BY <1>2, <1>4, <1>7
    <2> QED BY <2>1, <2>2, <2>3 DEF ProductRows!CountersMatchRows
<1>11. ProductRows!EditsStand'
    BY <1>5, <1>7 DEF ProductRows!RowsInv, ProductRows!EditsStand
<1>12. ProductRows!NoBrokenImage'
    BY <1>5 DEF ProductRows!RowsInv, ProductRows!NoBrokenImage
<1> QED BY <1>8, <1>9, <1>10, <1>11, <1>12 DEF ProductRows!RowsInv

LEMMA RowsDelete ==
    ASSUME ProductRows!ProductRowsAssumption, ProductRows!RowsInv, ProductRows!DeleteProduct
    PROVE  ProductRows!RowsInv'
<1>1. /\ product' = ProductRows!Gone /\ variant' = ProductRows!NoVariant
      /\ wishlists' = {} /\ views' = {} /\ shipped' = 0 /\ wanted' = ProductRows!Nothing
      /\ UNCHANGED <<objects, rowReq, excused>>
    BY DEF ProductRows!DeleteProduct
<1>2. (\A x \in Request : ProductRows!Held(rowReq[x])') /\ DOMAIN rowReq' = Request
    BY <1>1, RowsDone
<1>3. 0 \in 0..MaxSold BY DEF ProductRows!ProductRowsAssumption
<1>4. ProductRows!RowTypes'
    BY <1>1, <1>2, <1>3, RowSets, RowValues DEF ProductRows!RowsInv, ProductRows!RowTypes
<1>5. ProductRows!CountersMatchRows'
    BY <1>1, RowFields, RowsCardinality, FS_EmptySet DEF ProductRows!CountersMatchRows
<1>6. ProductRows!EditsStand'
    BY <1>1, RowFields DEF ProductRows!EditsStand
<1>7. ProductRows!NoBrokenImage'
    BY <1>1, RowFields DEF ProductRows!NoBrokenImage
<1> QED BY <1>2, <1>4, <1>5, <1>6, <1>7 DEF ProductRows!RowsInv

LEMMA RowsStep ==
    ASSUME ProductRows!ProductRowsAssumption, ProductRows!RowsInv,
           ProductRows!Next \/ UNCHANGED rowVars
    PROVE  ProductRows!RowsInv'
<1>1. CASE UNCHANGED rowVars
    <2>1. UNCHANGED <<product, variant, wishlists, views, objects, rowReq, shipped, wanted, excused>>
        BY <1>1 DEF rowVars
    <2>2. (\A x \in Request : ProductRows!Held(rowReq[x])') /\ DOMAIN rowReq' = Request
        BY <2>1, RowsDone
    <2>3. ProductRows!RowTypes'
        BY <2>1, RowSets DEF ProductRows!RowsInv, ProductRows!RowTypes
    <2> QED BY <2>1, <2>2, <2>3 DEF ProductRows!RowsInv, ProductRows!CountersMatchRows,
            ProductRows!EditsStand, ProductRows!NoBrokenImage
<1>2. CASE ProductRows!Next
    BY <1>2, RowsRead, RowsUpload, RowsWriteProduct, RowsWriteVariant, RowsVisit, RowsDelete
       DEF ProductRows!Next
<1> QED BY <1>1, <1>2

LEMMA RowsTypeOK ==
    ASSUME ProductRows!ProductRowsAssumption, ProductRows!RowsInv
    PROVE  ProductRows!TypeOK
<1>1. /\ product \in ProductRows!ProductRow /\ variant \in ProductRows!VariantRow
      /\ wishlists \subseteq Visitor /\ views \subseteq Visitor
      /\ objects \subseteq ProductRows!Image \X {"full", "thumb"} /\ shipped \in 0..MaxSold
    BY DEF ProductRows!RowsInv, ProductRows!RowTypes
<1>2. /\ product.there \in BOOLEAN /\ product.status \in ProductRows!Status
      /\ product.name \in {"none", "old", "new"}
      /\ variant.there \in BOOLEAN /\ variant.status \in ProductRows!Status
      /\ variant.images \subseteq ProductRows!Image
      /\ product.views \in Nat /\ product.wishlist \in Nat
    BY <1>1 DEF ProductRows!ProductRow, ProductRows!VariantRow
<1>3. /\ ProductRows!Cardinality(wishlists) <= ProductRows!Cardinality(Visitor)
      /\ ProductRows!Cardinality(views) <= ProductRows!Cardinality(Visitor)
      /\ ProductRows!Cardinality(Visitor) \in Nat
    BY <1>1, RowsCardinality, FS_Subset, FS_CardinalityType DEF ProductRows!ProductRowsAssumption
<1>4. /\ product.wishlist = ProductRows!Cardinality(wishlists)
      /\ product.views = ProductRows!Cardinality(views)
    BY DEF ProductRows!RowsInv, ProductRows!CountersMatchRows
<1>5. /\ product.views \in 0..ProductRows!Cardinality(Visitor)
      /\ product.wishlist \in 0..ProductRows!Cardinality(Visitor)
    BY <1>2, <1>3, <1>4
<1> QED BY <1>1, <1>2, <1>5 DEF ProductRows!TypeOK

LEMMA RowsAlways == Spec => [](which = "rows" => ProductRows!RowsInv)
<1> DEFINE Inv == which = "rows" => ProductRows!RowsInv
<1>1. Init => Inv
    BY Assumptions, RowsStart DEF Init
<1>2. Inv /\ [Next]_vars => Inv'
    <2> SUFFICES ASSUME Inv, [Next]_vars, which' = "rows" PROVE ProductRows!RowsInv'
        OBVIOUS
    <2>1. which = "rows" /\ (ProductRows!Next \/ UNCHANGED rowVars)
        BY DEF Next, vars
    <2> QED BY <2>1, Assumptions, RowsStep
<1> QED BY <1>1, <1>2, PTL DEF Spec

\* ProductRowsAgree: for any number of requests, visitors, images and sales, the
\* counters of a product count its rows though staff save the row around them, edits
\* that did not overlap stand, and an image that is listed has both its objects
\* (product/pkg/infra/pg/product_store.go and wishlist_store.go, product/pkg/domain/enrich.go).
THEOREM ProductRowsAgreeHolds == Spec => []ProductRowsAgree
<1>1. (which = "rows" => ProductRows!RowsInv) => ProductRowsAgree
    BY DEF ProductRowsAgree, ProductRows!RowsInv
<1> QED BY <1>1, RowsAlways, PTL

-----------------------------------------------------------------------------
(* The transactions of a cart *)

LEMMA CartPlans ==
    /\ Len(Cart!PlanOf("replace")) = 3 /\ Cart!PlanOf("replace")[1] = "touch"
    /\ Cart!PlanOf("replace")[2] = "delete all" /\ Cart!PlanOf("replace")[3] = "insert"
    /\ Len(Cart!PlanOf("upsert")) = 2 /\ Cart!PlanOf("upsert")[1] = "touch"
    /\ Cart!PlanOf("upsert")[2] = "insert"
    /\ Len(Cart!PlanOf("remove")) = 2 /\ Cart!PlanOf("remove")[1] = "touch existing"
    /\ Cart!PlanOf("remove")[2] = "delete line"
    /\ Len(Cart!PlanOf("clear")) = 3 /\ Cart!PlanOf("clear")[1] = "delete all"
    /\ Cart!PlanOf("clear")[2] = "delete cart" /\ Cart!PlanOf("clear")[3] = "cascade"
BY DEF Cart!PlanOf

LEMMA CartPlanTypes == \A op \in Cart!Writes : Cart!PlanOf(op) \in Seq(Cart!Statements)
<1>1. /\ Cart!PlanOf("replace") \in Seq(Cart!Statements)
      /\ Cart!PlanOf("upsert") \in Seq(Cart!Statements)
      /\ Cart!PlanOf("remove") \in Seq(Cart!Statements)
      /\ Cart!PlanOf("clear") \in Seq(Cart!Statements)
    BY DEF Cart!PlanOf, Cart!Statements
<1> QED BY <1>1 DEF Cart!Writes

LEMMA CartPlanLength == \A op \in Cart!Writes : Len(Cart!PlanOf(op)) \in {2, 3}
BY CartPlans DEF Cart!Writes

LEMMA CartPlanSteps ==
    ASSUME NEW op \in Cart!Writes, NEW n \in 1..Len(Cart!PlanOf(op))
    PROVE  /\ n \in {1, 2, 3}
           /\ Cart!PlanOf(op)[n] = "delete line" => op = "remove"
           /\ op \in {"replace", "upsert"} /\ n = 1 => Cart!PlanOf(op)[n] = "touch"
           /\ op = "upsert" /\ n = 2 => Cart!PlanOf(op)[n] = "insert"
           /\ op = "replace" /\ n = 2 => Cart!PlanOf(op)[n] = "delete all"
           /\ op = "replace" /\ n = 3 => Cart!PlanOf(op)[n] = "insert"
           /\ op = "remove" /\ n = 1 => Cart!PlanOf(op)[n] = "touch existing"
           /\ op = "remove" /\ n # 1 => Cart!PlanOf(op)[n] = "delete line" /\ n = 2
           /\ op = "clear" /\ n = 1 => Cart!PlanOf(op)[n] = "delete all"
           /\ op = "clear" /\ n = 2 => Cart!PlanOf(op)[n] = "delete cart"
           /\ op = "clear" /\ n = 3 => Cart!PlanOf(op)[n] = "cascade"
<1>1. CASE op = "replace"
    <2>0. Len(Cart!PlanOf(op)) = 3 BY <1>1, CartPlans
    <2>1. n = 1 \/ n = 2 \/ n = 3
        <3> HIDE <1>1
        <3> QED BY <2>0
    <2> QED BY <1>1, <2>1, CartPlans
<1>2. CASE op = "upsert"
    <2>0. Len(Cart!PlanOf(op)) = 2 BY <1>2, CartPlans
    <2>1. n = 1 \/ n = 2
        <3> HIDE <1>2
        <3> QED BY <2>0
    <2> QED BY <1>2, <2>1, CartPlans
<1>3. CASE op = "remove"
    <2>0. Len(Cart!PlanOf(op)) = 2 BY <1>3, CartPlans
    <2>1. n = 1 \/ n = 2
        <3> HIDE <1>3
        <3> QED BY <2>0
    <2> QED BY <1>3, <2>1, CartPlans
<1>4. CASE op = "clear"
    <2>0. Len(Cart!PlanOf(op)) = 3 BY <1>4, CartPlans
    <2>1. n = 1 \/ n = 2 \/ n = 3
        <3> HIDE <1>4
        <3> QED BY <2>0
    <2> QED BY <1>4, <2>1, CartPlans
<1> QED BY <1>1, <1>2, <1>3, <1>4 DEF Cart!Writes

LEMMA CartSums ==
    /\ \A a, b \in Nat : \A d : b <= a /\ d = a - b => d \in 0..a /\ b = a - d
    /\ \A a, b, d, l \in Int : b = a - d /\ l = b - 1 => a - l = d + 1
OBVIOUS

LEMMA CartNames ==
    ASSUME NEW c, NEW d, NEW v, NEW w
    PROVE  /\ Cart!CartRow(c) # Cart!ItemRow(d, v)
           /\ Cart!ItemRow(c, v) = Cart!ItemRow(d, w) => c = d /\ v = w
           /\ Cart!CartRow(c) = Cart!CartRow(d) => c = d
BY DEF Cart!CartRow, Cart!ItemRow

LEMMA CartStatus ==
    /\ Cart!StatusOf("ok") = 200 /\ Cart!StatusOf("insufficient stock") = 400
    /\ Cart!StatusOf("forbidden") = 403 /\ Cart!StatusOf("variant not found") = 422
    /\ Cart!StatusOf("product down") = 503 /\ Cart!StatusOf("internal") = 500
    /\ \A err \in {"insufficient stock", "forbidden", "variant not found", "product down",
                   "internal"} : Cart!StatusOf(err) # Cart!StatusOf("ok")
BY DEF Cart!StatusOf

LEMMA CartNothing ==
    ASSUME Cart!CartAssumption
    PROVE  Cart!NoItems \in Cart!Contents /\ Cart!Lines(Cart!NoItems) = {}
BY DEF Cart!CartAssumption, Cart!NoItems, Cart!Contents, Cart!Lines

\* The record of a request that is not there.
LEMMA CartIdle ==
    /\ Cart!NoRequest.pc = "idle" /\ Cart!NoRequest.op = "none"
    /\ Cart!NoRequest.items = Cart!NoItems /\ Cart!NoRequest.stock = Cart!NoItems
    /\ Cart!NoRequest.todo = {} /\ Cart!NoRequest.missing = {}
    /\ Cart!NoRequest.plan = <<>> /\ Cart!NoRequest.route = <<>> /\ Cart!NoRequest.held = {}
    /\ Cart!NoRequest.saved = FALSE /\ Cart!NoRequest.answer = Cart!NoItems
    /\ Cart!NoRequest.seen = {} /\ Cart!NoRequest.cart = "none"
    /\ DOMAIN Cart!NoRequest =
          {"pc", "op", "cart", "items", "todo", "missing", "stock", "plan", "route", "held",
           "saved", "answer", "status", "seen"}
BY DEF Cart!NoRequest

LEMMA CartKept ==
    ASSUME NEW r, UNCHANGED <<cartRows, cartItems>>
    PROVE  Cart!RequestOK(r) => Cart!RequestOK(r)'
<1> USE DEF Cart!Writes, Cart!Saving, Cart!Begun, Cart!Ended, Cart!Ahead, Cart!OwnRows,
         Cart!Statements, Cart!ItemRows, Cart!ItemRow, Cart!CartRow, Cart!Lines, Cart!Contents,
         Cart!PlanOf, Cart!NoItems
<1>1. Cart!StageOK(r)' <=> Cart!StageOK(r) BY DEF Cart!StageOK
<1>2. Cart!RouteOK(r)' <=> Cart!RouteOK(r) BY DEF Cart!RouteOK
<1>3. Cart!LocksOK(r)' <=> Cart!LocksOK(r) BY DEF Cart!LocksOK
<1>4. Cart!CoverOK(r)' <=> Cart!CoverOK(r) BY DEF Cart!CoverOK, Cart!Covered
<1>5. Cart!StockOK(r)' <=> Cart!StockOK(r) BY DEF Cart!StockOK
<1>6. Cart!SeenOK(r)' <=> Cart!SeenOK(r) BY DEF Cart!SeenOK, Cart!StatusOf
<1> QED BY <1>1, <1>2, <1>3, <1>4, <1>5, <1>6 DEF Cart!RequestOK

\* A request that wrote nothing, or has nothing left to write, holds no row.
LEMMA CartReader ==
    ASSUME Cart!CartAssumption, NEW r,
           r.op \in {"none", "get"}, r.held = {},
           r.items \in Cart!Contents, r.stock \in Cart!Contents,
           r.todo \subseteq Thing, r.missing \subseteq Thing,
           r.pc \in {"idle", "read", "lines", "enrich", "cleared", "answered"},
           r.pc \notin {"idle", "answered"} => r.cart \in Customer,
           Cart!SeenOK(r)
    PROVE  Cart!RequestOK(r)
<1> USE DEF Cart!Writes, Cart!Saving, Cart!Statements
<1>1. Cart!StageOK(r) BY DEF Cart!StageOK
<1>2. Cart!RouteOK(r) BY DEF Cart!RouteOK
<1>3. Cart!LocksOK(r) BY DEF Cart!LocksOK
<1>4. Cart!CoverOK(r) BY DEF Cart!CoverOK
<1>5. Cart!StockOK(r) BY DEF Cart!StockOK
<1> QED BY <1>1, <1>2, <1>3, <1>4, <1>5 DEF Cart!RequestOK

\* A step of one request that leaves the tables alone.
LEMMA CartOnly ==
    ASSUME Cart!CartInv, NEW q \in Request, NEW r, DOMAIN r = DOMAIN Cart!NoRequest,
           Cart!RequestOK(r),
           \A p \in Request : p # q => r.held \cap cartReq[p].held = {},
           cartReq' = [cartReq EXCEPT ![q] = r],
           UNCHANGED <<cartRows, cartItems>>
    PROVE  Cart!CartInv'
<1>1. cartReq = [p \in Request |-> cartReq[p]] /\ Cart!TablesOK /\ Cart!Exclusive
    BY DEF Cart!CartInv
<1>2. cartReq'[q] = r /\ \A p \in Request : p # q => cartReq'[p] = cartReq[p]
    BY <1>1
<1>3. cartReq' = [p \in Request |-> cartReq'[p]]
    BY <1>1
<1>4. Cart!TablesOK'
    BY <1>1 DEF Cart!TablesOK, Cart!Contents, Cart!NoItems
<1>5. Cart!Exclusive'
    BY <1>1, <1>2 DEF Cart!Exclusive
<1>6. ASSUME NEW p \in Request
      PROVE  (DOMAIN cartReq[p] = DOMAIN Cart!NoRequest /\ Cart!RequestOK(cartReq[p]))'
    <2>1. PICK s : /\ s = cartReq'[p] /\ DOMAIN s = DOMAIN Cart!NoRequest
                   /\ Cart!RequestOK(s)
        BY <1>2 DEF Cart!CartInv
    <2>2. Cart!RequestOK(s)'
        BY <2>1, CartKept
    <2>3. DOMAIN Cart!NoRequest' = DOMAIN Cart!NoRequest
        BY DEF Cart!NoRequest, Cart!NoItems
    <2> QED BY <2>1, <2>2, <2>3
<1> QED BY <1>3, <1>4, <1>5, <1>6 DEF Cart!CartInv

\* A request that is refused, or fails.
LEMMA CartLeaves ==
    ASSUME Cart!CartAssumption, Cart!CartInv, NEW q \in Request, NEW code,
           code # Cart!StatusOf("ok"),
           cartReq[q].saved => code = Cart!StatusOf("internal"),
           cartReq' = [cartReq EXCEPT ![q] =
               [Cart!NoRequest EXCEPT !.pc = "answered", !.status = code,
                                      !.saved = cartReq[q].saved]],
           UNCHANGED <<cartRows, cartItems>>
    PROVE  Cart!CartInv'
<1>1. PICK r :
        /\ r.pc = "answered" /\ r.op = "none" /\ r.items = Cart!NoItems
        /\ r.stock = Cart!NoItems /\ r.todo = {} /\ r.missing = {} /\ r.held = {}
        /\ r.status = code /\ r.saved = cartReq[q].saved
        /\ DOMAIN r = DOMAIN Cart!NoRequest
        /\ cartReq' = [cartReq EXCEPT ![q] = r]
    BY CartIdle
<1>3. cartReq[q].saved \in BOOLEAN
    BY DEF Cart!CartInv, Cart!RequestOK, Cart!SeenOK
<1>5. Cart!SeenOK(r)
    <2>1. r.saved \in BOOLEAN BY <1>1, <1>3
    <2> QED BY <1>1, <2>1 DEF Cart!SeenOK
<1>6. /\ r.items \in Cart!Contents /\ r.stock \in Cart!Contents
      /\ r.todo \subseteq Thing /\ r.missing \subseteq Thing
      /\ r.pc = "answered" /\ r.op = "none" /\ r.held = {}
    BY <1>1, CartNothing
<1>7. Cart!RequestOK(r)
    BY <1>5, <1>6, CartReader
<1> QED BY <1>1, <1>7, CartOnly

LEMMA CartFails ==
    ASSUME Cart!CartAssumption, Cart!CartInv, NEW q \in Request,
           NEW err \in {"insufficient stock", "forbidden", "variant not found", "product down",
                        "internal"},
           Cart!Fail(q, err), cartReq[q].saved => err = "internal",
           UNCHANGED <<cartRows, cartItems>>
    PROVE  Cart!CartInv'
<1>1. Cart!StatusOf(err) # Cart!StatusOf("ok")
    BY Zenon, CartStatus
<1> QED BY <1>1, CartLeaves DEF Cart!Fail

\* A request comes.
LEMMA CartArrives ==
    ASSUME Cart!CartAssumption, Cart!CartInv, NEW q \in Request, NEW c \in Customer,
           NEW op, NEW items \in Cart!Contents, NEW pc,
           \/ op = "get" /\ pc = "read"
           \/ op \in {"replace", "upsert"} /\ pc = "resolve"
           \/ op = "remove" /\ pc = "save" /\ \A v, w \in Cart!Lines(items) : v = w
           \/ op = "clear" /\ pc = "save",
           Cart!Arrive(q, c, op, items, pc)
    PROVE  Cart!CartInv'
<1> DEFINE todo == IF pc = "resolve" THEN Cart!Lines(items) ELSE {}
           plan == IF pc = "read" THEN <<>> ELSE Cart!PlanOf(op)
<1>0. cartReq' = [cartReq EXCEPT ![q] =
          [Cart!NoRequest EXCEPT !.pc = pc, !.op = op, !.cart = c, !.items = items, !.todo = todo,
                                 !.plan = plan, !.seen = {cartItems[c]}]]
    BY DEF Cart!Arrive
<1> HIDE DEF todo, plan
<1>1. PICK r :
        /\ r.pc = pc /\ r.op = op /\ r.items = items /\ r.cart = c
        /\ r.stock = Cart!NoItems /\ r.missing = {} /\ r.held = {} /\ r.route = <<>>
        /\ r.todo = todo /\ r.plan = plan
        /\ r.seen = {cartItems[c]} /\ r.saved = FALSE
        /\ DOMAIN r = DOMAIN Cart!NoRequest
        /\ cartReq' = [cartReq EXCEPT ![q] = r]
    BY <1>0, CartIdle
<1> USE DEF todo, plan
<1>2. /\ UNCHANGED <<cartRows, cartItems>>
      /\ r.items \in Cart!Contents /\ r.stock \in Cart!Contents
      /\ r.todo \subseteq Thing /\ r.missing \subseteq Thing
    <2>1. Cart!Lines(items) \subseteq Thing BY DEF Cart!Lines
    <2>2. UNCHANGED <<cartRows, cartItems>> BY DEF Cart!Arrive, Cart!tables
    <2> QED BY <1>1, <2>1, <2>2, CartNothing
<1>3. Cart!SeenOK(r)
    BY <1>1 DEF Cart!SeenOK
<1>4. CASE op = "get"
    <2>1. r.op \in {"none", "get"} /\ r.held = {} /\ r.pc = "read" /\ r.cart \in Customer
        BY <1>1, <1>4
    <2>2. Cart!RequestOK(r) BY <1>2, <1>3, <2>1, CartReader
    <2> QED BY <1>1, <1>2, <2>2, CartOnly
<1>5. CASE op # "get"
    <2>1. /\ op \in Cart!Writes /\ r.plan = Cart!PlanOf(op) /\ pc \in {"resolve", "save"}
          /\ Cart!Begun(r) = 0 /\ r.pc \notin Cart!Statements
          /\ Len(Cart!PlanOf(op)) \in Nat /\ r.plan \in Seq(Cart!Statements)
        <3>1. op \in Cart!Writes /\ pc \in {"resolve", "save"} BY <1>5 DEF Cart!Writes
        <3>2. Cart!PlanOf(op) \in Seq(Cart!Statements) BY <3>1, CartPlanTypes
        <3>3. r.plan = Cart!PlanOf(op) /\ r.pc = pc /\ r.op = op BY <1>1, <3>1
        <3>4. Len(Cart!PlanOf(op)) \in Nat BY <3>2
        <3>5. Cart!Begun(r) = 0 BY <3>3, <3>4 DEF Cart!Begun
        <3>6. r.pc \notin Cart!Statements BY <3>1, <3>3 DEF Cart!Statements
        <3> QED BY <3>1, <3>2, <3>3, <3>4, <3>5, <3>6
    <2>2. Cart!StageOK(r)
        BY <1>1, <1>2, <1>5, <2>1 DEF Cart!StageOK, Cart!Saving
    <2>3. Cart!RouteOK(r)
        BY <1>1, <2>1 DEF Cart!RouteOK
    <2>4. Cart!Saving(r) => pc = "save" /\ Cart!Ended(r) = 0
        BY <1>1, <2>1 DEF Cart!Saving, Cart!Ended
    <2>5. Cart!LocksOK(r)
        BY <1>1, <2>4 DEF Cart!LocksOK
    <2>6. Cart!CoverOK(r)
        BY <1>1, <2>1, <2>4 DEF Cart!CoverOK
    <2>7. Cart!StockOK(r)
        <3> SUFFICES ASSUME op \in {"replace", "upsert"}, NEW v \in Thing, v \notin r.todo
                     PROVE  items[v] <= Cart!NoItems[v]
            BY <1>1, <1>5 DEF Cart!StockOK
        <3>1. items[v] \in 0..MaxQty /\ ~(items[v] > 0)
            BY <1>1 DEF Cart!Lines, Cart!Contents
        <3> QED BY <3>1 DEF Cart!NoItems, Cart!CartAssumption
    <2>8. Cart!RequestOK(r)
        BY <1>3, <2>2, <2>3, <2>5, <2>6, <2>7 DEF Cart!RequestOK
    <2> QED BY <1>1, <1>2, <2>8, CartOnly
<1> QED BY <1>4, <1>5

LEMMA CartCalled ==
    ASSUME Cart!CartAssumption, Cart!CartInv, NEW q \in Request,
           \/ \E c \in Customer : Cart!cart(q, c) \/ Cart!cartItemsRoute(q, c) \/ Cart!cartItem(q, c)
           \/ \E caller \in Customer \cup Staff, c \in Customer : Cart!adminCart(q, caller, c)
    PROVE  Cart!CartInv'
<1>0. Cart!NoItems \in Cart!Contents /\ MaxQty \in Nat /\ MaxQty >= 1
    BY CartNothing DEF Cart!CartAssumption
<1>1. ASSUME NEW c \in Customer, Cart!GetCart(q, c) PROVE Cart!CartInv'
    BY <1>0, <1>1, CartArrives DEF Cart!GetCart
<1>2. ASSUME NEW c \in Customer, Cart!ClearCart(q, c) PROVE Cart!CartInv'
    BY <1>0, <1>2, CartArrives DEF Cart!ClearCart
<1>3. ASSUME NEW c \in Customer, NEW items \in [Thing -> 0..MaxQty],
             Cart!ReplaceItems(q, c, items)
      PROVE  Cart!CartInv'
    BY <1>3, CartArrives DEF Cart!ReplaceItems, Cart!Contents
<1>4. ASSUME NEW c \in Customer, NEW v \in Thing, NEW n \in 1..MaxQty,
             Cart!UpsertItem(q, c, v, n)
      PROVE  Cart!CartInv'
    <2>1. [Cart!NoItems EXCEPT ![v] = n] \in Cart!Contents
        BY <1>0 DEF Cart!Contents
    <2> QED BY <1>4, <2>1, CartArrives DEF Cart!UpsertItem
<1>5. ASSUME NEW c \in Customer, NEW v \in Thing,
             Cart!RemoveItem(q, c, v) \/ Cart!RemoveItemBySkuID(q, c, v)
      PROVE  Cart!CartInv'
    <2> DEFINE items == [Cart!NoItems EXCEPT ![v] = 1]
    <2>1. items \in Cart!Contents
        BY <1>0 DEF Cart!Contents
    <2>2. \A x, y \in Cart!Lines(items) : x = y
        BY DEF Cart!Lines, Cart!NoItems
    <2>3. Cart!Arrive(q, c, "remove", items, "save")
        BY <1>5 DEF Cart!RemoveItem, Cart!RemoveItemBySkuID
    <2> QED BY <2>1, <2>2, <2>3, CartArrives
<1>6. ASSUME NEW caller \in Customer \cup Staff, NEW c \in Customer,
             Cart!adminCart(q, caller, c), ~Cart!GetCart(q, c)
      PROVE  Cart!CartInv'
    <2>1. Cart!At(q, "idle") /\ Cart!Fail(q, "forbidden") /\ UNCHANGED <<cartRows, cartItems>>
        BY <1>6 DEF Cart!adminCart, Cart!tables
    <2>2. Cart!SeenOK(cartReq[q])
        BY DEF Cart!CartInv, Cart!RequestOK
    <2>3. ~cartReq[q].saved
        BY <2>1, <2>2 DEF Cart!SeenOK, Cart!At
    <2> QED BY <2>1, <2>3, CartFails
<1> QED BY <1>1, <1>2, <1>3, <1>4, <1>5, <1>6 DEF Cart!cart, Cart!cartItemsRoute, Cart!cartItem

\* A request whose lines are being checked goes on.
LEMMA CartChecks ==
    ASSUME Cart!CartAssumption, NEW o, Cart!RequestOK(o), NEW r, o.pc \in {"resolve", "check"},
           r.op = o.op, r.cart = o.cart, r.items = o.items, r.plan = o.plan, r.held = o.held,
           r.seen = o.seen, r.saved = o.saved, r.pc \in {"resolve", "check", "save"},
           r.pc # "check" => r.route = <<>>,
           r.stock \in Cart!Contents, r.todo \subseteq Thing, r.missing \subseteq Thing,
           Cart!StockOK(r)
    PROVE  Cart!RequestOK(r)
<1> USE DEF Cart!RequestOK
<1>1. /\ o.op \in {"replace", "upsert"} /\ o.op \in Cart!Writes /\ Cart!Begun(o) = 0
      /\ o.pc \notin Cart!Statements /\ o.pc # "save" /\ r.pc \notin Cart!Statements
    BY DEF Cart!StageOK, Cart!Writes, Cart!Statements
<1>2. o.held = {} /\ ~o.saved
    BY <1>1 DEF Cart!LocksOK, Cart!Saving, Cart!SeenOK
<1>3. Cart!Begun(r) = 0 /\ (Cart!Saving(r) => Cart!Ended(r) = 0)
    BY <1>1 DEF Cart!Begun, Cart!Ended, Cart!Saving
<1>4. Cart!StageOK(r)
    BY <1>1, <1>3 DEF Cart!StageOK, Cart!Saving, Cart!Begun
<1>5. Cart!RouteOK(r)
    BY <1>1 DEF Cart!RouteOK
<1>6. Cart!LocksOK(r)
    BY <1>1, <1>2, <1>3 DEF Cart!LocksOK
<1>7. Cart!CoverOK(r)
    BY <1>1, <1>2, <1>3 DEF Cart!CoverOK
<1>8. Cart!SeenOK(r)
    BY <1>1, <1>2 DEF Cart!SeenOK
<1> QED BY <1>4, <1>5, <1>6, <1>7, <1>8

LEMMA CartLookedAt ==
    ASSUME Cart!CartAssumption, Cart!CartInv, NEW q \in Request,
           \/ Cart!resolveVariant(q) \/ Cart!checkAvailableQty(q) \/ Cart!Checked(q)
    PROVE  Cart!CartInv'
<1>1. PICK o : /\ o = cartReq[q] /\ Cart!RequestOK(o) /\ DOMAIN o = DOMAIN Cart!NoRequest
               /\ o.pc \in {"resolve", "check"}
    BY DEF Cart!CartInv, Cart!resolveVariant, Cart!checkAvailableQty, Cart!Checked, Cart!At
<1>2. /\ UNCHANGED <<cartRows, cartItems>> /\ ~o.saved /\ o.held = {}
      /\ o.stock \in Cart!Contents /\ o.todo \subseteq Thing /\ o.missing \subseteq Thing
      /\ Cart!StockOK(o) /\ o.items \in Cart!Contents
    <2>1. UNCHANGED <<cartRows, cartItems>>
        BY DEF Cart!resolveVariant, Cart!checkAvailableQty, Cart!Checked, Cart!tables
    <2>2. ~o.saved /\ o.held = {}
        BY <1>1 DEF Cart!RequestOK, Cart!SeenOK, Cart!LocksOK, Cart!Saving, Cart!Statements
    <2> QED BY <1>1, <2>1, <2>2 DEF Cart!RequestOK, Cart!StageOK
<1>3. ASSUME NEW err \in {"insufficient stock", "variant not found", "product down", "internal"},
             Cart!Fail(q, err)
      PROVE  Cart!CartInv'
    BY <1>1, <1>2, <1>3, CartFails
<1>4. ASSUME NEW r, DOMAIN r = DOMAIN Cart!NoRequest, cartReq' = [cartReq EXCEPT ![q] = r],
             r.op = o.op, r.cart = o.cart, r.items = o.items, r.plan = o.plan, r.held = o.held,
             r.seen = o.seen, r.saved = o.saved, r.pc \in {"resolve", "check", "save"},
             r.pc # "check" => r.route = <<>>,
             r.stock \in Cart!Contents, r.todo \subseteq Thing, r.missing \subseteq Thing,
             Cart!StockOK(r)
      PROVE  Cart!CartInv'
    <2>1. Cart!RequestOK(r) BY <1>1, <1>4, CartChecks
    <2> QED BY <1>2, <1>4, <2>1, CartOnly
<1>5. ASSUME Cart!At(q, "resolve"), NEW v \in o.todo,
             cartReq' = [cartReq EXCEPT ![q].pc = "check", ![q].todo = cartReq[q].todo \ {v},
                                        ![q].route = <<v>>]
      PROVE  Cart!CartInv'
    <2>1. PICK r : /\ r = [o EXCEPT !.pc = "check", !.todo = o.todo \ {v}, !.route = <<v>>]
                   /\ cartReq' = [cartReq EXCEPT ![q] = r]
        BY <1>1, <1>5 DEF Cart!CartInv
    <2>2. /\ DOMAIN r = DOMAIN Cart!NoRequest /\ r.pc = "check" /\ r.todo = o.todo \ {v}
          /\ r.route = <<v>> /\ r.op = o.op /\ r.cart = o.cart /\ r.items = o.items
          /\ r.plan = o.plan /\ r.held = o.held /\ r.seen = o.seen /\ r.saved = o.saved
          /\ r.stock = o.stock /\ r.missing = o.missing
        BY <1>1, <2>1, CartIdle
    <2>3. Cart!StockOK(r)
        BY <1>1, <1>2, <1>5, <2>2 DEF Cart!StockOK, Cart!At
    <2> QED BY <1>2, <1>4, <2>1, <2>2, <2>3
<1>6. ASSUME Cart!At(q, "resolve"), NEW v \in o.todo,
             cartReq' = [cartReq EXCEPT ![q].todo = cartReq[q].todo \ {v},
                                        ![q].missing = cartReq[q].missing \cup {v}]
      PROVE  Cart!CartInv'
    <2>1. PICK r : /\ r = [o EXCEPT !.todo = o.todo \ {v}, !.missing = o.missing \cup {v}]
                   /\ cartReq' = [cartReq EXCEPT ![q] = r]
        BY <1>1, <1>6 DEF Cart!CartInv
    <2>2. /\ DOMAIN r = DOMAIN Cart!NoRequest /\ r.pc = o.pc /\ r.todo = o.todo \ {v}
          /\ r.route = o.route /\ r.op = o.op /\ r.cart = o.cart /\ r.items = o.items
          /\ r.plan = o.plan /\ r.held = o.held /\ r.seen = o.seen /\ r.saved = o.saved
          /\ r.stock = o.stock /\ r.missing = o.missing \cup {v}
        BY <1>1, <2>1, CartIdle
    <2>3. Cart!StockOK(r)
        BY <1>1, <1>2, <1>6, <2>2 DEF Cart!StockOK, Cart!At
    <2>4. r.pc = "resolve" /\ r.route = <<>> /\ r.missing \subseteq Thing
        BY <1>1, <1>2, <1>6, <2>2 DEF Cart!At, Cart!RequestOK, Cart!RouteOK
    <2> QED BY <1>2, <1>4, <2>1, <2>2, <2>3, <2>4
<1>7. ASSUME Cart!At(q, "check"), NEW v, v = Head(o.route), NEW qty \in 0..MaxQty,
             Cart!InStock(q, v, qty),
             cartReq' = [cartReq EXCEPT ![q].pc = "resolve", ![q].route = <<>>, ![q].stock[v] = qty]
      PROVE  Cart!CartInv'
    <2> DEFINE stock == [o.stock EXCEPT ![v] = qty]
    <2>1. PICK r : /\ r = [o EXCEPT !.pc = "resolve", !.route = <<>>, !.stock = stock]
                   /\ cartReq' = [cartReq EXCEPT ![q] = r]
        <3>1. cartReq' = [cartReq EXCEPT ![q] =
                 [o EXCEPT !.pc = "resolve", !.route = <<>>, !.stock[v] = qty]]
            BY <1>1, <1>7 DEF Cart!CartInv
        <3>2. [o EXCEPT !.pc = "resolve", !.route = <<>>, !.stock[v] = qty]
                = [o EXCEPT !.pc = "resolve", !.route = <<>>, !.stock = stock]
            BY <1>1, CartIdle
        <3> QED BY <3>1, <3>2
    <2>0. stock \in Cart!Contents /\ \A x \in Thing : stock[x] = IF x = v THEN qty ELSE o.stock[x]
        BY <1>2 DEF Cart!Contents
    <2> HIDE DEF stock
    <2>2. /\ DOMAIN r = DOMAIN Cart!NoRequest /\ r.pc = "resolve" /\ r.todo = o.todo
          /\ r.route = <<>> /\ r.op = o.op /\ r.cart = o.cart /\ r.items = o.items
          /\ r.plan = o.plan /\ r.held = o.held /\ r.seen = o.seen /\ r.saved = o.saved
          /\ r.stock = stock /\ r.missing = o.missing
        BY <1>1, <2>1, CartIdle
    <2>3. o.items[v] <= qty /\ o.pc = "check"
        BY <1>1, <1>7 DEF Cart!InStock, Cart!At
    <2>4. Cart!StockOK(r)
        BY <1>2, <1>7, <2>0, <2>2, <2>3 DEF Cart!StockOK
    <2> QED BY <1>2, <1>4, <2>0, <2>1, <2>2, <2>4
<1>8. ASSUME Cart!At(q, "resolve"), o.todo = {}, o.missing = {},
             cartReq' = [cartReq EXCEPT ![q].pc = "save"]
      PROVE  Cart!CartInv'
    <2>1. PICK r : r = [o EXCEPT !.pc = "save"] /\ cartReq' = [cartReq EXCEPT ![q] = r]
        BY <1>1, <1>8 DEF Cart!CartInv
    <2>2. /\ DOMAIN r = DOMAIN Cart!NoRequest /\ r.pc = "save" /\ r.todo = o.todo
          /\ r.route = o.route /\ r.op = o.op /\ r.cart = o.cart /\ r.items = o.items
          /\ r.plan = o.plan /\ r.held = o.held /\ r.seen = o.seen /\ r.saved = o.saved
          /\ r.stock = o.stock /\ r.missing = o.missing
        BY <1>1, <2>1, CartIdle
    <2>3. Cart!StockOK(r)
        BY <1>1, <1>2, <1>8, <2>2 DEF Cart!StockOK, Cart!At
    <2>4. r.route = <<>>
        BY <1>1, <1>8, <2>2 DEF Cart!At, Cart!RequestOK, Cart!RouteOK
    <2> QED BY <1>2, <1>4, <2>1, <2>2, <2>3, <2>4
<1> QED
    <2>1. CASE Cart!resolveVariant(q)
        BY <1>1, <1>3, <1>5, <1>6, <2>1 DEF Cart!resolveVariant
    <2>2. CASE Cart!checkAvailableQty(q)
        BY <1>1, <1>3, <1>7, <2>2 DEF Cart!checkAvailableQty
    <2>3. CASE Cart!Checked(q)
        BY <1>1, <1>3, <1>8, <2>3 DEF Cart!Checked
    <2> QED BY <2>1, <2>2, <2>3

LEMMA CartCardinality == ASSUME NEW S PROVE Cart!Cardinality(S) = Cardinality(S)
BY DEF Cart!Cardinality, Cardinality

\* A route has every row of its set, once.
LEMMA CartRoute ==
    ASSUME NEW S, IsFiniteSet(S), NEW f \in Cart!SetToSeqs(S)
    PROVE  /\ f \in Seq(S) /\ {f[i] : i \in DOMAIN f} = S
           /\ f = <<>> <=> S = {}
           /\ \A row : S \subseteq {row} /\ f # <<>> => Len(f) = 1
<1> DEFINE n == Cardinality(S)
<1>1. n \in Nat BY FS_CardinalityType
<1>2. f \in [1..n -> S] /\ \A i, j \in 1..n : i # j => f[i] # f[j]
    BY CartCardinality DEF Cart!SetToSeqs
<1> HIDE DEF n
<1>3. f \in Seq(S) /\ Len(f) = n /\ DOMAIN f = 1..n
    BY <1>1, <1>2
<1>4. f \in Injection(1..n, S)
    BY <1>2 DEF Injection, IsInjective
<1>5. IsFiniteSet(1..n) /\ Cardinality(1..n) = n
    BY <1>1, FS_Interval
<1>6. f \in Surjection(1..n, S)
    BY <1>4, <1>5, FS_Injection DEF n
<1>7. {f[i] : i \in DOMAIN f} = S
    BY <1>2, <1>3, <1>6 DEF Surjection
<1>8. f = <<>> <=> S = {}
    BY <1>1, <1>2, <1>3, <1>7
<1>9. ASSUME NEW row, S \subseteq {row}, f # <<>> PROVE Len(f) = 1
    <2>1. n # 0 BY <1>1, <1>3, <1>9
    <2>2. ASSUME n >= 2 PROVE FALSE
        <3>1. 1 \in 1..n /\ 2 \in 1..n BY <1>1, <2>2
        <3>2. f[1] = row /\ f[2] = row BY <1>2, <1>9, <3>1
        <3> QED BY <1>2, <3>1, <3>2
    <2> QED BY <1>1, <1>3, <2>1, <2>2
<1> QED BY <1>3, <1>7, <1>8, <1>9

\* A cart has finitely many rows.
LEMMA CartFinite ==
    ASSUME Cart!CartAssumption, NEW c, NEW S, S \subseteq Cart!OwnRows(c)
    PROVE  IsFiniteSet(S)
<1>1. IsFiniteSet(Thing) BY DEF Cart!CartAssumption, Cart!IsFiniteSet, IsFiniteSet
<1>2. IsFiniteSet({Cart!ItemRow(c, v) : v \in Thing})
    <2> DEFINE rows == {Cart!ItemRow(c, v) : v \in Thing}
               f == [v \in Thing |-> Cart!ItemRow(c, v)]
    <2>1. f \in Surjection(Thing, rows) BY DEF Surjection
    <2> QED BY <1>1, <2>1, FS_Surjection
<1>3. IsFiniteSet({Cart!CartRow(c)} \cup {Cart!ItemRow(c, v) : v \in Thing})
    BY <1>2, FS_Singleton, FS_Union
<1> QED BY <1>3, FS_Subset DEF Cart!OwnRows, Cart!ItemRows

\* The rows of each statement.
LEMMA CartStatementRows ==
    ASSUME Cart!TablesOK, NEW q \in Request, NEW o, o = cartReq[q], o.cart \in Customer,
           o.items \in Cart!Contents
    PROVE  /\ \A stmt \in Cart!Statements : Cart!RowsOf(q, stmt) \subseteq Cart!OwnRows(o.cart)
           /\ Cart!RowsOf(q, "touch") = {Cart!CartRow(o.cart)}
           /\ Cart!RowsOf(q, "touch existing") \subseteq {Cart!CartRow(o.cart)}
           /\ Cart!RowsOf(q, "delete cart") \subseteq {Cart!CartRow(o.cart)}
           /\ o.cart \in cartRows => Cart!CartRow(o.cart) \in Cart!RowsOf(q, "delete cart")
           /\ Cart!RowsOf(q, "delete line") \subseteq Cart!ItemRows(o.cart, Cart!Lines(o.items))
           /\ Cart!RowsOf(q, "insert") = Cart!ItemRows(o.cart, Cart!Lines(o.items))
           /\ Cart!ItemRows(o.cart, Cart!Lines(cartItems[o.cart])) \subseteq Cart!RowsOf(q, "delete all")
           /\ Cart!CartRow(o.cart) \in o.held =>
                 Cart!ItemRows(o.cart, Cart!Lines(cartItems[o.cart])) \subseteq Cart!RowsOf(q, "cascade")
           /\ Cart!CartRow(o.cart) \notin o.held => Cart!RowsOf(q, "cascade") = {}
<1> DEFINE c == o.cart
           lines == Cart!ItemRows(c, Cart!Lines(cartItems[c]))
           new == Cart!ItemRows(c, Cart!Lines(o.items))
           stored == Cart!StoredRows(c)
<1>1. /\ lines \subseteq stored /\ stored \subseteq lines \cup {Cart!CartRow(c)}
      /\ c \in cartRows => Cart!CartRow(c) \in stored
    BY DEF Cart!StoredRows
<1>2. lines \subseteq Cart!OwnRows(c) /\ new \subseteq Cart!OwnRows(c)
    BY DEF Cart!OwnRows, Cart!ItemRows, Cart!Lines
<1>3. Cart!CartRow(c) \in Cart!OwnRows(c) /\ Cart!CartRow(c) \notin lines
    BY CartNames DEF Cart!OwnRows, Cart!ItemRows
<1>4. /\ Cart!RowsOf(q, "touch") = {Cart!CartRow(c)}
      /\ Cart!RowsOf(q, "touch existing") = stored \cap {Cart!CartRow(c)}
      /\ Cart!RowsOf(q, "insert") = new
      /\ Cart!RowsOf(q, "delete line") = stored \cap new
      /\ Cart!RowsOf(q, "delete all") = stored \ {Cart!CartRow(c)}
      /\ Cart!RowsOf(q, "delete cart") = stored \cap {Cart!CartRow(c)}
      /\ Cart!RowsOf(q, "cascade") = IF Cart!CartRow(c) \in o.held THEN stored ELSE {}
    BY DEF Cart!RowsOf
<1> HIDE DEF stored, lines, new, c
<1>5. \A stmt \in Cart!Statements : Cart!RowsOf(q, stmt) \subseteq Cart!OwnRows(c)
    BY <1>1, <1>2, <1>3, <1>4 DEF Cart!Statements
<1> QED BY <1>1, <1>3, <1>4, <1>5 DEF c, lines, new

\* Where a transaction is when its next statement begins.
LEMMA CartAtSave ==
    ASSUME NEW o, Cart!RequestOK(o), o.pc = "save"
    PROVE  /\ o.op \in Cart!Writes /\ o.cart \in Customer /\ o.items \in Cart!Contents
           /\ o.route = <<>> /\ Cart!Ahead(o) = {} /\ Cart!Saving(o)
           /\ o.plan \in Seq(Cart!Statements)
           /\ Cart!Begun(o) \in 0..Len(Cart!PlanOf(o.op)) /\ Cart!Ended(o) = Cart!Begun(o)
           /\ Len(o.plan) = Len(Cart!PlanOf(o.op)) - Cart!Begun(o)
           /\ \A i \in 1..Len(o.plan) : o.plan[i] = Cart!PlanOf(o.op)[Cart!Begun(o) + i]
           /\ cartItems[o.cart] \in o.seen /\ ~o.saved
<1>1. o.op \in Cart!Writes /\ Cart!Saving(o)
    BY DEF Cart!RequestOK, Cart!StageOK, Cart!Saving
<1>2. /\ o.cart \in Customer /\ o.items \in Cart!Contents
      /\ o.plan \in Seq(Cart!Statements) /\ Len(o.plan) <= Len(Cart!PlanOf(o.op))
      /\ \A i \in 1..Len(o.plan) : o.plan[i] = Cart!PlanOf(o.op)[Cart!Begun(o) + i]
    BY <1>1 DEF Cart!RequestOK, Cart!StageOK
<1>3. o.route = <<>> BY DEF Cart!RequestOK, Cart!RouteOK
<1>4. Cart!Ahead(o) = {} BY <1>3 DEF Cart!Ahead
<1>5. Len(Cart!PlanOf(o.op)) \in Nat /\ Len(o.plan) \in Nat
    <2>1. Cart!PlanOf(o.op) \in Seq(Cart!Statements) BY <1>1, CartPlanTypes
    <2> QED BY <1>2, <2>1
<1>6. cartItems[o.cart] \in o.seen /\ ~o.saved
    BY DEF Cart!RequestOK, Cart!SeenOK
<1>7. Cart!Begun(o) = Len(Cart!PlanOf(o.op)) - Len(o.plan) /\ Cart!Ended(o) = Cart!Begun(o)
    BY DEF Cart!Begun, Cart!Ended
<1>8. /\ Cart!Begun(o) \in 0..Len(Cart!PlanOf(o.op))
      /\ Len(o.plan) = Len(Cart!PlanOf(o.op)) - Cart!Begun(o)
    <2>1. Len(o.plan) <= Len(Cart!PlanOf(o.op)) BY <1>2
    <2> QED BY <1>5, <1>7, <2>1, CartSums
<1> QED BY <1>1, <1>2, <1>3, <1>4, <1>6, <1>7, <1>8

\* The next statement of a plan.
LEMMA CartNextStatement ==
    ASSUME NEW o, Cart!RequestOK(o), o.pc = "save", o.plan # <<>>,
           NEW r, r.op = o.op, r.plan = Tail(o.plan)
    PROVE  /\ Cart!Begun(o) \in Nat /\ Cart!Begun(r) = Cart!Begun(o) + 1
           /\ Cart!Begun(r) \in 1..Len(Cart!PlanOf(o.op))
           /\ Head(o.plan) = Cart!PlanOf(o.op)[Cart!Begun(r)]
           /\ Head(o.plan) \in Cart!Statements
           /\ r.plan \in Seq(Cart!Statements) /\ Len(r.plan) <= Len(Cart!PlanOf(o.op))
           /\ \A i \in 1..Len(r.plan) : r.plan[i] = Cart!PlanOf(o.op)[Cart!Begun(r) + i]
<1> DEFINE n == Cart!Begun(o)
           plan == Cart!PlanOf(o.op)
           L == Len(plan)
           l == Len(o.plan)
<1>1. /\ o.op \in Cart!Writes /\ o.plan \in Seq(Cart!Statements)
      /\ n \in 0..L /\ l = L - n
      /\ \A i \in 1..l : o.plan[i] = plan[n + i]
    BY CartAtSave
<1>2. L \in Nat /\ l \in Nat /\ l # 0
    <2>1. plan \in Seq(Cart!Statements) BY <1>1, CartPlanTypes
    <2> QED BY <1>1, <2>1
<1>3. /\ r.plan \in Seq(Cart!Statements) /\ Len(r.plan) = l - 1
      /\ \A i \in 1..(l - 1) : r.plan[i] = o.plan[i + 1]
      /\ Head(o.plan) = o.plan[1] /\ Head(o.plan) \in Cart!Statements
    BY <1>1, <1>2
<1>4. Cart!Begun(r) = L - Len(r.plan)
    BY DEF Cart!Begun
<1> HIDE DEF n, plan, L, l
<1>5. /\ Cart!Begun(r) = n + 1 /\ n \in Nat /\ n + 1 \in 1..L /\ l - 1 <= L
      /\ 1 \in 1..l
    BY <1>1, <1>2, <1>3, <1>4
<1>6. o.plan[1] = plan[n + 1]
    BY <1>1, <1>5
<1>7. ASSUME NEW i \in 1..(l - 1)
      PROVE  r.plan[i] = plan[n + 1 + i]
    <2>1. i + 1 \in 1..l /\ n + (i + 1) = n + 1 + i BY <1>2, <1>5
    <2>2. o.plan[i + 1] = plan[n + (i + 1)] BY <1>1, <2>1
    <2> QED BY <1>3, <2>1, <2>2
<1> QED BY <1>3, <1>5, <1>6, <1>7 DEF n, plan, L

\* The rows on its route.
LEMMA CartNextRows ==
    ASSUME Cart!CartAssumption, NEW c, NEW S, S \subseteq Cart!OwnRows(c),
           NEW r, r.route \in Cart!SetToSeqs(S)
    PROVE  /\ r.route \in Seq(S) /\ Cart!Ahead(r) = S
           /\ r.route = <<>> <=> S = {}
           /\ \A row : S \subseteq {row} /\ r.route # <<>> => Len(r.route) = 1
<1>1. IsFiniteSet(S)
    BY CartFinite
<1>2. Cart!Ahead(r) = {r.route[i] : i \in DOMAIN r.route}
    BY DEF Cart!Ahead
<1> QED BY <1>1, <1>2, CartRoute

\* A statement begins: the rows that it has yet to lock are on its route.
LEMMA CartBegins ==
    ASSUME Cart!CartAssumption, Cart!CartInv, NEW q \in Request, Cart!Statement(q)
    PROVE  Cart!CartInv'
<1>1. PICK o : /\ o = cartReq[q] /\ DOMAIN o = DOMAIN Cart!NoRequest /\ Cart!RequestOK(o)
               /\ o.pc = "save" /\ o.route = <<>> /\ o.plan # <<>>
    BY DEF Cart!CartInv, Cart!Statement, Cart!At
<1>2. PICK stmt : stmt = Head(o.plan)
    OBVIOUS
<1>3. PICK S : S = Cart!RowsOf(q, stmt) \ o.held
    OBVIOUS
<1>4. PICK route \in Cart!SetToSeqs(S) :
          cartReq' = [cartReq EXCEPT ![q].pc = IF route = <<>> THEN "save" ELSE stmt,
                                     ![q].plan = Tail(o.plan), ![q].route = route]
    BY <1>1, <1>2, <1>3 DEF Cart!Statement
<1>5. PICK pc : pc = IF route = <<>> THEN "save" ELSE stmt
    OBVIOUS
<1>6. PICK r : /\ r = [o EXCEPT !.pc = pc, !.plan = Tail(o.plan), !.route = route]
               /\ cartReq' = [cartReq EXCEPT ![q] = r]
    BY <1>1, <1>4, <1>5 DEF Cart!CartInv
<1>7. /\ DOMAIN r = DOMAIN Cart!NoRequest /\ r.pc = pc /\ r.plan = Tail(o.plan)
      /\ r.route = route /\ r.op = o.op /\ r.cart = o.cart /\ r.items = o.items
      /\ r.held = o.held /\ r.seen = o.seen /\ r.saved = o.saved /\ r.stock = o.stock
      /\ r.todo = o.todo /\ r.missing = o.missing
    BY <1>1, <1>6, CartIdle
<1>8. UNCHANGED <<cartRows, cartItems>> /\ Cart!TablesOK
    BY DEF Cart!Statement, Cart!tables, Cart!CartInv
<1>9. /\ o.op \in Cart!Writes /\ o.cart \in Customer /\ o.items \in Cart!Contents
      /\ Cart!Saving(o) /\ Cart!Ended(o) = Cart!Begun(o)
      /\ cartItems[o.cart] \in o.seen /\ ~o.saved
    BY <1>1, CartAtSave
<1>10. /\ Cart!Begun(o) \in Nat /\ Cart!Begun(r) = Cart!Begun(o) + 1
       /\ Cart!Begun(r) \in 1..Len(Cart!PlanOf(o.op))
       /\ stmt = Cart!PlanOf(o.op)[Cart!Begun(r)] /\ stmt \in Cart!Statements
       /\ r.plan \in Seq(Cart!Statements) /\ Len(r.plan) <= Len(Cart!PlanOf(o.op))
       /\ \A i \in 1..Len(r.plan) : r.plan[i] = Cart!PlanOf(o.op)[Cart!Begun(r) + i]
    <2>1. r.op = o.op /\ r.plan = Tail(o.plan) BY <1>7
    <2> QED BY <1>1, <1>2, <2>1, CartNextStatement
<1>11. /\ stmt = "delete line" => o.op = "remove"
       /\ o.op \in {"replace", "upsert"} /\ Cart!Begun(r) = 1 => stmt = "touch"
       /\ o.op = "replace" /\ Cart!Begun(r) = 2 => stmt = "delete all"
       /\ o.op = "replace" /\ Cart!Begun(r) = 3 => stmt = "insert"
       /\ o.op = "clear" /\ Cart!Begun(r) = 2 => stmt = "delete cart"
       /\ o.op = "clear" /\ Cart!Begun(r) = 3 => stmt = "cascade"
    <2>1. PICK op, n : op = o.op /\ n = Cart!Begun(r)
        OBVIOUS
    <2>2. op \in Cart!Writes /\ n \in 1..Len(Cart!PlanOf(op)) /\ stmt = Cart!PlanOf(op)[n]
        BY <1>9, <1>10, <2>1
    <2>3. /\ stmt = "delete line" => op = "remove"
          /\ op \in {"replace", "upsert"} /\ n = 1 => stmt = "touch"
          /\ op = "replace" /\ n = 2 => stmt = "delete all"
          /\ op = "replace" /\ n = 3 => stmt = "insert"
          /\ op = "clear" /\ n = 2 => stmt = "delete cart"
          /\ op = "clear" /\ n = 3 => stmt = "cascade"
        <3> HIDE <2>1
        <3> QED BY <2>2, CartPlanSteps
    <2> QED BY <2>1, <2>3
<1>0. Cart!Begun(o) \in Nat /\ Cart!Begun(r) = Cart!Begun(o) + 1 /\ Cart!Begun(r) \in {1, 2, 3}
    BY <1>9, <1>10, CartPlanSteps
<1>12. /\ Cart!RowsOf(q, stmt) \subseteq Cart!OwnRows(o.cart)
       /\ Cart!RowsOf(q, "touch") = {Cart!CartRow(o.cart)}
       /\ Cart!RowsOf(q, "touch existing") \subseteq {Cart!CartRow(o.cart)}
       /\ Cart!RowsOf(q, "delete cart") \subseteq {Cart!CartRow(o.cart)}
       /\ o.cart \in cartRows => Cart!CartRow(o.cart) \in Cart!RowsOf(q, "delete cart")
       /\ Cart!RowsOf(q, "delete line") \subseteq Cart!ItemRows(o.cart, Cart!Lines(o.items))
       /\ Cart!RowsOf(q, "insert") = Cart!ItemRows(o.cart, Cart!Lines(o.items))
       /\ Cart!ItemRows(o.cart, Cart!Lines(cartItems[o.cart])) \subseteq Cart!RowsOf(q, "delete all")
       /\ Cart!CartRow(o.cart) \in o.held =>
             Cart!ItemRows(o.cart, Cart!Lines(cartItems[o.cart])) \subseteq Cart!RowsOf(q, "cascade")
       /\ Cart!CartRow(o.cart) \notin o.held => Cart!RowsOf(q, "cascade") = {}
    BY <1>1, <1>8, <1>9, <1>10, CartStatementRows
<1>13. S \subseteq Cart!OwnRows(o.cart)
    BY <1>3, <1>12
<1>14. /\ route \in Seq(S) /\ Cart!Ahead(r) = S /\ (route = <<>> <=> S = {})
       /\ \A row : S \subseteq {row} /\ route # <<>> => Len(route) = 1
    <2>1. r.route \in Cart!SetToSeqs(S) BY <1>4, <1>7
    <2>2. /\ r.route \in Seq(S) /\ Cart!Ahead(r) = S
          /\ r.route = <<>> <=> S = {}
          /\ \A row : S \subseteq {row} /\ r.route # <<>> => Len(r.route) = 1
        BY <1>13, <2>1, CartNextRows
    <2> QED BY <1>7, <2>2
<1>15. /\ Cart!Saving(r) /\ pc \notin {"resolve", "check", "idle", "answered"}
       /\ S = {} => pc = "save" /\ Cart!Ended(r) = Cart!Begun(r)
       /\ S # {} => pc = stmt /\ Cart!Ended(r) = Cart!Begun(o)
    <2>1. stmt \notin {"save", "resolve", "check", "idle", "answered"}
        BY <1>10 DEF Cart!Statements
    <2>2. S = {} => pc = "save" BY <1>5, <1>14
    <2>3. S # {} => pc = stmt BY <1>5, <1>14
    <2>4. S = {} => Cart!Ended(r) = Cart!Begun(r) BY <1>7, <2>2 DEF Cart!Ended
    <2>5. ASSUME S # {} PROVE Cart!Ended(r) = Cart!Begun(o)
        <3>1. Cart!Ended(r) = Cart!Begun(r) - 1 BY <1>7, <2>1, <2>3, <2>5 DEF Cart!Ended
        <3> QED BY <1>10, <3>1
    <2> QED BY <1>7, <1>10, <2>1, <2>2, <2>3, <2>4, <2>5 DEF Cart!Saving
<1>16. Cart!StageOK(r)
    <2>1. Cart!StageOK(o) BY <1>1 DEF Cart!RequestOK
    <2> QED BY <1>7, <1>9, <1>10, <1>15, <2>1 DEF Cart!StageOK
<1>17. Cart!RouteOK(r)
    <2>1. CASE S = {}
        BY <1>7, <1>14, <1>15, <2>1 DEF Cart!RouteOK, Cart!Statements
    <2>2. CASE S # {}
        <3>1. pc = stmt /\ route # <<>> BY <1>14, <1>15, <2>2
        <3>2. route \in Seq(Cart!OwnRows(o.cart)) BY <1>13, <1>14
        <3>3. /\ stmt \in {"touch", "touch existing", "delete cart"} =>
                    S \subseteq {Cart!CartRow(o.cart)}
              /\ stmt = "delete line" => S \subseteq Cart!ItemRows(o.cart, Cart!Lines(o.items))
            BY <1>3, <1>12
        <3>4. stmt \in {"touch", "touch existing"} => Len(route) = 1
            BY <1>14, <3>1, <3>3
        <3>5. ASSUME stmt = "delete line" PROVE Len(route) = 1
            <4>1. Cart!LocksOK(o) /\ o.op = "remove" BY <1>1, <1>11, <3>5 DEF Cart!RequestOK
            <4>2. \A v, w \in Cart!Lines(o.items) : v = w
                BY <1>9, <4>1 DEF Cart!LocksOK
            <4>3. PICK row \in S : TRUE BY <2>2
            <4>4. S \subseteq {row}
                BY <3>3, <3>5, <4>2, <4>3 DEF Cart!ItemRows
            <4> QED BY <1>14, <3>1, <4>4
        <3>6. /\ Cart!Begun(r) >= 1 /\ r.pc = Cart!PlanOf(r.op)[Cart!Begun(r)]
              /\ r.route # <<>> /\ r.route \in Seq(Cart!OwnRows(r.cart))
            BY <1>0, <1>7, <1>10, <3>1, <3>2
        <3>7. /\ r.pc \in {"touch", "touch existing", "delete line"} => Len(r.route) = 1
              /\ r.pc \in {"touch", "touch existing", "delete cart"}
                    => Cart!Ahead(r) \subseteq {Cart!CartRow(r.cart)}
              /\ r.pc = "delete line" => Cart!Ahead(r) \subseteq Cart!ItemRows(r.cart, Cart!Lines(r.items))
            BY <1>7, <1>14, <3>1, <3>3, <3>4, <3>5
        <3>8. r.pc \notin {"save", "resolve"} BY <1>10, <1>7, <3>1 DEF Cart!Statements
        <3> QED BY <3>6, <3>7, <3>8 DEF Cart!RouteOK
    <2> QED BY <2>1, <2>2
<1>18. Cart!LocksOK(r)
    <2>1. Cart!LocksOK(o) BY <1>1 DEF Cart!RequestOK
    <2>2. o.held \subseteq Cart!OwnRows(o.cart) BY <1>9, <2>1 DEF Cart!LocksOK
    <2>3. o.op # "clear" /\ Cart!Ended(r) = 0 => o.held = {}
        <3>1. Cart!Ended(r) = 0 => Cart!Ended(o) = 0 BY <1>0, <1>9, <1>15
        <3> QED BY <1>9, <2>1, <3>1 DEF Cart!LocksOK
    <2>4. ASSUME o.op \in {"replace", "upsert"}, Cart!Ended(r) >= 1
          PROVE  Cart!CartRow(o.cart) \in o.held
        <3>1. CASE Cart!Ended(o) >= 1
            BY <1>9, <2>1, <2>4, <3>1 DEF Cart!LocksOK
        <3>2. CASE Cart!Begun(o) = 0
            <4>0. Cart!Begun(r) = 1 BY <1>0, <3>2
            <4>1. stmt = "touch" BY <1>11, <2>4, <4>0
            <4>2. S = {} BY <1>0, <1>15, <2>4, <3>2
            <4> QED BY <1>3, <1>12, <4>1, <4>2
        <3> QED BY <1>0, <1>9, <3>1, <3>2
    <2>5. ASSUME o.op = "remove"
          PROVE  /\ \A v, w \in Cart!Lines(o.items) : v = w
                 /\ Cart!Ended(r) = 1 => o.held \subseteq {Cart!CartRow(o.cart)}
                 /\ o.held \subseteq
                       {Cart!CartRow(o.cart)} \cup Cart!ItemRows(o.cart, Cart!Lines(o.items))
        <3>1. Cart!Ended(r) = 1 => Cart!Ended(o) \in {0, 1}
            BY <1>0, <1>9, <1>15
        <3> QED BY <1>9, <2>1, <2>5, <3>1 DEF Cart!LocksOK
    <2> QED BY <1>7, <1>15, <2>2, <2>3, <2>4, <2>5 DEF Cart!LocksOK
<1>19. Cart!CoverOK(r)
    <2> DEFINE lines == Cart!ItemRows(o.cart, Cart!Lines(cartItems[o.cart]))
               new == Cart!ItemRows(o.cart, Cart!Lines(o.items))
               row == Cart!CartRow(o.cart)
    <2>1. Cart!CoverOK(o) BY <1>1 DEF Cart!RequestOK
    <2>0. Cart!Ahead(o) = {} BY <1>1, CartAtSave
    <2>2. ASSUME o.op = "replace", Cart!Begun(r) = 2 PROVE lines \subseteq o.held \cup S
        <3>1. stmt = "delete all" BY <1>11, <2>2
        <3> QED BY <1>3, <1>12, <3>1
    <2>3. ASSUME o.op = "replace", Cart!Begun(r) = 3 PROVE lines \subseteq o.held
        <3>1. Cart!Begun(o) >= 2 BY <1>10, <2>3
        <3> QED BY <1>9, <2>0, <2>1, <2>3, <3>1 DEF Cart!CoverOK, Cart!Covered
    <2>4. ASSUME o.op = "replace", Cart!Begun(r) = 3 PROVE new \subseteq o.held \cup S
        <3>1. stmt = "insert" BY <1>11, <2>4
        <3> QED BY <1>3, <1>12, <3>1
    <2>5. ASSUME o.op = "clear", Cart!Begun(r) = 3, row \in o.held
          PROVE  lines \subseteq o.held \cup S
        <3>1. stmt = "cascade" BY <1>11, <2>5
        <3> QED BY <1>3, <1>12, <2>5, <3>1
    <2>6. ASSUME o.op = "clear", Cart!Ended(r) >= 2, row \notin o.held
          PROVE  S = {} /\ o.held = {} /\ Cart!NoItems \in o.seen
        <3>1. CASE Cart!Begun(o) >= 2
            <4>1. o.held = {} /\ Cart!NoItems \in o.seen
                BY <1>9, <2>1, <2>6, <3>1 DEF Cart!CoverOK
            <4>2. Cart!Begun(r) = 3
                BY <1>0, <3>1
            <4>3. stmt = "cascade" BY <1>11, <2>6, <4>2
            <4>4. S = {} BY <1>3, <1>12, <2>6, <4>3
            <4> QED BY <4>1, <4>4
        <3>2. CASE ~(Cart!Begun(o) >= 2)
            <4>1. Cart!Begun(r) = 2 /\ S = {}
                <5>1. S = {} BY <1>0, <1>15, <2>6, <3>2
                <5> QED BY <1>0, <1>15, <2>6, <3>2, <5>1
            <4>2. stmt = "delete cart" BY <1>11, <2>6, <4>1
            <4>3. o.cart \notin cartRows
                BY <1>3, <1>12, <2>6, <4>1, <4>2
            <4>4. cartItems[o.cart] = Cart!NoItems
                BY <1>8, <1>9, <4>3 DEF Cart!TablesOK
            <4>5. \A v \in Thing : Cart!ItemRow(o.cart, v) \notin o.held
                <5>1. Cart!Lines(cartItems[o.cart]) = {} BY <4>4, CartNothing
                <5> QED BY <1>9, <2>1, <2>6, <5>1 DEF Cart!CoverOK
            <4>6. o.held \subseteq Cart!OwnRows(o.cart)
                BY <1>1, <1>9 DEF Cart!RequestOK, Cart!LocksOK
            <4>7. o.held = {}
                BY <2>6, <4>5, <4>6 DEF Cart!OwnRows, Cart!ItemRows
            <4> QED BY <1>9, <4>1, <4>4, <4>7
        <3> QED BY <3>1, <3>2
    <2>7. o.op = "clear" => \A v \in Thing : Cart!ItemRow(o.cart, v) \in o.held
                                                => v \in Cart!Lines(cartItems[o.cart])
        BY <1>9, <2>1 DEF Cart!CoverOK
    <2>8. /\ Cart!Covered(r, Cart!Lines(cartItems[o.cart])) <=> lines \subseteq o.held \cup S
          /\ Cart!Covered(r, Cart!Lines(o.items)) <=> new \subseteq o.held \cup S
        BY <1>7, <1>14 DEF Cart!Covered
    <2>9. Cart!Begun(r) >= 2 <=> Cart!Begun(r) \in {2, 3}
        BY <1>0
    <2>10. o.op = "replace" /\ Cart!Begun(r) >= 2 => lines \subseteq o.held \cup S
        BY <2>2, <2>3, <2>9
    <2> HIDE DEF lines, new
    <2> QED BY <1>7, <1>15, <2>4, <2>5, <2>6, <2>7, <2>8, <2>10 DEF Cart!CoverOK
<1>20. Cart!StockOK(r)
    BY <1>1, <1>7, <1>15 DEF Cart!RequestOK, Cart!StockOK
<1>21. Cart!SeenOK(r)
    <2>1. r.pc \notin {"enrich", "cleared", "answered"}
        BY <1>7, <1>15 DEF Cart!Saving, Cart!Statements
    <2>2. r.saved \in BOOLEAN BY <1>1, <1>7 DEF Cart!RequestOK, Cart!SeenOK
    <2> QED BY <1>7, <1>9, <2>1, <2>2 DEF Cart!SeenOK
<1>22. Cart!RequestOK(r)
    BY <1>16, <1>17, <1>18, <1>19, <1>20, <1>21 DEF Cart!RequestOK
<1>23. \A p \in Request : p # q => r.held \cap cartReq[p].held = {}
    BY <1>1, <1>7 DEF Cart!CartInv, Cart!Exclusive
<1> QED BY <1>6, <1>7, <1>8, <1>22, <1>23, CartOnly

\* A transaction that is locking rows.
LEMMA CartAtLock ==
    ASSUME NEW o, Cart!RequestOK(o), o.pc \in Cart!Statements
    PROVE  /\ o.op \in Cart!Writes /\ o.cart \in Customer /\ o.items \in Cart!Contents
           /\ Cart!Saving(o) /\ o.pc # "save"
           /\ o.pc \notin {"resolve", "check", "idle", "answered"}
           /\ Cart!Begun(o) \in 1..Len(Cart!PlanOf(o.op)) /\ Cart!Begun(o) \in {1, 2, 3}
           /\ o.pc = Cart!PlanOf(o.op)[Cart!Begun(o)] /\ Cart!Ended(o) = Cart!Begun(o) - 1
           /\ o.route # <<>> /\ o.route \in Seq(Cart!OwnRows(o.cart))
           /\ cartItems[o.cart] \in o.seen /\ ~o.saved
<1>1. o.pc \notin {"save", "resolve", "check", "idle", "answered", "read", "lines", "enrich",
                   "cleared"}
    BY DEF Cart!Statements
<1>2. o.op \in Cart!Writes /\ o.cart \in Customer /\ o.items \in Cart!Contents
    BY <1>1 DEF Cart!RequestOK, Cart!StageOK
<1>3. /\ Cart!Begun(o) >= 1 /\ o.pc = Cart!PlanOf(o.op)[Cart!Begun(o)]
      /\ o.route # <<>> /\ o.route \in Seq(Cart!OwnRows(o.cart))
    BY DEF Cart!RequestOK, Cart!RouteOK
<1>4. cartItems[o.cart] \in o.seen /\ ~o.saved
    BY <1>1 DEF Cart!RequestOK, Cart!SeenOK
<1>5. Cart!Saving(o) /\ Cart!Ended(o) = Cart!Begun(o) - 1
    BY <1>1 DEF Cart!Saving, Cart!Ended
<1>6. Cart!Begun(o) \in 1..Len(Cart!PlanOf(o.op))
    <2>1. o.plan \in Seq(Cart!Statements) /\ Len(o.plan) <= Len(Cart!PlanOf(o.op))
        BY <1>2 DEF Cart!RequestOK, Cart!StageOK
    <2>2. Len(o.plan) \in Nat /\ Len(Cart!PlanOf(o.op)) \in Nat
        BY <1>2, <2>1, CartPlanTypes
    <2>3. Cart!Begun(o) = Len(Cart!PlanOf(o.op)) - Len(o.plan)
        BY DEF Cart!Begun
    <2>4. Cart!Begun(o) \in 0..Len(Cart!PlanOf(o.op))
        BY <2>1, <2>2, <2>3, CartSums
    <2> QED BY <1>3, <2>2, <2>4
<1>7. Cart!Begun(o) \in {1, 2, 3}
    BY <1>2, <1>6, CartPlanSteps
<1> QED BY <1>1, <1>2, <1>3, <1>4, <1>5, <1>6, <1>7

\* The head of a route and what is behind it.
LEMMA CartHead ==
    ASSUME NEW S, NEW s \in Seq(S), s # <<>>
    PROVE  /\ Head(s) \in S /\ Tail(s) \in Seq(S)
           /\ {s[i] : i \in DOMAIN s} = {Head(s)} \cup {Tail(s)[i] : i \in DOMAIN Tail(s)}
           /\ Tail(s) = <<>> <=> Len(s) = 1
<1>1. Len(s) \in Nat /\ Len(s) # 0 /\ DOMAIN s = 1..Len(s) /\ Head(s) = s[1]
    OBVIOUS
<1>2. /\ Tail(s) \in Seq(S) /\ Len(Tail(s)) = Len(s) - 1
      /\ DOMAIN Tail(s) = 1..(Len(s) - 1)
      /\ \A i \in 1..(Len(s) - 1) : Tail(s)[i] = s[i + 1]
    BY <1>1
<1>3. Head(s) \in S BY <1>1
<1>4. Tail(s) = <<>> <=> Len(s) = 1
    BY <1>1, <1>2
<1>5. ASSUME NEW i \in DOMAIN s
      PROVE  s[i] \in {Head(s)} \cup {Tail(s)[j] : j \in DOMAIN Tail(s)}
    <2>1. CASE i = 1 BY <1>1, <2>1
    <2>2. CASE i # 1
        <3>1. i - 1 \in 1..(Len(s) - 1) /\ (i - 1) + 1 = i BY <1>1, <2>2
        <3>2. Tail(s)[i - 1] = s[i] BY <1>2, <3>1
        <3> QED BY <1>2, <3>1, <3>2
    <2> QED BY <2>1, <2>2
<1>6. ASSUME NEW j \in DOMAIN Tail(s)
      PROVE  Tail(s)[j] \in {s[i] : i \in DOMAIN s}
    <2>1. j + 1 \in DOMAIN s /\ Tail(s)[j] = s[j + 1] BY <1>1, <1>2
    <2> QED BY <2>1
<1>7. Head(s) \in {s[i] : i \in DOMAIN s}
    <2>1. 1 \in DOMAIN s BY <1>1
    <2> QED BY <1>1, <2>1
<1> QED BY <1>2, <1>3, <1>4, <1>5, <1>6, <1>7

\* A row is locked, or found to be gone.
LEMMA CartLocks ==
    ASSUME Cart!CartAssumption, Cart!CartInv, NEW q \in Request, Cart!Lock(q)
    PROVE  Cart!CartInv'
<1>1. PICK o : /\ o = cartReq[q] /\ DOMAIN o = DOMAIN Cart!NoRequest /\ Cart!RequestOK(o)
               /\ o.pc \in Cart!Statements
    BY DEF Cart!CartInv, Cart!Lock, Cart!Locking
<1>2. PICK row : row = Head(o.route)
    OBVIOUS
<1>3. PICK held1 : held1 = IF Cart!Inserting(q) \/ row \in Cart!StoredRows(o.cart)
                             THEN o.held \cup {row} ELSE o.held
    OBVIOUS
<1>4. PICK pc : pc = IF Len(o.route) = 1 THEN "save" ELSE o.pc
    OBVIOUS
<1>5. /\ cartReq' = [cartReq EXCEPT ![q].pc = pc, ![q].route = Tail(o.route), ![q].held = held1]
      /\ Cart!Holder(row) = {} /\ UNCHANGED <<cartRows, cartItems>> /\ Cart!TablesOK
    BY <1>1, <1>2, <1>3, <1>4 DEF Cart!Lock, Cart!tables, Cart!CartInv
<1>6. PICK r : /\ r = [o EXCEPT !.pc = pc, !.route = Tail(o.route), !.held = held1]
               /\ cartReq' = [cartReq EXCEPT ![q] = r]
    BY <1>1, <1>5 DEF Cart!CartInv
<1>7. /\ DOMAIN r = DOMAIN Cart!NoRequest /\ r.pc = pc /\ r.plan = o.plan
      /\ r.route = Tail(o.route) /\ r.op = o.op /\ r.cart = o.cart /\ r.items = o.items
      /\ r.held = held1 /\ r.seen = o.seen /\ r.saved = o.saved /\ r.stock = o.stock
      /\ r.todo = o.todo /\ r.missing = o.missing
    BY <1>1, <1>6, CartIdle
<1>8. /\ o.op \in Cart!Writes /\ o.cart \in Customer /\ o.items \in Cart!Contents
      /\ Cart!Saving(o) /\ o.pc \notin {"save", "resolve", "check", "idle", "answered"}
      /\ Cart!Begun(o) \in {1, 2, 3}
      /\ o.pc = Cart!PlanOf(o.op)[Cart!Begun(o)] /\ Cart!Ended(o) = Cart!Begun(o) - 1
      /\ o.route # <<>> /\ o.route \in Seq(Cart!OwnRows(o.cart))
      /\ cartItems[o.cart] \in o.seen /\ ~o.saved
    BY <1>1, CartAtLock
<1>9. /\ o.op \in {"replace", "upsert"} /\ Cart!Begun(o) = 1 => o.pc = "touch"
      /\ o.op = "replace" /\ Cart!Begun(o) = 2 => o.pc = "delete all"
      /\ o.op = "replace" /\ Cart!Begun(o) = 3 => o.pc = "insert"
      /\ o.op = "remove" /\ Cart!Begun(o) = 1 => o.pc = "touch existing"
      /\ o.op = "remove" /\ Cart!Begun(o) # 1 => o.pc = "delete line" /\ Cart!Begun(o) = 2
      /\ o.op = "clear" /\ Cart!Begun(o) = 1 => o.pc = "delete all"
      /\ o.op = "clear" /\ Cart!Begun(o) = 2 => o.pc = "delete cart"
      /\ o.op = "clear" /\ Cart!Begun(o) = 3 => o.pc = "cascade"
    <2>1. Cart!Begun(o) \in 1..Len(Cart!PlanOf(o.op)) BY <1>1, CartAtLock
    <2>2. PICK op, n, stmt : op = o.op /\ n = Cart!Begun(o) /\ stmt = o.pc
        OBVIOUS
    <2>3. op \in Cart!Writes /\ n \in 1..Len(Cart!PlanOf(op)) /\ stmt = Cart!PlanOf(op)[n]
        BY <1>8, <2>1, <2>2
    <2>4. /\ op \in {"replace", "upsert"} /\ n = 1 => stmt = "touch"
          /\ op = "replace" /\ n = 2 => stmt = "delete all"
          /\ op = "replace" /\ n = 3 => stmt = "insert"
          /\ op = "remove" /\ n = 1 => stmt = "touch existing"
          /\ op = "remove" /\ n # 1 => stmt = "delete line" /\ n = 2
          /\ op = "clear" /\ n = 1 => stmt = "delete all"
          /\ op = "clear" /\ n = 2 => stmt = "delete cart"
          /\ op = "clear" /\ n = 3 => stmt = "cascade"
        <3> HIDE <2>2
        <3> QED BY <2>3, CartPlanSteps
    <2> QED BY <2>2, <2>4
<1>10. /\ row \in Cart!OwnRows(o.cart) /\ r.route \in Seq(Cart!OwnRows(o.cart))
       /\ Cart!Ahead(o) = {row} \cup Cart!Ahead(r)
       /\ r.route = <<>> <=> Len(o.route) = 1
    <2>1. /\ Head(o.route) \in Cart!OwnRows(o.cart) /\ Tail(o.route) \in Seq(Cart!OwnRows(o.cart))
          /\ {o.route[i] : i \in DOMAIN o.route}
                = {Head(o.route)} \cup {Tail(o.route)[i] : i \in DOMAIN Tail(o.route)}
          /\ Tail(o.route) = <<>> <=> Len(o.route) = 1
        BY <1>8, CartHead
    <2> QED BY <1>2, <1>7, <2>1 DEF Cart!Ahead
<1>11. /\ Cart!Begun(r) = Cart!Begun(o) /\ Cart!Saving(r)
       /\ Len(o.route) = 1 => pc = "save" /\ Cart!Ended(r) = Cart!Begun(o)
       /\ Len(o.route) # 1 => pc = o.pc /\ Cart!Ended(r) = Cart!Begun(o) - 1
       /\ pc \notin {"resolve", "check", "idle", "answered"}
    <2>1. Cart!Begun(r) = Cart!Begun(o) BY <1>7 DEF Cart!Begun
    <2>2. pc = "save" \/ pc \in Cart!Statements BY <1>1, <1>4
    <2>3. /\ Len(o.route) = 1 => pc = "save"
          /\ Len(o.route) # 1 => pc = o.pc /\ pc # "save"
        BY <1>4, <1>8
    <2>4. Cart!Ended(r) = IF pc = "save" THEN Cart!Begun(o) ELSE Cart!Begun(o) - 1
        BY <1>7, <2>1 DEF Cart!Ended
    <2> QED BY <1>7, <1>8, <2>1, <2>2, <2>3, <2>4 DEF Cart!Saving
<1>12. /\ Cart!RouteOK(o) /\ Cart!LocksOK(o) /\ Cart!CoverOK(o) /\ Cart!StageOK(o)
       /\ Cart!StockOK(o) /\ Cart!SeenOK(o)
    BY <1>1 DEF Cart!RequestOK
<1>13. /\ o.pc \in {"touch", "touch existing", "delete line"} => Len(o.route) = 1
       /\ o.pc \in {"touch", "touch existing", "delete cart"}
             => Cart!Ahead(o) \subseteq {Cart!CartRow(o.cart)}
       /\ o.pc = "delete line" => Cart!Ahead(o) \subseteq Cart!ItemRows(o.cart, Cart!Lines(o.items))
    BY <1>1, <1>12 DEF Cart!RouteOK
<1>14. /\ o.held \subseteq held1 /\ held1 \subseteq o.held \cup {row}
       /\ o.pc \in {"touch", "insert"} \/ row \in Cart!StoredRows(o.cart) => row \in held1
       /\ row \in held1 => row \in o.held \/ o.pc \in {"touch", "insert"}
                              \/ row \in Cart!StoredRows(o.cart)
    BY <1>1, <1>3 DEF Cart!Inserting
<1>15. Cart!StageOK(r)
    BY <1>7, <1>8, <1>11, <1>12 DEF Cart!StageOK
<1>16. Cart!RouteOK(r)
    <2>1. CASE Len(o.route) = 1
        <3>1. r.pc = "save" /\ r.route = <<>> BY <1>7, <1>10, <1>11, <2>1
        <3> QED BY <3>1 DEF Cart!RouteOK, Cart!Statements
    <2>2. CASE Len(o.route) # 1
        <3>1. r.pc = o.pc /\ r.route # <<>> BY <1>7, <1>10, <1>11, <2>2
        <3>2. r.pc \notin {"touch", "touch existing", "delete line", "save", "resolve"}
            BY <1>8, <1>13, <2>2, <3>1
        <3>3. Cart!Begun(r) >= 1 /\ r.pc = Cart!PlanOf(r.op)[Cart!Begun(r)]
            BY <1>7, <1>8, <1>11, <3>1
        <3>4. r.pc = "delete cart" => Cart!Ahead(r) \subseteq {Cart!CartRow(r.cart)}
            BY <1>7, <1>10, <1>13, <3>1
        <3> QED BY <1>7, <1>10, <3>1, <3>2, <3>3, <3>4 DEF Cart!RouteOK
    <2> QED BY <2>1, <2>2
<1>17. Cart!LocksOK(r)
    <2>1. held1 \subseteq Cart!OwnRows(o.cart) BY <1>8, <1>10, <1>12, <1>14 DEF Cart!LocksOK
    <2>2. o.op # "clear" => Cart!Ended(r) # 0
        <3>1. CASE Len(o.route) = 1 BY <1>8, <1>11, <3>1
        <3>2. CASE Len(o.route) # 1
            <4>1. o.op # "clear" => Cart!Begun(o) # 1 BY <1>8, <1>9, <1>13, <3>2 DEF Cart!Writes
            <4> QED BY <1>8, <1>11, <3>2, <4>1
        <3> QED BY <3>1, <3>2
    <2>3. ASSUME o.op \in {"replace", "upsert"}, Cart!Ended(r) >= 1
          PROVE  Cart!CartRow(o.cart) \in held1
        <3>1. CASE Cart!Begun(o) = 1
            <4>1. o.pc = "touch" BY <1>9, <2>3, <3>1
            <4>2. row = Cart!CartRow(o.cart) BY <1>10, <1>13, <4>1
            <4> QED BY <1>14, <4>1, <4>2
        <3>2. CASE Cart!Begun(o) # 1
            <4>1. Cart!Ended(o) >= 1 BY <1>8, <3>2
            <4> QED BY <1>8, <1>12, <1>14, <2>3, <4>1 DEF Cart!LocksOK
        <3> QED BY <3>1, <3>2
    <2>4. ASSUME o.op = "remove"
          PROVE  /\ \A v, w \in Cart!Lines(o.items) : v = w
                 /\ Cart!Ended(r) = 1 => held1 \subseteq {Cart!CartRow(o.cart)}
                 /\ held1 \subseteq
                       {Cart!CartRow(o.cart)} \cup Cart!ItemRows(o.cart, Cart!Lines(o.items))
        <3>1. /\ \A v, w \in Cart!Lines(o.items) : v = w
              /\ Cart!Ended(o) = 0 => o.held = {}
              /\ o.held \subseteq
                    {Cart!CartRow(o.cart)} \cup Cart!ItemRows(o.cart, Cart!Lines(o.items))
            BY <1>8, <1>12, <2>4 DEF Cart!LocksOK
        <3>2. CASE Cart!Begun(o) = 1
            <4>1. row = Cart!CartRow(o.cart) BY <1>9, <1>10, <1>13, <2>4, <3>2
            <4>2. o.held = {} BY <1>8, <3>1, <3>2
            <4> QED BY <1>14, <3>1, <4>1, <4>2
        <3>3. CASE Cart!Begun(o) # 1
            <4>1. o.pc = "delete line" /\ Cart!Begun(o) = 2 BY <1>9, <2>4, <3>3
            <4>2. Len(o.route) = 1 /\ row \in Cart!ItemRows(o.cart, Cart!Lines(o.items))
                BY <1>10, <1>13, <4>1
            <4>3. Cart!Ended(r) = 2 BY <1>11, <4>1, <4>2
            <4> QED BY <1>14, <3>1, <4>2, <4>3
        <3> QED BY <3>2, <3>3
    <2> QED BY <1>7, <1>11, <2>1, <2>2, <2>3, <2>4 DEF Cart!LocksOK
<1>18. Cart!CoverOK(r)
    <2> DEFINE lines == Cart!ItemRows(o.cart, Cart!Lines(cartItems[o.cart]))
               new == Cart!ItemRows(o.cart, Cart!Lines(o.items))
               cart == Cart!CartRow(o.cart)
    <2>1. /\ Cart!Covered(o, Cart!Lines(cartItems[o.cart])) <=> lines \subseteq o.held \cup Cart!Ahead(o)
          /\ Cart!Covered(o, Cart!Lines(o.items)) <=> new \subseteq o.held \cup Cart!Ahead(o)
          /\ Cart!Covered(r, Cart!Lines(cartItems[o.cart])) <=> lines \subseteq held1 \cup Cart!Ahead(r)
          /\ Cart!Covered(r, Cart!Lines(o.items)) <=> new \subseteq held1 \cup Cart!Ahead(r)
        BY <1>7 DEF Cart!Covered
    <2>2. lines \subseteq Cart!StoredRows(o.cart)
        BY DEF Cart!StoredRows
    <2>3. lines \subseteq o.held \cup Cart!Ahead(o) => lines \subseteq held1 \cup Cart!Ahead(r)
        BY <1>10, <1>14, <2>2
    <2>4. o.op = "replace" /\ Cart!Begun(o) >= 2 => lines \subseteq held1 \cup Cart!Ahead(r)
        BY <1>8, <1>12, <2>1, <2>3 DEF Cart!CoverOK
    <2>5. ASSUME o.op = "replace", Cart!Begun(o) = 3 PROVE new \subseteq held1 \cup Cart!Ahead(r)
        <3>1. o.pc = "insert" BY <1>9, <2>5
        <3>2. new \subseteq o.held \cup Cart!Ahead(o) BY <1>8, <1>12, <2>1, <2>5 DEF Cart!CoverOK
        <3> QED BY <1>10, <1>14, <3>1, <3>2
    <2>6. ASSUME o.op = "clear", NEW v \in Thing, Cart!ItemRow(o.cart, v) \in held1
          PROVE  v \in Cart!Lines(cartItems[o.cart])
        <3>1. CASE Cart!ItemRow(o.cart, v) \in o.held
            BY <1>8, <1>12, <2>6, <3>1 DEF Cart!CoverOK
        <3>2. CASE Cart!ItemRow(o.cart, v) \notin o.held
            <4>1. row = Cart!ItemRow(o.cart, v) BY <1>14, <2>6, <3>2
            <4>2. o.pc \notin {"touch", "insert"}
                BY <1>8, <1>9, <2>6
            <4>3. Cart!ItemRow(o.cart, v) \in Cart!StoredRows(o.cart)
                BY <1>14, <2>6, <3>2, <4>1, <4>2
            <4>4. Cart!ItemRow(o.cart, v) \in lines
                BY <4>3, CartNames DEF Cart!StoredRows
            <4>5. PICK w \in Cart!Lines(cartItems[o.cart]) :
                      Cart!ItemRow(o.cart, v) = Cart!ItemRow(o.cart, w)
                BY <4>4 DEF Cart!ItemRows
            <4>6. v = w BY <4>5, CartNames
            <4> QED BY <4>5, <4>6
        <3> QED BY <3>1, <3>2
    <2>7. ASSUME o.op = "clear", Cart!Begun(o) = 3
          PROVE  cart \in o.held /\ lines \subseteq held1 \cup Cart!Ahead(r)
        <3>1. Cart!Ended(o) >= 2 BY <1>8, <2>7
        <3>2. cart \in o.held BY <1>8, <1>12, <2>7, <3>1 DEF Cart!CoverOK
        <3>3. lines \subseteq o.held \cup Cart!Ahead(o)
            BY <1>8, <1>12, <2>1, <2>7, <3>2 DEF Cart!CoverOK
        <3> QED BY <2>3, <3>2, <3>3
    <2>8. ASSUME o.op = "clear", Cart!Ended(r) >= 2, cart \notin held1
          PROVE  pc = "save" /\ held1 = {} /\ Cart!NoItems \in o.seen
        <3>1. Cart!Begun(o) # 3 BY <1>14, <2>7, <2>8
        <3>2. Cart!Begun(o) = 2 /\ Len(o.route) = 1
            <4>1. CASE Len(o.route) = 1 BY <1>8, <1>11, <2>8, <3>1, <4>1
            <4>2. CASE Len(o.route) # 1 BY <1>8, <1>11, <2>8, <3>1, <4>2
            <4> QED BY <4>1, <4>2
        <3>3. o.pc = "delete cart" BY <1>9, <2>8, <3>2
        <3>4. row = cart BY <1>10, <1>13, <3>3
        <3>5. cart \notin Cart!StoredRows(o.cart) BY <1>14, <2>8, <3>4
        <3>6. o.cart \notin cartRows BY <3>5 DEF Cart!StoredRows
        <3>7. cartItems[o.cart] = Cart!NoItems BY <1>5, <1>8, <3>6 DEF Cart!TablesOK
        <3>8. Cart!Lines(cartItems[o.cart]) = {} BY <3>7, CartNothing
        <3>9. \A v \in Thing : Cart!ItemRow(o.cart, v) \notin o.held
            BY <1>8, <1>12, <2>8, <3>8 DEF Cart!CoverOK
        <3>10. o.held \subseteq Cart!OwnRows(o.cart) BY <1>8, <1>12 DEF Cart!LocksOK
        <3>11. cart \notin o.held BY <1>14, <2>8
        <3>12. o.held = {} BY <3>9, <3>10, <3>11 DEF Cart!OwnRows, Cart!ItemRows
        <3>13. held1 = {} BY <1>14, <2>8, <3>4, <3>12
        <3> QED BY <1>8, <1>11, <3>2, <3>7, <3>13
    <2> HIDE DEF lines, new
    <2> QED BY <1>7, <1>11, <2>1, <2>4, <2>5, <2>6, <2>7, <2>8 DEF Cart!CoverOK
<1>19. Cart!StockOK(r)
    BY <1>7, <1>8, <1>11, <1>12 DEF Cart!StockOK
<1>20. Cart!SeenOK(r)
    <2>1. r.pc \notin {"enrich", "cleared", "answered"}
        BY <1>7, <1>11 DEF Cart!Saving, Cart!Statements
    <2>2. r.saved \in BOOLEAN BY <1>7, <1>12 DEF Cart!SeenOK
    <2> QED BY <1>7, <1>8, <2>1, <2>2 DEF Cart!SeenOK
<1>21. Cart!RequestOK(r)
    BY <1>15, <1>16, <1>17, <1>18, <1>19, <1>20 DEF Cart!RequestOK
<1>22. \A p \in Request : p # q => r.held \cap cartReq[p].held = {}
    <2>1. \A p \in Request : p # q => o.held \cap cartReq[p].held = {}
        BY <1>1 DEF Cart!CartInv, Cart!Exclusive
    <2>2. \A p \in Request : row \notin cartReq[p].held
        BY <1>5 DEF Cart!Holder
    <2> QED BY <1>7, <1>14, <2>1, <2>2
<1> QED BY <1>5, <1>6, <1>7, <1>21, <1>22, CartOnly

\* What the tables have no part in.
LEMMA CartSame ==
    ASSUME NEW r
    PROVE  /\ Cart!StageOK(r)' <=> Cart!StageOK(r)
           /\ Cart!RouteOK(r)' <=> Cart!RouteOK(r)
           /\ Cart!LocksOK(r)' <=> Cart!LocksOK(r)
           /\ Cart!StockOK(r)' <=> Cart!StockOK(r)
<1> USE DEF Cart!Writes, Cart!Saving, Cart!Begun, Cart!Ended, Cart!Ahead, Cart!OwnRows,
         Cart!Statements, Cart!ItemRows, Cart!ItemRow, Cart!CartRow, Cart!Lines, Cart!Contents,
         Cart!PlanOf
<1>1. Cart!StageOK(r)' <=> Cart!StageOK(r) BY DEF Cart!StageOK
<1>2. Cart!RouteOK(r)' <=> Cart!RouteOK(r) BY DEF Cart!RouteOK
<1>3. Cart!LocksOK(r)' <=> Cart!LocksOK(r) BY DEF Cart!LocksOK
<1>4. Cart!StockOK(r)' <=> Cart!StockOK(r) BY DEF Cart!StockOK
<1> QED BY <1>1, <1>2, <1>3, <1>4

\* What a transaction that is about to commit leaves in the cart.
LEMMA CartSaved ==
    ASSUME Cart!CartAssumption, Cart!CartInv, NEW q \in Request, NEW o, o = cartReq[q],
           o.pc = "save", o.plan = <<>>, NEW old, old = cartItems[o.cart]
    PROVE  /\ o.op \in Cart!Writes /\ o.cart \in Customer /\ o.items \in Cart!Contents
           /\ old \in Cart!Contents /\ Cart!Saved(q) \in Cart!Contents /\ old \in o.seen
           /\ o.op = "replace" =>
                 /\ Cart!CartRow(o.cart) \in o.held /\ Cart!Saved(q) = o.items
                 /\ Cart!Lines(old) \subseteq Cart!Held(q)
           /\ o.op = "upsert" =>
                 /\ Cart!CartRow(o.cart) \in o.held
                 /\ Cart!Saved(q) = [v \in Thing |-> IF o.items[v] > 0 THEN o.items[v] ELSE old[v]]
           /\ o.op = "remove" =>
                 /\ \A v, w \in Cart!Lines(o.items) : v = w
                 /\ Cart!Held(q) \subseteq Cart!Lines(o.items)
                 /\ Cart!Saved(q) = [v \in Thing |-> IF v \in Cart!Held(q) THEN 0 ELSE old[v]]
           /\ o.op = "clear" /\ Cart!CartRow(o.cart) \in o.held =>
                 Cart!Lines(old) \subseteq Cart!Held(q) /\ Cart!Saved(q) = Cart!NoItems
           /\ o.op = "clear" /\ Cart!CartRow(o.cart) \notin o.held =>
                 o.held = {} /\ Cart!NoItems \in o.seen /\ Cart!Saved(q) = old
<1>1. Cart!RequestOK(o) BY DEF Cart!CartInv
<1>2. /\ o.op \in Cart!Writes /\ o.cart \in Customer /\ o.items \in Cart!Contents
      /\ Cart!Saving(o) /\ Cart!Ahead(o) = {} /\ Cart!Ended(o) = Cart!Begun(o)
      /\ Cart!Begun(o) \in 0..Len(Cart!PlanOf(o.op)) /\ cartItems[o.cart] \in o.seen
      /\ Len(o.plan) = Len(Cart!PlanOf(o.op)) - Cart!Begun(o)
    BY <1>1, CartAtSave
<1>3. /\ o.op \in {"replace", "clear"} => Cart!Begun(o) = 3
      /\ o.op \in {"upsert", "remove"} => Cart!Begun(o) = 2
    <2>1. /\ o.op \in {"replace", "clear"} => Len(Cart!PlanOf(o.op)) = 3
          /\ o.op \in {"upsert", "remove"} => Len(Cart!PlanOf(o.op)) = 2
        BY CartPlans
    <2>2. PICK n, l : n = Cart!Begun(o) /\ l = Len(Cart!PlanOf(o.op)) OBVIOUS
    <2>3. Len(o.plan) = 0 OBVIOUS
    <2>4. n \in 0..l /\ 0 = l - n BY <1>2, <2>2, <2>3
    <2>5. /\ l = 3 => n = 3
          /\ l = 2 => n = 2
        <3> HIDE <2>2
        <3> QED BY <2>4
    <2> QED BY <2>1, <2>2, <2>5
<1>4. old \in Cart!Contents
    BY <1>2 DEF Cart!CartInv, Cart!TablesOK
<1>5. Cart!LocksOK(o) /\ Cart!CoverOK(o) BY <1>1 DEF Cart!RequestOK
<1>6. \A v \in Thing : v \in Cart!Held(q) <=> Cart!ItemRow(o.cart, v) \in o.held
    BY DEF Cart!Held
<1>7. \A lines \in SUBSET Thing : Cart!Covered(o, lines) => lines \subseteq Cart!Held(q)
    BY <1>2, <1>6 DEF Cart!Covered, Cart!ItemRows
<1>8. /\ \A items \in Cart!Contents : \A v \in Thing :
            v \in Cart!Lines(items) \/ (v \notin Cart!Lines(items) /\ items[v] = 0)
      /\ \A items : Cart!Lines(items) \in SUBSET Thing
    BY DEF Cart!Lines, Cart!Contents, Cart!CartAssumption
<1>9. Cart!Saved(q) =
        CASE o.op = "replace" -> [v \in Thing |-> IF v \in Cart!Held(q) THEN o.items[v] ELSE old[v]]
          [] o.op = "upsert"  -> [v \in Thing |-> IF o.items[v] > 0 THEN o.items[v] ELSE old[v]]
          [] OTHER            -> [v \in Thing |-> IF v \in Cart!Held(q) THEN 0 ELSE old[v]]
    BY DEF Cart!Saved
<1>10. ASSUME o.op = "replace"
       PROVE  /\ Cart!CartRow(o.cart) \in o.held /\ Cart!Saved(q) = o.items
              /\ Cart!Lines(old) \subseteq Cart!Held(q)
    <2>1. Cart!Ended(o) >= 1 /\ Cart!Begun(o) >= 2 BY <1>2, <1>3, <1>10
    <2>2. Cart!CartRow(o.cart) \in o.held BY <1>2, <1>5, <1>10, <2>1 DEF Cart!LocksOK
    <2>3. Cart!Covered(o, Cart!Lines(old)) /\ Cart!Covered(o, Cart!Lines(o.items))
        BY <1>2, <1>3, <1>5, <1>10, <2>1 DEF Cart!CoverOK
    <2>4. Cart!Lines(old) \subseteq Cart!Held(q) /\ Cart!Lines(o.items) \subseteq Cart!Held(q)
        BY <1>7, <1>8, <2>3
    <2>5. Cart!Saved(q) = [v \in Thing |-> IF v \in Cart!Held(q) THEN o.items[v] ELSE old[v]]
        BY <1>9, <1>10
    <2>6. \A v \in Thing : Cart!Saved(q)[v] = o.items[v]
        BY <1>2, <1>4, <1>8, <2>4, <2>5
    <2>7. Cart!Saved(q) = o.items
        <3>1. Cart!Saved(q) = [v \in Thing |-> Cart!Saved(q)[v]] BY <2>5
        <3>2. o.items = [v \in Thing |-> o.items[v]] BY <1>2 DEF Cart!Contents
        <3>3. [v \in Thing |-> Cart!Saved(q)[v]] = [v \in Thing |-> o.items[v]] BY <2>6
        <3> QED BY <3>1, <3>2, <3>3
    <2> QED BY <2>2, <2>4, <2>7
<1>11. ASSUME o.op = "upsert"
       PROVE  /\ Cart!CartRow(o.cart) \in o.held
              /\ Cart!Saved(q) = [v \in Thing |-> IF o.items[v] > 0 THEN o.items[v] ELSE old[v]]
    <2>1. Cart!Ended(o) >= 1 BY <1>2, <1>3, <1>11
    <2> QED BY <1>2, <1>5, <1>9, <1>11, <2>1 DEF Cart!LocksOK
<1>12. ASSUME o.op = "remove"
       PROVE  /\ \A v, w \in Cart!Lines(o.items) : v = w
              /\ Cart!Held(q) \subseteq Cart!Lines(o.items)
              /\ Cart!Saved(q) = [v \in Thing |-> IF v \in Cart!Held(q) THEN 0 ELSE old[v]]
    <2>1. /\ \A v, w \in Cart!Lines(o.items) : v = w
          /\ o.held \subseteq {Cart!CartRow(o.cart)} \cup Cart!ItemRows(o.cart, Cart!Lines(o.items))
        BY <1>2, <1>5, <1>12 DEF Cart!LocksOK
    <2>2. Cart!Held(q) \subseteq Cart!Lines(o.items)
        <3> SUFFICES ASSUME NEW v \in Thing, Cart!ItemRow(o.cart, v) \in o.held
                     PROVE  v \in Cart!Lines(o.items)
            BY <1>6 DEF Cart!Held
        <3>1. Cart!ItemRow(o.cart, v) \in Cart!ItemRows(o.cart, Cart!Lines(o.items))
            BY <2>1, CartNames
        <3>2. PICK w \in Cart!Lines(o.items) : Cart!ItemRow(o.cart, v) = Cart!ItemRow(o.cart, w)
            BY <3>1 DEF Cart!ItemRows
        <3> QED BY <3>2, CartNames
    <2> QED BY <1>9, <1>12, <2>1, <2>2
<1>13. ASSUME o.op = "clear"
       PROVE  Cart!Saved(q) = [v \in Thing |-> IF v \in Cart!Held(q) THEN 0 ELSE old[v]]
    BY <1>9, <1>13
<1>14. ASSUME o.op = "clear", Cart!CartRow(o.cart) \in o.held
       PROVE  Cart!Lines(old) \subseteq Cart!Held(q) /\ Cart!Saved(q) = Cart!NoItems
    <2>1. Cart!Covered(o, Cart!Lines(old)) BY <1>2, <1>3, <1>5, <1>14 DEF Cart!CoverOK
    <2>2. Cart!Lines(old) \subseteq Cart!Held(q) BY <1>7, <1>8, <2>1
    <2>3. \A v \in Thing : Cart!Saved(q)[v] = 0 BY <1>4, <1>8, <1>13, <1>14, <2>2
    <2> QED BY <1>13, <1>14, <2>2, <2>3 DEF Cart!NoItems
<1>15. ASSUME o.op = "clear", Cart!CartRow(o.cart) \notin o.held
       PROVE  o.held = {} /\ Cart!NoItems \in o.seen /\ Cart!Saved(q) = old
    <2>1. Cart!Ended(o) >= 2 BY <1>2, <1>3, <1>15
    <2>2. o.held = {} /\ Cart!NoItems \in o.seen
        BY <1>2, <1>5, <1>15, <2>1 DEF Cart!CoverOK
    <2>3. \A v \in Thing : Cart!Saved(q)[v] = old[v] BY <1>6, <1>13, <1>15, <2>2
    <2> QED BY <1>4, <1>13, <1>15, <2>2, <2>3 DEF Cart!Contents
<1>16. Cart!Saved(q) \in Cart!Contents
    <2>1. 0 \in 0..MaxQty BY DEF Cart!CartAssumption
    <2> QED BY <1>2, <1>4, <1>9, <2>1 DEF Cart!Contents
<1> QED BY <1>2, <1>4, <1>10, <1>11, <1>12, <1>14, <1>15, <1>16

\* What a transaction has to cover once the tables have changed.
LEMMA CartCoverNext ==
    ASSUME NEW r,
           Cart!Saving(r) =>
              /\ r.op = "replace" /\ Cart!Begun(r) >= 2
                    => Cart!Covered(r, Cart!Lines(cartItems'[r.cart]))
              /\ r.op = "replace" /\ Cart!Begun(r) = 3 => Cart!Covered(r, Cart!Lines(r.items))
              /\ r.op = "clear" =>
                    /\ \A v \in Thing : Cart!ItemRow(r.cart, v) \in r.held
                                          => v \in Cart!Lines(cartItems'[r.cart])
                    /\ Cart!Begun(r) = 3 /\ Cart!CartRow(r.cart) \in r.held
                          => Cart!Covered(r, Cart!Lines(cartItems'[r.cart]))
                    /\ Cart!Ended(r) >= 2 /\ Cart!CartRow(r.cart) \notin r.held =>
                          r.pc = "save" /\ r.held = {} /\ Cart!NoItems \in r.seen
    PROVE  Cart!CoverOK(r)'
BY DEF Cart!CoverOK, Cart!Covered, Cart!Saving, Cart!Statements, Cart!Begun, Cart!Ended,
       Cart!PlanOf, Cart!NoItems, Cart!ItemRows, Cart!Ahead, Cart!ItemRow, Cart!CartRow, Cart!Lines

\* Whoever does not hold the cart's row adds no line to it, and nobody takes out a line
\* that it does not hold.
LEMMA CartTaken ==
    ASSUME Cart!CartAssumption, Cart!CartInv, NEW q \in Request, NEW o, o = cartReq[q],
           o.pc = "save", o.plan = <<>>, NEW old, old = cartItems[o.cart]
    PROVE  /\ Cart!CartRow(o.cart) \notin o.held =>
                 Cart!Lines(Cart!Saved(q)) \subseteq Cart!Lines(old)
           /\ Cart!Lines(old) \ Cart!Held(q) \subseteq Cart!Lines(Cart!Saved(q))
           /\ o.op = "remove" /\ Cart!Saved(q) # Cart!NoItems => old # Cart!NoItems
<1>1. PICK saved, lines, kept, held1 :
          /\ saved = Cart!Saved(q) /\ lines = Cart!Lines(old) /\ kept = Cart!Lines(saved)
          /\ held1 = Cart!Held(q)
    OBVIOUS
<1>2. /\ o.op \in Cart!Writes /\ o.items \in Cart!Contents
      /\ old \in Cart!Contents /\ saved \in Cart!Contents
      /\ o.op = "replace" => Cart!CartRow(o.cart) \in o.held /\ lines \subseteq held1
      /\ o.op = "upsert" =>
            /\ Cart!CartRow(o.cart) \in o.held
            /\ saved = [v \in Thing |-> IF o.items[v] > 0 THEN o.items[v] ELSE old[v]]
      /\ o.op = "remove" => saved = [v \in Thing |-> IF v \in held1 THEN 0 ELSE old[v]]
      /\ o.op = "clear" /\ Cart!CartRow(o.cart) \in o.held => lines \subseteq held1
      /\ o.op = "clear" /\ Cart!CartRow(o.cart) \notin o.held => saved = old
    BY <1>1, CartSaved
<1>3. /\ \A v \in Thing : v \in lines <=> old[v] > 0
      /\ \A v \in Thing : v \in kept <=> saved[v] > 0
      /\ lines \subseteq Thing /\ kept \subseteq Thing
    BY <1>1 DEF Cart!Lines
<1>4. CASE o.op = "replace"
    BY <1>1, <1>2, <1>4
<1>5. CASE o.op = "upsert"
    <2>1. \A v \in Thing : old[v] > 0 => saved[v] > 0 BY <1>2, <1>5
    <2> QED BY <1>1, <1>2, <1>3, <1>5, <2>1
<1>6. CASE o.op = "remove"
    <2>1. \A v \in Thing : saved[v] = IF v \in held1 THEN 0 ELSE old[v] BY <1>2, <1>6
    <2>2. kept \subseteq lines /\ lines \ held1 \subseteq kept BY <1>3, <2>1
    <2>3. ASSUME old = Cart!NoItems PROVE saved = Cart!NoItems
        <3>1. \A v \in Thing : old[v] = 0 BY <2>3 DEF Cart!NoItems
        <3>2. \A v \in Thing : saved[v] = 0 BY <2>1, <3>1
        <3> QED BY <1>2, <1>6, <3>1 DEF Cart!NoItems
    <2> QED BY <1>1, <1>6, <2>2, <2>3
<1>7. CASE o.op = "clear"
    BY <1>1, <1>2, <1>7
<1> QED BY <1>2, <1>4, <1>5, <1>6, <1>7 DEF Cart!Writes

\* What another transaction knows of the cart stays true when one commits.
LEMMA CartOthers ==
    ASSUME Cart!CartAssumption, Cart!CartInv, NEW q \in Request, Cart!Commit(q),
           NEW p \in Request, p # q
    PROVE  Cart!RequestOK(cartReq[p])'
<1>0. PICK o, saved, t, s :
        /\ o = cartReq[q] /\ o.pc = "save" /\ o.plan = <<>> /\ saved = Cart!Saved(q)
        /\ cartItems' = [cartItems EXCEPT ![o.cart] = saved]
        /\ t = cartReq[p] /\ s = cartReq'[p]
        /\ s = IF t.cart = o.cart THEN [t EXCEPT !.seen = @ \cup {saved}] ELSE t
    BY DEF Cart!Commit, Cart!At
<1>1. /\ Cart!RequestOK(t) /\ DOMAIN t = DOMAIN Cart!NoRequest /\ t.held \cap o.held = {}
      /\ cartItems \in [Customer -> Cart!Contents]
    BY <1>0 DEF Cart!CartInv, Cart!Exclusive, Cart!TablesOK
<1>2. /\ s.pc = t.pc /\ s.op = t.op /\ s.cart = t.cart /\ s.items = t.items /\ s.todo = t.todo
      /\ s.missing = t.missing /\ s.stock = t.stock /\ s.plan = t.plan /\ s.route = t.route
      /\ s.held = t.held /\ s.saved = t.saved /\ s.answer = t.answer /\ s.status = t.status
      /\ t.seen \subseteq s.seen /\ (t.cart = o.cart => saved \in s.seen)
    BY <1>0, <1>1, CartIdle
<1>3. /\ o.cart \in Customer /\ saved \in Cart!Contents
      /\ o.op \in Cart!Writes
      /\ o.op = "replace" => Cart!Lines(cartItems[o.cart]) \subseteq Cart!Held(q)
    BY <1>0, CartSaved
<1>4. cartItems'[o.cart] = saved /\ \A c \in Customer : c # o.cart => cartItems'[c] = cartItems[c]
    BY <1>0, <1>1, <1>3
<1>5. Cart!StageOK(s) /\ Cart!RouteOK(s) /\ Cart!LocksOK(s) /\ Cart!StockOK(s)
    <2>0. Cart!Begun(s) = Cart!Begun(t) /\ Cart!Ended(s) = Cart!Ended(t) /\ Cart!Ahead(s) = Cart!Ahead(t)
          /\ (Cart!Saving(s) <=> Cart!Saving(t))
        BY <1>2 DEF Cart!Begun, Cart!Ended, Cart!Ahead, Cart!Saving
    <2>1. Cart!StageOK(s)
        <3>1. Cart!StageOK(t) BY <1>1 DEF Cart!RequestOK
        <3> QED BY <1>2, <2>0, <3>1 DEF Cart!StageOK
    <2>2. Cart!RouteOK(s)
        <3>1. Cart!RouteOK(t) BY <1>1 DEF Cart!RequestOK
        <3> QED BY <1>2, <2>0, <3>1 DEF Cart!RouteOK
    <2>3. Cart!LocksOK(s)
        <3>1. Cart!LocksOK(t) BY <1>1 DEF Cart!RequestOK
        <3> QED BY <1>2, <2>0, <3>1 DEF Cart!LocksOK
    <2>4. Cart!StockOK(s)
        <3>1. Cart!StockOK(t) BY <1>1 DEF Cart!RequestOK
        <3> QED BY <1>2, <3>1 DEF Cart!StockOK
    <2> QED BY <2>1, <2>2, <2>3, <2>4
<1>6. Cart!SeenOK(s)'
    <2>1. Cart!SeenOK(t) /\ Cart!StageOK(t) BY <1>1 DEF Cart!RequestOK
    <2>2. s.pc \notin {"idle", "answered"} => cartItems'[s.cart] \in s.seen
        BY <1>2, <1>4, <2>1 DEF Cart!SeenOK, Cart!StageOK
    <2>3. Cart!NoItems' = Cart!NoItems /\ Cart!StatusOf("ok")' = Cart!StatusOf("ok")
          /\ Cart!StatusOf("internal")' = Cart!StatusOf("internal")
        BY DEF Cart!NoItems, Cart!StatusOf
    <2> QED BY <1>2, <2>1, <2>2, <2>3 DEF Cart!SeenOK
<1>7. Cart!CoverOK(s)'
    <2> DEFINE old == cartItems[o.cart]
    <2>1. /\ Cart!Saving(s) <=> Cart!Saving(t)
          /\ Cart!Begun(s) = Cart!Begun(t) /\ Cart!Ended(s) = Cart!Ended(t)
          /\ \A lines : Cart!Covered(s, lines) <=> Cart!Covered(t, lines)
        BY <1>2 DEF Cart!Saving, Cart!Begun, Cart!Ended, Cart!Covered, Cart!Ahead
    <2>2. Cart!CoverOK(t) /\ Cart!LocksOK(t) /\ (Cart!Saving(t) => t.cart \in Customer)
        <3>1. t.pc \notin {"idle", "answered"} => t.cart \in Customer
            BY <1>1 DEF Cart!RequestOK, Cart!StageOK
        <3>2. Cart!Saving(t) => t.pc \notin {"idle", "answered"}
            BY DEF Cart!Saving, Cart!Statements
        <3> QED BY <1>1, <3>1, <3>2 DEF Cart!RequestOK
    <2>3. CASE t.cart # o.cart
        <3>1. Cart!Saving(t) => cartItems'[s.cart] = cartItems[t.cart]
            BY <1>2, <1>4, <2>2, <2>3
        <3>2. ASSUME Cart!Saving(s)
              PROVE  /\ s.op = "replace" /\ Cart!Begun(s) >= 2
                           => Cart!Covered(s, Cart!Lines(cartItems'[s.cart]))
                     /\ s.op = "replace" /\ Cart!Begun(s) = 3 => Cart!Covered(s, Cart!Lines(s.items))
                     /\ s.op = "clear" =>
                           /\ \A v \in Thing : Cart!ItemRow(s.cart, v) \in s.held
                                                 => v \in Cart!Lines(cartItems'[s.cart])
                           /\ Cart!Begun(s) = 3 /\ Cart!CartRow(s.cart) \in s.held
                                 => Cart!Covered(s, Cart!Lines(cartItems'[s.cart]))
                           /\ Cart!Ended(s) >= 2 /\ Cart!CartRow(s.cart) \notin s.held =>
                                 s.pc = "save" /\ s.held = {} /\ Cart!NoItems \in s.seen
            BY <1>2, <2>1, <2>2, <3>1, <3>2 DEF Cart!CoverOK
        <3> QED BY <3>2, CartCoverNext
    <2>4. CASE t.cart = o.cart
        <3>0. cartItems'[s.cart] = saved /\ s.cart = o.cart
            BY <1>2, <1>4, <2>4
        <3>1. /\ Cart!CartRow(o.cart) \notin o.held => Cart!Lines(saved) \subseteq Cart!Lines(old)
              /\ Cart!Lines(old) \ Cart!Held(q) \subseteq Cart!Lines(saved)
            BY <1>0, CartTaken
        <3>2. Cart!CartRow(t.cart) \in t.held => Cart!Lines(saved) \subseteq Cart!Lines(old)
            BY <1>1, <2>4, <3>1
        <3>3. ASSUME NEW v \in Thing, Cart!ItemRow(t.cart, v) \in t.held, v \in Cart!Lines(old)
              PROVE  v \in Cart!Lines(saved)
            <4>1. v \notin Cart!Held(q) BY <1>0, <1>1, <2>4, <3>3 DEF Cart!Held
            <4> QED BY <3>1, <3>3, <4>1
        <3>4. ASSUME Cart!Covered(t, Cart!Lines(old)), Cart!CartRow(t.cart) \in t.held
              PROVE  Cart!Covered(t, Cart!Lines(saved))
            BY <3>2, <3>4 DEF Cart!Covered, Cart!ItemRows
        <3>5. Cart!Saving(t) /\ t.op = "replace" /\ Cart!Begun(t) >= 2 => Cart!CartRow(t.cart) \in t.held
            <4>1. ASSUME Cart!Saving(t), Cart!Begun(t) >= 2 PROVE Cart!Ended(t) >= 1
                <5>1. CASE t.pc \in Cart!Statements
                    <6>1. Cart!Begun(t) \in {1, 2, 3} /\ Cart!Ended(t) = Cart!Begun(t) - 1
                        BY <1>1, <5>1, CartAtLock
                    <6> QED BY <4>1, <6>1
                <5>2. CASE t.pc = "save"
                    <6>1. Cart!Ended(t) = Cart!Begun(t) /\ Cart!Begun(t) \in 0..Len(Cart!PlanOf(t.op))
                        BY <1>1, <5>2, CartAtSave
                    <6> QED BY <4>1, <6>1
                <5> QED BY <4>1, <5>1, <5>2 DEF Cart!Saving
            <4> QED BY <2>2, <4>1 DEF Cart!LocksOK
        <3>6. ASSUME Cart!Saving(s)
              PROVE  /\ s.op = "replace" /\ Cart!Begun(s) >= 2
                           => Cart!Covered(s, Cart!Lines(saved))
                     /\ s.op = "replace" /\ Cart!Begun(s) = 3 => Cart!Covered(s, Cart!Lines(s.items))
                     /\ s.op = "clear" =>
                           /\ \A v \in Thing : Cart!ItemRow(s.cart, v) \in s.held
                                                 => v \in Cart!Lines(saved)
                           /\ Cart!Begun(s) = 3 /\ Cart!CartRow(s.cart) \in s.held
                                 => Cart!Covered(s, Cart!Lines(saved))
                           /\ Cart!Ended(s) >= 2 /\ Cart!CartRow(s.cart) \notin s.held =>
                                 s.pc = "save" /\ s.held = {} /\ Cart!NoItems \in s.seen
            BY <1>2, <2>1, <2>2, <2>4, <3>3, <3>4, <3>5, <3>6 DEF Cart!CoverOK
        <3> QED BY <3>0, <3>6, CartCoverNext
    <2> QED BY <2>3, <2>4
<1>8. Cart!RequestOK(s)'
    BY <1>5, <1>6, <1>7, CartSame DEF Cart!RequestOK
<1> QED BY <1>0, <1>8

\* A transaction commits.
LEMMA CartCommits ==
    ASSUME Cart!CartAssumption, Cart!CartInv, NEW q \in Request, Cart!Commit(q)
    PROVE  Cart!CartInv'
<1>1. PICK o : /\ o = cartReq[q] /\ Cart!RequestOK(o) /\ DOMAIN o = DOMAIN Cart!NoRequest
               /\ o.pc = "save" /\ o.plan = <<>>
    BY DEF Cart!CartInv, Cart!Commit, Cart!At
<1>2. PICK c, saved, old : c = o.cart /\ saved = Cart!Saved(q) /\ old = cartItems[o.cart]
    OBVIOUS
<1>3. PICK pc : pc = CASE o.op = "clear" -> "cleared"
                       [] o.op = "replace" -> "enrich"
                       [] OTHER -> "read"
    OBVIOUS
<1>4. PICK r : r = [Cart!NoRequest EXCEPT !.pc = pc, !.cart = c, !.answer = o.items, !.saved = TRUE,
                                          !.seen = o.seen \cup {saved}]
    OBVIOUS
<1>5. /\ cartItems' = [cartItems EXCEPT ![c] = saved]
      /\ cartRows' = CASE o.op \in {"replace", "upsert"} -> cartRows \cup {c}
                       [] o.op = "clear" /\ Cart!CartRow(c) \in o.held -> cartRows \ {c}
                       [] OTHER -> cartRows
      /\ cartReq' = [p \in Request |->
            IF p = q THEN r
            ELSE IF cartReq[p].cart = c THEN [cartReq[p] EXCEPT !.seen = @ \cup {saved}]
            ELSE cartReq[p]]
    BY <1>1, <1>2, <1>3, <1>4 DEF Cart!Commit
<1>6. /\ o.op \in Cart!Writes /\ c \in Customer /\ o.items \in Cart!Contents
      /\ saved \in Cart!Contents /\ old \in o.seen
      /\ o.op = "replace" => saved = o.items
      /\ o.op = "clear" /\ Cart!CartRow(c) \in o.held => saved = Cart!NoItems
      /\ o.op = "clear" /\ Cart!CartRow(c) \notin o.held =>
            Cart!NoItems \in o.seen /\ saved = old
    BY <1>1, <1>2, CartSaved
<1>7. o.op = "remove" /\ saved # Cart!NoItems => old # Cart!NoItems
    BY <1>1, <1>2, CartTaken
<1>8. Cart!TablesOK'
    <2>1. /\ cartRows \subseteq Customer /\ cartItems \in [Customer -> Cart!Contents]
          /\ \A d \in Customer : cartItems[d] # Cart!NoItems => d \in cartRows
        BY DEF Cart!CartInv, Cart!TablesOK
    <2>2. cartRows' \subseteq Customer /\ cartItems' \in [Customer -> Cart!Contents]
        BY <1>5, <1>6, <2>1 DEF Cart!Writes
    <2>3. ASSUME NEW d \in Customer, cartItems'[d] # Cart!NoItems
          PROVE  d \in cartRows'
        <3>1. CASE d # c
            <4>1. d \in cartRows BY <1>5, <1>6, <2>1, <2>3, <3>1
            <4> QED BY <1>5, <1>6, <3>1, <4>1 DEF Cart!Writes
        <3>2. CASE d = c
            <4>1. saved # Cart!NoItems BY <1>5, <1>6, <2>1, <2>3, <3>2
            <4>2. o.op \in {"replace", "upsert"} \/ old # Cart!NoItems
                BY <1>6, <1>7, <4>1 DEF Cart!Writes
            <4>3. o.op \in {"replace", "upsert"} \/ c \in cartRows
                BY <1>2, <1>6, <2>1, <4>2
            <4>4. ~(o.op = "clear" /\ Cart!CartRow(c) \in o.held) BY <1>6, <4>1
            <4> QED BY <1>5, <1>6, <3>2, <4>3, <4>4
        <3> QED BY <3>1, <3>2
    <2>4. Cart!Contents' = Cart!Contents /\ Cart!NoItems' = Cart!NoItems
        BY DEF Cart!Contents, Cart!NoItems
    <2> QED BY <2>2, <2>3, <2>4 DEF Cart!TablesOK
<1>9. /\ r.pc = pc /\ r.op = "none" /\ r.items = Cart!NoItems /\ r.cart = c
      /\ r.stock = Cart!NoItems /\ r.todo = {} /\ r.missing = {} /\ r.held = {} /\ r.route = <<>>
      /\ r.plan = <<>> /\ r.seen = o.seen \cup {saved} /\ r.saved = TRUE /\ r.answer = o.items
      /\ DOMAIN r = DOMAIN Cart!NoRequest
      /\ pc \in {"cleared", "enrich", "read"}
    BY <1>3, <1>4, <1>6, CartIdle DEF Cart!Writes
<1>10. Cart!RequestOK(r)'
    <2>1. /\ pc = "enrich" => o.op = "replace"
          /\ pc = "cleared" => o.op = "clear"
        BY <1>3
    <2>2. Cart!SeenOK(r)'
        <3>1. cartItems'[c] \in r.seen
            BY <1>5, <1>6, <1>9 DEF Cart!CartInv, Cart!TablesOK
        <3>2. pc = "enrich" => r.answer \in r.seen
            BY <1>6, <1>9, <2>1
        <3>3. pc = "cleared" => Cart!NoItems \in r.seen
            BY <1>6, <1>9, <2>1
        <3>4. Cart!NoItems' = Cart!NoItems BY DEF Cart!NoItems
        <3> QED BY <1>9, <3>1, <3>2, <3>3, <3>4 DEF Cart!SeenOK
    <2>3. ~Cart!Saving(r) BY <1>9 DEF Cart!Saving, Cart!Statements
    <2>4. Cart!CoverOK(r)' BY <2>3, CartCoverNext
    <2>5. /\ r.items \in Cart!Contents /\ r.stock \in Cart!Contents /\ r.todo \subseteq Thing
          /\ r.missing \subseteq Thing /\ r.pc \in {"read", "enrich", "cleared"}
          /\ r.op = "none" /\ r.held = {} /\ r.cart \in Customer
        BY <1>6, <1>9, CartNothing
    <2>6. Cart!StageOK(r) BY <2>5 DEF Cart!StageOK, Cart!Writes
    <2>7. Cart!RouteOK(r) BY <2>5 DEF Cart!RouteOK, Cart!Statements
    <2>8. Cart!LocksOK(r) BY <2>3, <2>5 DEF Cart!LocksOK
    <2>9. Cart!StockOK(r) BY <2>5 DEF Cart!StockOK
    <2> QED BY <2>2, <2>4, <2>6, <2>7, <2>8, <2>9, CartSame DEF Cart!RequestOK
<1>11. ASSUME NEW p \in Request, p # q
       PROVE  /\ Cart!RequestOK(cartReq[p])'
              /\ DOMAIN cartReq'[p] = DOMAIN Cart!NoRequest
              /\ cartReq'[p].held = cartReq[p].held
    <2>1. Cart!RequestOK(cartReq[p])'
        BY <1>11, CartOthers
    <2>2. cartReq'[p] = IF cartReq[p].cart = c THEN [cartReq[p] EXCEPT !.seen = @ \cup {saved}]
                        ELSE cartReq[p]
        BY <1>5, <1>11
    <2>3. DOMAIN cartReq[p] = DOMAIN Cart!NoRequest BY DEF Cart!CartInv
    <2>4. DOMAIN cartReq'[p] = DOMAIN cartReq[p] /\ cartReq'[p].held = cartReq[p].held
        BY <2>2, <2>3, CartIdle
    <2> QED BY <2>1, <2>3, <2>4
<1>12. cartReq'[q] = r /\ cartReq' = [p \in Request |-> cartReq'[p]]
    BY <1>5
<1>13. Cart!Exclusive'
    <2>1. r.held = {} BY <1>9
    <2>2. \A p \in Request : cartReq'[p].held \subseteq cartReq[p].held
        BY <1>11, <1>12, <2>1
    <2> QED BY <2>2 DEF Cart!CartInv, Cart!Exclusive
<1>14. DOMAIN Cart!NoRequest' = DOMAIN Cart!NoRequest
    BY DEF Cart!NoRequest, Cart!NoItems
<1>15. ASSUME NEW p \in Request
       PROVE  (DOMAIN cartReq[p] = DOMAIN Cart!NoRequest /\ Cart!RequestOK(cartReq[p]))'
    <2>1. CASE p = q BY <1>9, <1>10, <1>12, <1>14, <2>1
    <2>2. CASE p # q BY <1>11, <1>14, <2>2
    <2> QED BY <2>1, <2>2
<1> QED BY <1>8, <1>12, <1>13, <1>15 DEF Cart!CartInv

\* A request reads the cart again, prices its lines, and is answered.
LEMMA CartReads ==
    ASSUME Cart!CartAssumption, Cart!CartInv, NEW q \in Request,
           Cart!GetItems(q) \/ Cart!enrichCart(q) \/ Cart!Answer(q)
    PROVE  Cart!CartInv'
<1>1. PICK o : /\ o = cartReq[q] /\ Cart!RequestOK(o) /\ DOMAIN o = DOMAIN Cart!NoRequest
               /\ o.pc \in {"read", "lines", "enrich", "cleared", "answered"}
    BY DEF Cart!CartInv, Cart!GetItems, Cart!enrichCart, Cart!Answer, Cart!At
<1>2. /\ UNCHANGED <<cartRows, cartItems>>
      /\ \A c \in Customer : c \in cartRows \/ cartItems[c] = Cart!NoItems
    BY DEF Cart!GetItems, Cart!enrichCart, Cart!Answer, Cart!tables, Cart!CartInv, Cart!TablesOK
<1>3. /\ o.op \in {"none", "get"} /\ o.held = {} /\ o.items \in Cart!Contents
      /\ o.stock \in Cart!Contents /\ o.todo \subseteq Thing /\ o.missing \subseteq Thing
      /\ o.pc # "answered" => o.cart \in Customer
    <2>1. ~Cart!Saving(o) /\ o.pc \notin {"resolve", "check", "idle"}
        BY <1>1 DEF Cart!Saving, Cart!Statements
    <2>2. Cart!StageOK(o) /\ Cart!LocksOK(o) BY <1>1 DEF Cart!RequestOK
    <2>3. o.op \notin Cart!Writes BY <2>1, <2>2 DEF Cart!StageOK
    <2> QED BY <2>1, <2>2, <2>3 DEF Cart!StageOK, Cart!LocksOK
<1>4. Cart!SeenOK(o) BY <1>1 DEF Cart!RequestOK
<1>5. ASSUME NEW r, DOMAIN r = DOMAIN Cart!NoRequest, cartReq' = [cartReq EXCEPT ![q] = r],
             r.op = o.op, r.held = o.held, r.items = o.items, r.stock = o.stock, r.todo = o.todo,
             r.missing = o.missing,
             \/ r.pc \in {"lines", "enrich"} /\ r.cart \in Customer
             \/ r.pc = "answered",
             Cart!SeenOK(r)
      PROVE  Cart!CartInv'
    <2>1. /\ r.op \in {"none", "get"} /\ r.held = {} /\ r.items \in Cart!Contents
          /\ r.stock \in Cart!Contents /\ r.todo \subseteq Thing /\ r.missing \subseteq Thing
          /\ r.pc \in {"idle", "read", "lines", "enrich", "cleared", "answered"}
          /\ r.pc \notin {"idle", "answered"} => r.cart \in Customer
          /\ Cart!SeenOK(r)
        BY <1>3, <1>5
    <2>2. Cart!RequestOK(r) BY <2>1, CartReader
    <2>3. \A p \in Request : p # q => r.held \cap cartReq[p].held = {} BY <2>1
    <2> QED BY <1>2, <1>5, <2>2, <2>3, CartOnly
<1>6. ASSUME Cart!At(q, "read"),
             cartReq' = [cartReq EXCEPT ![q].pc = IF o.cart \in cartRows THEN "lines" ELSE "enrich",
                                        ![q].answer = Cart!NoItems]
      PROVE  Cart!CartInv'
    <2>1. PICK pc : pc = IF o.cart \in cartRows THEN "lines" ELSE "enrich" OBVIOUS
    <2>2. PICK r : /\ r = [o EXCEPT !.pc = pc, !.answer = Cart!NoItems]
                   /\ cartReq' = [cartReq EXCEPT ![q] = r]
        BY <1>1, <1>6, <2>1 DEF Cart!CartInv
    <2>3. /\ DOMAIN r = DOMAIN Cart!NoRequest /\ r.pc = pc /\ r.answer = Cart!NoItems
          /\ r.op = o.op /\ r.held = o.held /\ r.items = o.items /\ r.stock = o.stock
          /\ r.todo = o.todo /\ r.missing = o.missing /\ r.cart = o.cart /\ r.seen = o.seen
          /\ r.saved = o.saved
        BY <1>1, <2>2, CartIdle
    <2>4. o.pc = "read" BY <1>1, <1>6 DEF Cart!At
    <2>5. /\ o.cart \in Customer /\ cartItems[o.cart] \in o.seen
          /\ pc \in {"lines", "enrich"} /\ (pc = "enrich" => Cart!NoItems \in o.seen)
        BY <1>2, <1>3, <1>4, <2>1, <2>4 DEF Cart!SeenOK
    <2>6. Cart!SeenOK(r) BY <1>4, <2>3, <2>4, <2>5 DEF Cart!SeenOK
    <2> QED BY <1>5, <2>2, <2>3, <2>5, <2>6
<1>7. ASSUME Cart!At(q, "lines"),
             cartReq' = [cartReq EXCEPT ![q].pc = "enrich", ![q].answer = cartItems[o.cart]]
      PROVE  Cart!CartInv'
    <2>1. PICK answer : answer = cartItems[o.cart] OBVIOUS
    <2>2. PICK r : /\ r = [o EXCEPT !.pc = "enrich", !.answer = answer]
                   /\ cartReq' = [cartReq EXCEPT ![q] = r]
        BY <1>1, <1>7, <2>1 DEF Cart!CartInv
    <2>3. /\ DOMAIN r = DOMAIN Cart!NoRequest /\ r.pc = "enrich" /\ r.answer = answer
          /\ r.op = o.op /\ r.held = o.held /\ r.items = o.items /\ r.stock = o.stock
          /\ r.todo = o.todo /\ r.missing = o.missing /\ r.cart = o.cart /\ r.seen = o.seen
          /\ r.saved = o.saved
        BY <1>1, <2>2, CartIdle
    <2>4. o.pc = "lines" BY <1>1, <1>7 DEF Cart!At
    <2>5. o.cart \in Customer /\ answer \in o.seen
        BY <1>3, <1>4, <2>1, <2>4 DEF Cart!SeenOK
    <2>6. Cart!SeenOK(r) BY <1>4, <2>1, <2>3, <2>4, <2>5 DEF Cart!SeenOK
    <2> QED BY <1>5, <2>2, <2>3, <2>5, <2>6
<1>8. ASSUME Cart!At(q, "enrich"),
             cartReq' = [cartReq EXCEPT ![q].pc = "answered", ![q].status = Cart!StatusOf("ok"),
                                        ![q].cart = "none"]
      PROVE  Cart!CartInv'
    <2>1. PICK r : /\ r = [o EXCEPT !.pc = "answered", !.status = Cart!StatusOf("ok"), !.cart = "none"]
                   /\ cartReq' = [cartReq EXCEPT ![q] = r]
        BY <1>1, <1>8 DEF Cart!CartInv
    <2>2. /\ DOMAIN r = DOMAIN Cart!NoRequest /\ r.pc = "answered" /\ r.answer = o.answer
          /\ r.op = o.op /\ r.held = o.held /\ r.items = o.items /\ r.stock = o.stock
          /\ r.todo = o.todo /\ r.missing = o.missing /\ r.seen = o.seen /\ r.saved = o.saved
          /\ r.status = Cart!StatusOf("ok")
        BY <1>1, <2>1, CartIdle
    <2>3. o.pc = "enrich" BY <1>1, <1>8 DEF Cart!At
    <2>4. Cart!SeenOK(r) BY <1>4, <2>2, <2>3 DEF Cart!SeenOK
    <2> QED BY <1>5, <2>1, <2>2, <2>4
<1>9. ASSUME Cart!At(q, "cleared"),
             cartReq' = [cartReq EXCEPT ![q].pc = "answered", ![q].status = Cart!StatusOf("ok"),
                                        ![q].answer = Cart!NoItems, ![q].cart = "none"]
      PROVE  Cart!CartInv'
    <2>1. PICK r : /\ r = [o EXCEPT !.pc = "answered", !.status = Cart!StatusOf("ok"),
                                    !.answer = Cart!NoItems, !.cart = "none"]
                   /\ cartReq' = [cartReq EXCEPT ![q] = r]
        BY <1>1, <1>9 DEF Cart!CartInv
    <2>2. /\ DOMAIN r = DOMAIN Cart!NoRequest /\ r.pc = "answered" /\ r.answer = Cart!NoItems
          /\ r.op = o.op /\ r.held = o.held /\ r.items = o.items /\ r.stock = o.stock
          /\ r.todo = o.todo /\ r.missing = o.missing /\ r.seen = o.seen /\ r.saved = o.saved
          /\ r.status = Cart!StatusOf("ok")
        BY <1>1, <2>1, CartIdle
    <2>3. o.pc = "cleared" BY <1>1, <1>9 DEF Cart!At
    <2>4. Cart!SeenOK(r) BY <1>4, <2>2, <2>3 DEF Cart!SeenOK
    <2> QED BY <1>5, <2>1, <2>2, <2>4
<1>10. ASSUME cartReq' = [cartReq EXCEPT ![q] = Cart!NoRequest] PROVE Cart!CartInv'
    <2>1. PICK r : r = Cart!NoRequest OBVIOUS
    <2>2. /\ r.op \in {"none", "get"} /\ r.held = {} /\ r.items \in Cart!Contents
          /\ r.stock \in Cart!Contents /\ r.todo \subseteq Thing /\ r.missing \subseteq Thing
          /\ r.pc = "idle" /\ r.saved = FALSE /\ DOMAIN r = DOMAIN Cart!NoRequest
        BY <2>1, CartIdle, CartNothing
    <2>3. Cart!SeenOK(r) BY <2>2 DEF Cart!SeenOK
    <2>4. Cart!RequestOK(r) BY <2>2, <2>3, CartReader
    <2> QED BY <1>2, <1>10, <2>1, <2>2, <2>4, CartOnly
<1>11. ASSUME Cart!Fail(q, "internal") PROVE Cart!CartInv'
    BY <1>2, <1>11, CartFails
<1> QED
    <2>1. CASE Cart!GetItems(q) BY <1>1, <1>6, <1>7, <1>11, <2>1 DEF Cart!GetItems
    <2>2. CASE Cart!enrichCart(q) BY <1>8, <2>2 DEF Cart!enrichCart
    <2>3. CASE Cart!Answer(q) BY <1>9, <1>10, <2>3 DEF Cart!Answer
    <2> QED BY <2>1, <2>2, <2>3

LEMMA CartRollback ==
    ASSUME Cart!CartAssumption, Cart!CartInv, NEW q \in Request, Cart!Rollback(q)
    PROVE  Cart!CartInv'
BY CartFails DEF Cart!Rollback, Cart!tables

LEMMA CartInit == Cart!CartAssumption /\ Cart!Init => Cart!CartInv
<1> SUFFICES ASSUME Cart!CartAssumption, Cart!Init PROVE Cart!CartInv
    OBVIOUS
<1>1. cartRows = {} /\ cartItems = [c \in Customer |-> Cart!NoItems]
      /\ cartReq = [q \in Request |-> Cart!NoRequest]
    BY DEF Cart!Init
<1>2. Cart!TablesOK BY <1>1, CartNothing DEF Cart!TablesOK
<1>3. PICK r : r = Cart!NoRequest OBVIOUS
<1>4. /\ r.op \in {"none", "get"} /\ r.held = {} /\ r.items \in Cart!Contents
      /\ r.stock \in Cart!Contents /\ r.todo \subseteq Thing /\ r.missing \subseteq Thing
      /\ r.pc = "idle" /\ r.saved = FALSE
    BY <1>3, CartIdle, CartNothing
<1>5. Cart!SeenOK(r) BY <1>4 DEF Cart!SeenOK
<1>6. Cart!RequestOK(r) BY <1>4, <1>5, CartReader
<1>7. \A q \in Request : cartReq[q] = r BY <1>1, <1>3
<1>8. Cart!Exclusive BY <1>4, <1>7 DEF Cart!Exclusive
<1>9. cartReq = [q \in Request |-> cartReq[q]] BY <1>1
<1> QED BY <1>2, <1>3, <1>6, <1>7, <1>8, <1>9 DEF Cart!CartInv

LEMMA CartStep == Cart!CartAssumption /\ Cart!CartInv /\ Cart!Next => Cart!CartInv'
<1> SUFFICES ASSUME Cart!CartAssumption, Cart!CartInv, Cart!Next PROVE Cart!CartInv'
    OBVIOUS
<1>1. PICK q \in Request :
        \/ \E c \in Customer : Cart!cart(q, c) \/ Cart!cartItemsRoute(q, c) \/ Cart!cartItem(q, c)
        \/ \E caller \in Customer \cup Staff, c \in Customer : Cart!adminCart(q, caller, c)
        \/ Cart!Handle(q) \/ Cart!Rollback(q)
    BY DEF Cart!Next
<1>2. CASE Cart!Handle(q)
    BY <1>2, CartLookedAt, CartBegins, CartLocks, CartCommits, CartReads DEF Cart!Handle
<1>3. CASE Cart!Rollback(q)
    BY <1>3, CartRollback
<1> QED BY <1>1, <1>2, <1>3, CartCalled

LEMMA CartStutter == Cart!CartInv /\ UNCHANGED cartVars => Cart!CartInv'
<1> SUFFICES ASSUME Cart!CartInv, UNCHANGED <<cartRows, cartItems, cartReq>> PROVE Cart!CartInv'
    BY DEF cartVars
<1>1. Cart!TablesOK' BY DEF Cart!CartInv, Cart!TablesOK, Cart!Contents, Cart!NoItems
<1>2. Cart!Exclusive' BY DEF Cart!CartInv, Cart!Exclusive
<1>3. ASSUME NEW q \in Request
      PROVE  (DOMAIN cartReq[q] = DOMAIN Cart!NoRequest /\ Cart!RequestOK(cartReq[q]))'
    <2>1. PICK r : r = cartReq[q] OBVIOUS
    <2>2. Cart!RequestOK(r)' BY <2>1, CartKept DEF Cart!CartInv
    <2>3. DOMAIN Cart!NoRequest' = DOMAIN Cart!NoRequest BY DEF Cart!NoRequest, Cart!NoItems
    <2> QED BY <2>1, <2>2, <2>3 DEF Cart!CartInv
<1> QED BY <1>1, <1>2, <1>3 DEF Cart!CartInv

LEMMA CartAlways == Spec => [](which = "cart" => Cart!CartInv)
<1> DEFINE Inv == which = "cart" => Cart!CartInv
<1>1. Init => Inv
    BY Assumptions, CartInit DEF Init
<1>2. Inv /\ [Next]_vars => Inv'
    <2> SUFFICES ASSUME Inv, [Next]_vars, which' = "cart" PROVE Cart!CartInv'
        OBVIOUS
    <2>1. which = "cart" /\ (Cart!Next \/ UNCHANGED cartVars)
        BY DEF Next, vars
    <2> QED BY <2>1, Assumptions, CartStep, CartStutter
<1> QED BY <1>1, <1>2, PTL DEF Spec

\* Whoever waits and holds a row, but for Clear, holds the row of its cart.
LEMMA CartWaiter ==
    ASSUME NEW o, Cart!RequestOK(o), o.pc \in Cart!Statements, o.op # "clear", o.held # {}
    PROVE  Cart!CartRow(o.cart) \in o.held
<1>1. Cart!Begun(o) \in {1, 2, 3} /\ Cart!Ended(o) = Cart!Begun(o) - 1 /\ o.op \in Cart!Writes
      /\ Cart!Saving(o) /\ Cart!Begun(o) \in 1..Len(Cart!PlanOf(o.op))
    BY CartAtLock
<1>2. Cart!LocksOK(o) BY DEF Cart!RequestOK
<1>3. Cart!Ended(o) # 0 BY <1>1, <1>2 DEF Cart!LocksOK
<1>4. Cart!Ended(o) >= 1 BY <1>1, <1>3
<1>5. CASE o.op \in {"replace", "upsert"}
    BY <1>1, <1>2, <1>4, <1>5 DEF Cart!LocksOK
<1>6. CASE o.op = "remove"
    <2>1. Len(Cart!PlanOf(o.op)) = 2 BY <1>6, CartPlans
    <2>2. PICK n, m : n = Cart!Begun(o) /\ m = Cart!Ended(o) OBVIOUS
    <2>3. n \in 1..2 /\ m = n - 1 /\ m >= 1 BY <1>1, <1>4, <2>1, <2>2
    <2>4. m = 1
        <3> HIDE <2>2
        <3> QED BY <2>3
    <2>5. o.held \subseteq {Cart!CartRow(o.cart)}
        BY <1>1, <1>2, <1>6, <2>2, <2>4 DEF Cart!LocksOK
    <2> QED BY <2>5
<1> QED BY <1>1, <1>5, <1>6 DEF Cart!Writes

LEMMA CartDeadlocks == Cart!CartInv => Cart!OnlyClearDeadlocks
<1> SUFFICES ASSUME Cart!CartInv, NEW R \in SUBSET Request, Cart!Stuck(R),
                    \A q \in R : cartReq[q].op # "clear"
             PROVE  FALSE
    BY DEF Cart!OnlyClearDeadlocks
<1>1. R # {} /\ \A q \in R : \E p \in R : Cart!WaitsFor(q, p)
    BY DEF Cart!Stuck
<1>2. ASSUME NEW q \in R, NEW p \in R, Cart!WaitsFor(q, p)
      PROVE  /\ p # q /\ cartReq[q].pc \in Cart!Statements
             /\ Head(cartReq[q].route) \in Cart!OwnRows(cartReq[q].cart)
             /\ Head(cartReq[q].route) \in cartReq[p].held
    <2>1. p # q /\ cartReq[q].pc \in Cart!Statements /\ Head(cartReq[q].route) \in cartReq[p].held
        BY <1>2 DEF Cart!WaitsFor, Cart!Locking, Cart!Holder
    <2>2. PICK o : o = cartReq[q] OBVIOUS
    <2>3. Cart!RequestOK(o) BY <2>2 DEF Cart!CartInv
    <2>4. o.route # <<>> /\ o.route \in Seq(Cart!OwnRows(o.cart)) BY <2>1, <2>2, <2>3, CartAtLock
    <2>5. Head(o.route) \in Cart!OwnRows(o.cart) BY <2>4, CartHead
    <2> QED BY <2>1, <2>2, <2>5
<1>3. PICK q0 \in R, q \in R, p \in R : Cart!WaitsFor(q0, q) /\ Cart!WaitsFor(q, p)
    BY <1>1
<1>4. PICK p2 \in R : Cart!WaitsFor(p, p2)
    BY <1>1
<1>5. PICK o, t : o = cartReq[q] /\ t = cartReq[p]
    OBVIOUS
<1>6. /\ Cart!RequestOK(o) /\ o.pc \in Cart!Statements /\ o.op # "clear" /\ o.held # {}
      /\ Cart!RequestOK(t) /\ t.pc \in Cart!Statements /\ t.op # "clear" /\ t.held # {}
      /\ Head(o.route) \in Cart!OwnRows(o.cart) /\ Head(o.route) \in t.held
      /\ p # q /\ o.held \cap t.held = {}
    <2>1. Head(cartReq[q0].route) \in o.held BY <1>2, <1>3, <1>5
    <2>2. Head(o.route) \in Cart!OwnRows(o.cart) /\ Head(o.route) \in t.held
          /\ p # q /\ o.pc \in Cart!Statements
        BY <1>2, <1>3, <1>5
    <2>3. t.pc \in Cart!Statements BY <1>2, <1>4, <1>5
    <2>4. Cart!RequestOK(o) /\ Cart!RequestOK(t) /\ o.held \cap t.held = {}
        BY <1>5, <2>2 DEF Cart!CartInv, Cart!Exclusive
    <2> QED BY <1>5, <2>1, <2>2, <2>3, <2>4
<1>7. Cart!CartRow(o.cart) \in o.held BY <1>6, CartWaiter
<1>8. Cart!CartRow(t.cart) \in t.held BY <1>6, CartWaiter
<1>9. t.held \subseteq Cart!OwnRows(t.cart)
    <2>1. Cart!Saving(t) BY <1>6, CartAtLock
    <2> QED BY <1>6, <2>1 DEF Cart!RequestOK, Cart!LocksOK
<1>10. t.cart = o.cart
    <2>1. Head(o.route) \in Cart!OwnRows(o.cart) /\ Head(o.route) \in Cart!OwnRows(t.cart)
        BY <1>6, <1>9
    <2> QED BY <2>1, CartNames DEF Cart!OwnRows, Cart!ItemRows
<1> QED BY <1>6, <1>7, <1>8, <1>10

LEMMA CartAnswers == Cart!CartInv =>
    Cart!AnswerWasTheCart /\ Cart!RefusedMeansUnchanged /\ Cart!SavedLinesWereInStock
<1> SUFFICES ASSUME Cart!CartInv
             PROVE  Cart!AnswerWasTheCart /\ Cart!RefusedMeansUnchanged /\ Cart!SavedLinesWereInStock
    OBVIOUS
<1>1. \A q \in Request : Cart!SeenOK(cartReq[q]) /\ Cart!StockOK(cartReq[q])
    BY DEF Cart!CartInv, Cart!RequestOK
<1>2. Cart!AnswerWasTheCart
    BY <1>1 DEF Cart!AnswerWasTheCart, Cart!At, Cart!SeenOK
<1>3. Cart!RefusedMeansUnchanged
    <2> SUFFICES ASSUME NEW q \in Request, cartReq[q].pc = "answered", cartReq[q].saved,
                        cartReq[q].status \in 400..499
                 PROVE  FALSE
        BY DEF Cart!RefusedMeansUnchanged, Cart!At
    <2>1. cartReq[q].status \in {200, 500}
        BY <1>1, CartStatus DEF Cart!SeenOK
    <2> QED BY <2>1
<1>4. Cart!SavedLinesWereInStock
    BY <1>1 DEF Cart!SavedLinesWereInStock, Cart!At, Cart!StockOK
<1> QED BY <1>2, <1>3, <1>4

\* CartAnswersAreTrue: for any number of requests on any carts and lines, the cart in an
\* answer was stored while the request ran, an error that blames the caller saved nothing,
\* every saved line was in stock when it was checked, and transactions wait in a circle
\* only where a cart is cleared (cart/pkg/service/service.go, cart/pkg/handler/http.go,
\* cart/pkg/infra/pg/repository.go).
THEOREM CartAnswersAreTrueHolds == Spec => []CartAnswersAreTrue
<1>1. (which = "cart" => Cart!CartInv) => CartAnswersAreTrue
    BY CartAnswers, CartDeadlocks DEF CartAnswersAreTrue
<1> QED BY <1>1, CartAlways, PTL

\* A step of one request that leaves the tables alone, as the promise sees it.
LEMMA StoreCall ==
    ASSUME which = "cart", which' = "cart", Cart!CartInv, NEW q \in Request, NEW r,
           cartReq' = [cartReq EXCEPT ![q] = r], cartItems' = cartItems,
           \/ r.op = cartReq[q].op /\ r.cart = cartReq[q].cart /\ r.items = cartReq[q].items
           \/ r.op \notin Cart!Writes
           \/ /\ cartReq[q].op \notin Cart!Writes
              /\ r.op \in Cart!Writes /\ r.cart \in Customer /\ r.items \in Cart!Contents
    PROVE  [Store!StoreNext]_Store!storeVars
<1> DEFINE call == [p \in Request |-> IF which = "cart" THEN Cart!CallOf(p) ELSE NoCall]
           carts == IF which = "cart" THEN cartItems ELSE [customer \in Customer |-> Cart!NoItems]
<1>1. carts' = carts BY DEF Cart!NoItems
<1>2. cartReq'[q] = r /\ \A p \in Request : p # q => cartReq'[p] = cartReq[p]
    BY DEF Cart!CartInv
<1>3. NoCall = [op |-> "none", cart |-> "none", items |-> Cart!NoItems] /\ NoCall = Store!NoCall
    BY DEF NoCall, Store!NoCall, Store!NoItems, Cart!NoItems
<1>4. \A p \in Request : Cart!CallOf(p) =
          IF cartReq[p].op \in Cart!Writes
            THEN [op |-> cartReq[p].op, cart |-> cartReq[p].cart, items |-> cartReq[p].items]
            ELSE NoCall
    BY <1>3 DEF Cart!CallOf, Cart!Writes
<1>5. \A p \in Request : Cart!CallOf(p)' =
          IF cartReq'[p].op \in Cart!Writes
            THEN [op |-> cartReq'[p].op, cart |-> cartReq'[p].cart, items |-> cartReq'[p].items]
            ELSE NoCall
    BY <1>3 DEF Cart!CallOf, Cart!Writes, Cart!NoItems
<1>6. /\ call = [p \in Request |-> Cart!CallOf(p)]
      /\ call' = [p \in Request |-> Cart!CallOf(p)']
    OBVIOUS
<1>7. \A p \in Request : p # q => Cart!CallOf(p)' = Cart!CallOf(p)
    BY <1>2, <1>4, <1>5
<1>8. CASE Cart!CallOf(q)' = Cart!CallOf(q)
    <2>1. call' = call BY <1>6, <1>7, <1>8
    <2> QED BY <1>1, <2>1 DEF Store!storeVars
<1>9. CASE Cart!CallOf(q)' = NoCall
    <2>1. call' = [call EXCEPT ![q] = NoCall] BY <1>6, <1>7, <1>9
    <2>2. Store!Fail(q) BY <1>1, <1>3, <2>1 DEF Store!Fail
    <2> QED BY <2>2 DEF Store!StoreNext
<1>10. CASE /\ cartReq[q].op \notin Cart!Writes
            /\ r.op \in Cart!Writes /\ r.cart \in Customer /\ r.items \in Cart!Contents
    <2>1. PICK new : new = [op |-> r.op, cart |-> r.cart, items |-> r.items] OBVIOUS
    <2>2. Cart!CallOf(q)' = new /\ Cart!CallOf(q) = NoCall BY <1>2, <1>4, <1>5, <1>10, <2>1
    <2>3. call' = [call EXCEPT ![q] = new] /\ call[q] = NoCall BY <1>6, <1>7, <2>2
    <2>4. new \in Store!Call
        BY <1>10, <2>1 DEF Store!Call, Store!Contents, Cart!Contents, Cart!Writes
    <2>5. Store!Begin(q) BY <1>1, <1>3, <2>3, <2>4 DEF Store!Begin
    <2> QED BY <2>5 DEF Store!StoreNext
<1> QED BY <1>2, <1>4, <1>5, <1>8, <1>9, <1>10

\* The call ends, and took effect at this instant or not at all.
LEMMA StoreCommit ==
    ASSUME which = "cart", which' = "cart", Cart!CartAssumption, Cart!CartInv,
           NEW q \in Request, Cart!Commit(q)
    PROVE  [Store!StoreNext]_Store!storeVars
<1> DEFINE call == [p \in Request |-> IF which = "cart" THEN Cart!CallOf(p) ELSE NoCall]
           carts == IF which = "cart" THEN cartItems ELSE [customer \in Customer |-> Cart!NoItems]
<1>1. PICK o, c, saved, old :
        /\ o = cartReq[q] /\ c = o.cart /\ saved = Cart!Saved(q) /\ old = cartItems[o.cart]
        /\ o.pc = "save" /\ o.plan = <<>>
        /\ cartItems' = [cartItems EXCEPT ![c] = saved]
    BY DEF Cart!Commit, Cart!At
<1>2. /\ cartReq'[q].op = "none"
      /\ \A p \in Request : p # q =>
            /\ cartReq'[p].op = cartReq[p].op /\ cartReq'[p].cart = cartReq[p].cart
            /\ cartReq'[p].items = cartReq[p].items
    <2>1. ASSUME NEW p \in Request, p # q
          PROVE  /\ cartReq'[p].op = cartReq[p].op /\ cartReq'[p].cart = cartReq[p].cart
                 /\ cartReq'[p].items = cartReq[p].items
        <3>1. DOMAIN cartReq[p] = DOMAIN Cart!NoRequest BY DEF Cart!CartInv
        <3>2. cartReq'[p] = IF cartReq[p].cart = c
                              THEN [cartReq[p] EXCEPT !.seen = @ \cup {saved}] ELSE cartReq[p]
            BY <1>1, <2>1 DEF Cart!Commit
        <3> QED BY <3>1, <3>2, CartIdle
    <2>2. cartReq'[q].op = "none"
        BY CartIdle DEF Cart!Commit
    <2> QED BY <2>1, <2>2
<1>3. NoCall = [op |-> "none", cart |-> "none", items |-> Cart!NoItems] /\ NoCall = Store!NoCall
      /\ Store!NoItems = Cart!NoItems
    BY DEF NoCall, Store!NoCall, Store!NoItems, Cart!NoItems
<1>4. /\ \A p \in Request : Cart!CallOf(p) =
            IF cartReq[p].op \in Cart!Writes
              THEN [op |-> cartReq[p].op, cart |-> cartReq[p].cart, items |-> cartReq[p].items]
              ELSE NoCall
      /\ \A p \in Request : Cart!CallOf(p)' =
            IF cartReq'[p].op \in Cart!Writes
              THEN [op |-> cartReq'[p].op, cart |-> cartReq'[p].cart, items |-> cartReq'[p].items]
              ELSE NoCall
    BY <1>3 DEF Cart!CallOf, Cart!Writes, Cart!NoItems
<1>5. /\ o.op \in Cart!Writes /\ c \in Customer /\ o.items \in Cart!Contents
      /\ old \in Cart!Contents /\ saved \in Cart!Contents
      /\ o.op = "replace" => saved = o.items
      /\ o.op = "upsert" =>
            saved = [v \in Thing |-> IF o.items[v] > 0 THEN o.items[v] ELSE old[v]]
      /\ o.op = "remove" =>
            /\ \A v, w \in Cart!Lines(o.items) : v = w
            /\ Cart!Held(q) \subseteq Cart!Lines(o.items)
            /\ saved = [v \in Thing |-> IF v \in Cart!Held(q) THEN 0 ELSE old[v]]
      /\ o.op = "clear" => saved = Cart!NoItems \/ saved = old
    <2>1. /\ o.op \in Cart!Writes /\ o.cart \in Customer /\ o.items \in Cart!Contents
          /\ old \in Cart!Contents /\ Cart!Saved(q) \in Cart!Contents
          /\ o.op = "replace" => Cart!Saved(q) = o.items
          /\ o.op = "upsert" =>
                Cart!Saved(q) = [v \in Thing |-> IF o.items[v] > 0 THEN o.items[v] ELSE old[v]]
          /\ o.op = "remove" =>
                /\ \A v, w \in Cart!Lines(o.items) : v = w
                /\ Cart!Held(q) \subseteq Cart!Lines(o.items)
                /\ Cart!Saved(q) = [v \in Thing |-> IF v \in Cart!Held(q) THEN 0 ELSE old[v]]
          /\ o.op = "clear" /\ Cart!CartRow(o.cart) \in o.held => Cart!Saved(q) = Cart!NoItems
          /\ o.op = "clear" /\ Cart!CartRow(o.cart) \notin o.held => Cart!Saved(q) = old
        BY <1>1, CartSaved
    <2> QED BY <1>1, <2>1
<1>6. /\ call = [p \in Request |-> Cart!CallOf(p)]
      /\ call' = [p \in Request |-> Cart!CallOf(p)']
      /\ carts = cartItems /\ carts' = cartItems'
    OBVIOUS
<1>7. Cart!CallOf(q) = [op |-> o.op, cart |-> c, items |-> o.items]
    BY <1>1, <1>4, <1>5
<1>8. call' = [call EXCEPT ![q] = Store!NoCall]
    <2>1. \A p \in Request : p # q => Cart!CallOf(p)' = Cart!CallOf(p) BY <1>2, <1>4
    <2>2. Cart!CallOf(q)' = NoCall BY <1>2, <1>4 DEF Cart!Writes
    <2> QED BY <1>3, <1>6, <2>1, <2>2
<1>9. call[q].op = o.op /\ call[q].cart = c /\ call[q].items = o.items
    BY <1>6, <1>7
<1>10. cartItems \in [Customer -> Cart!Contents] BY DEF Cart!CartInv, Cart!TablesOK
<1>11. CASE saved = old
    <2>1. carts' = carts BY <1>1, <1>5, <1>6, <1>10, <1>11
    <2>2. Store!Fail(q) BY <1>8, <2>1 DEF Store!Fail
    <2> QED BY <2>2 DEF Store!StoreNext
<1>12. carts' = [carts EXCEPT ![c] = saved] BY <1>1, <1>6
<1>13. CASE o.op = "replace"
    <2>1. Store!Finish(q)
        BY <1>5, <1>8, <1>9, <1>12, <1>13 DEF Store!Finish, Store!ReplaceItems
    <2> QED BY <2>1 DEF Store!StoreNext
<1>14. CASE o.op = "upsert"
    <2>1. carts' = [carts EXCEPT ![c] =
              [v \in Thing |-> IF o.items[v] > 0 THEN o.items[v] ELSE carts[c][v]]]
        <3>1. saved = [v \in Thing |-> IF o.items[v] > 0 THEN o.items[v] ELSE old[v]]
            BY <1>5, <1>14
        <3> QED BY <1>1, <1>6, <1>12, <3>1
    <2>2. Store!Finish(q)
        BY <1>8, <1>9, <1>14, <2>1 DEF Store!Finish, Store!UpsertItem
    <2> QED BY <2>2 DEF Store!StoreNext
<1>15. CASE o.op = "remove" /\ saved # old
    <2>1. Cart!Held(q) # {}
        BY <1>5, <1>15 DEF Cart!Contents
    <2>2. \A v \in Thing : v \in Cart!Held(q) <=> o.items[v] > 0
        BY <1>5, <1>15, <2>1 DEF Cart!Lines
    <2>3. carts' = [carts EXCEPT ![c] =
              [v \in Thing |-> IF o.items[v] > 0 THEN 0 ELSE carts[c][v]]]
        <3>1. saved = [v \in Thing |-> IF o.items[v] > 0 THEN 0 ELSE old[v]]
            BY <1>5, <1>15, <2>2
        <3> QED BY <1>1, <1>6, <1>12, <3>1
    <2>4. Store!Finish(q)
        BY <1>8, <1>9, <1>15, <2>3 DEF Store!Finish, Store!RemoveItem
    <2> QED BY <2>4 DEF Store!StoreNext
<1>16. CASE o.op = "clear" /\ saved # old
    <2>1. Store!Finish(q)
        BY <1>3, <1>5, <1>8, <1>9, <1>12, <1>16 DEF Store!Finish, Store!Clear
    <2> QED BY <2>1 DEF Store!StoreNext
<1> QED BY <1>5, <1>11, <1>13, <1>14, <1>15, <1>16 DEF Cart!Writes

\* Each step of a cart is a step of the promise, or none.
LEMMA StoreStep ==
    ASSUME which = "cart", which' = "cart", Cart!CartAssumption, Cart!CartInv, Cart!Next
    PROVE  [Store!StoreNext]_Store!storeVars
<1>0. PICK q \in Request :
        \/ \E c \in Customer : Cart!cart(q, c) \/ Cart!cartItemsRoute(q, c) \/ Cart!cartItem(q, c)
        \/ \E caller \in Customer \cup Staff, c \in Customer : Cart!adminCart(q, caller, c)
        \/ Cart!Handle(q) \/ Cart!Rollback(q)
    BY DEF Cart!Next
<1>1. PICK o : /\ o = cartReq[q] /\ Cart!StageOK(o) /\ DOMAIN o = DOMAIN Cart!NoRequest
    BY DEF Cart!CartInv, Cart!RequestOK
<1>2. o.pc \in {"idle", "read", "lines", "enrich", "cleared", "answered"} => o.op \notin Cart!Writes
    BY <1>1 DEF Cart!StageOK, Cart!Saving, Cart!Statements
<1>3. ASSUME NEW r, cartReq' = [cartReq EXCEPT ![q] = r], UNCHANGED Cart!tables,
             \/ r.op = o.op /\ r.cart = o.cart /\ r.items = o.items
             \/ r.op \notin Cart!Writes
             \/ /\ o.op \notin Cart!Writes
                /\ r.op \in Cart!Writes /\ r.cart \in Customer /\ r.items \in Cart!Contents
      PROVE  [Store!StoreNext]_Store!storeVars
    <2>1. cartItems' = cartItems BY <1>3 DEF Cart!tables
    <2>2. \/ r.op = cartReq[q].op /\ r.cart = cartReq[q].cart /\ r.items = cartReq[q].items
          \/ r.op \notin Cart!Writes
          \/ /\ cartReq[q].op \notin Cart!Writes
             /\ r.op \in Cart!Writes /\ r.cart \in Customer /\ r.items \in Cart!Contents
        BY <1>1, <1>3
    <2> QED BY <1>3, <2>1, <2>2, StoreCall
<1>4. ASSUME NEW err, Cart!Fail(q, err), UNCHANGED Cart!tables
      PROVE  [Store!StoreNext]_Store!storeVars
    <2>1. PICK r : /\ r = [Cart!NoRequest EXCEPT !.pc = "answered", !.status = Cart!StatusOf(err),
                                                 !.saved = cartReq[q].saved]
                   /\ cartReq' = [cartReq EXCEPT ![q] = r]
        BY <1>4 DEF Cart!Fail
    <2>2. r.op \notin Cart!Writes BY <2>1, CartIdle DEF Cart!Writes
    <2> QED BY <1>3, <1>4, <2>1, <2>2
<1>5. ASSUME NEW c \in Customer, NEW op \in {"get", "replace", "upsert", "remove", "clear"},
             NEW items \in Cart!Contents, NEW pc, Cart!Arrive(q, c, op, items, pc)
      PROVE  [Store!StoreNext]_Store!storeVars
    <2>1. PICK todo, plan :
              /\ todo = IF pc = "resolve" THEN Cart!Lines(items) ELSE {}
              /\ plan = IF pc = "read" THEN <<>> ELSE Cart!PlanOf(op)
        OBVIOUS
    <2>2. PICK r : /\ r = [Cart!NoRequest EXCEPT !.pc = pc, !.op = op, !.cart = c, !.items = items,
                                                 !.todo = todo, !.plan = plan,
                                                 !.seen = {cartItems[c]}]
                   /\ cartReq' = [cartReq EXCEPT ![q] = r]
        BY <1>5, <2>1 DEF Cart!Arrive
    <2>3. r.op = op /\ r.cart = c /\ r.items = items BY <2>2, CartIdle
    <2>4. o.op \notin Cart!Writes BY <1>1, <1>2, <1>5 DEF Cart!Arrive, Cart!At
    <2>5. UNCHANGED Cart!tables BY <1>5 DEF Cart!Arrive
    <2> QED BY <1>3, <1>5, <2>2, <2>3, <2>4, <2>5 DEF Cart!Writes
<1>6. CASE \/ \E c \in Customer : Cart!cart(q, c) \/ Cart!cartItemsRoute(q, c) \/ Cart!cartItem(q, c)
           \/ \E caller \in Customer \cup Staff, c \in Customer : Cart!adminCart(q, caller, c)
    <2>0. /\ Cart!NoItems \in Cart!Contents /\ MaxQty \in Nat /\ MaxQty >= 1
          /\ \A v \in Thing, n \in 1..MaxQty : [Cart!NoItems EXCEPT ![v] = n] \in Cart!Contents
        BY Assumptions, CartNothing DEF Cart!CartAssumption, Cart!Contents
    <2>1. ASSUME NEW c \in Customer, Cart!GetCart(q, c) PROVE [Store!StoreNext]_Store!storeVars
        BY <1>5, <2>0, <2>1 DEF Cart!GetCart
    <2>2. ASSUME NEW c \in Customer, Cart!ClearCart(q, c) PROVE [Store!StoreNext]_Store!storeVars
        BY <1>5, <2>0, <2>2 DEF Cart!ClearCart
    <2>3. ASSUME NEW c \in Customer, NEW items \in [Thing -> 0..MaxQty],
                 Cart!ReplaceItems(q, c, items)
          PROVE  [Store!StoreNext]_Store!storeVars
        BY <1>5, <2>3 DEF Cart!ReplaceItems, Cart!Contents
    <2>4. ASSUME NEW c \in Customer, NEW v \in Thing, NEW n \in 1..MaxQty,
                 Cart!UpsertItem(q, c, v, n)
          PROVE  [Store!StoreNext]_Store!storeVars
        BY <1>5, <2>0, <2>4 DEF Cart!UpsertItem
    <2>5. ASSUME NEW c \in Customer, NEW v \in Thing,
                 Cart!RemoveItem(q, c, v) \/ Cart!RemoveItemBySkuID(q, c, v)
          PROVE  [Store!StoreNext]_Store!storeVars
        <3>1. [Cart!NoItems EXCEPT ![v] = 1] \in Cart!Contents BY <2>0
        <3> QED BY <1>5, <2>5, <3>1 DEF Cart!RemoveItem, Cart!RemoveItemBySkuID
    <2>6. ASSUME NEW caller \in Customer \cup Staff, NEW c \in Customer,
                 Cart!adminCart(q, caller, c), ~Cart!GetCart(q, c)
          PROVE  [Store!StoreNext]_Store!storeVars
        BY <1>4, <2>6 DEF Cart!adminCart
    <2> QED BY <1>6, <2>1, <2>2, <2>3, <2>4, <2>5, <2>6
            DEF Cart!cart, Cart!cartItemsRoute, Cart!cartItem
<1>7. CASE Cart!Rollback(q)
    BY <1>4, <1>7 DEF Cart!Rollback
<1>8. CASE Cart!Commit(q)
    BY <1>8, StoreCommit
<1>9. ASSUME NEW r, cartReq' = [cartReq EXCEPT ![q] = r], UNCHANGED Cart!tables,
             r.op = o.op, r.cart = o.cart, r.items = o.items
      PROVE  [Store!StoreNext]_Store!storeVars
    BY <1>3, <1>9
<1>10. CASE Cart!resolveVariant(q)
    <2>1. ASSUME NEW v \in o.todo,
                 cartReq' = [cartReq EXCEPT ![q].pc = "check", ![q].todo = cartReq[q].todo \ {v},
                                            ![q].route = <<v>>]
          PROVE  [Store!StoreNext]_Store!storeVars
        <3>1. PICK r : /\ r = [o EXCEPT !.pc = "check", !.todo = o.todo \ {v}, !.route = <<v>>]
                       /\ cartReq' = [cartReq EXCEPT ![q] = r]
            BY <1>1, <2>1 DEF Cart!CartInv
        <3>2. r.op = o.op /\ r.cart = o.cart /\ r.items = o.items BY <1>1, <3>1, CartIdle
        <3> QED BY <1>9, <1>10, <3>1, <3>2 DEF Cart!resolveVariant
    <2>2. ASSUME NEW v \in o.todo,
                 cartReq' = [cartReq EXCEPT ![q].todo = cartReq[q].todo \ {v},
                                            ![q].missing = cartReq[q].missing \cup {v}]
          PROVE  [Store!StoreNext]_Store!storeVars
        <3>1. PICK r : /\ r = [o EXCEPT !.todo = o.todo \ {v}, !.missing = o.missing \cup {v}]
                       /\ cartReq' = [cartReq EXCEPT ![q] = r]
            BY <1>1, <2>2 DEF Cart!CartInv
        <3>2. r.op = o.op /\ r.cart = o.cart /\ r.items = o.items BY <1>1, <3>1, CartIdle
        <3> QED BY <1>9, <1>10, <3>1, <3>2 DEF Cart!resolveVariant
    <2> QED BY <1>1, <1>4, <1>10, <2>1, <2>2 DEF Cart!resolveVariant
<1>11. CASE Cart!checkAvailableQty(q)
    <2>1. ASSUME NEW v, NEW qty \in 0..MaxQty,
                 cartReq' = [cartReq EXCEPT ![q].pc = "resolve", ![q].route = <<>>,
                                            ![q].stock[v] = qty]
          PROVE  [Store!StoreNext]_Store!storeVars
        <3> DEFINE r == [o EXCEPT !.pc = "resolve", !.route = <<>>, !.stock[v] = qty]
        <3>0. cartReq = [p \in Request |-> cartReq[p]] BY DEF Cart!CartInv
        <3>1. cartReq' = [cartReq EXCEPT ![q] = r] BY <1>1, <2>1, <3>0
        <3>2. r.op = o.op /\ r.cart = o.cart /\ r.items = o.items BY <1>1, CartIdle
        <3> HIDE DEF r
        <3> QED BY <1>9, <1>11, <3>1, <3>2 DEF Cart!checkAvailableQty
    <2> QED BY <1>4, <1>11, <2>1 DEF Cart!checkAvailableQty
<1>12. CASE Cart!Checked(q)
    <2>1. ASSUME cartReq' = [cartReq EXCEPT ![q].pc = "save"]
          PROVE  [Store!StoreNext]_Store!storeVars
        <3>1. PICK r : r = [o EXCEPT !.pc = "save"] /\ cartReq' = [cartReq EXCEPT ![q] = r]
            BY <1>1, <2>1 DEF Cart!CartInv
        <3>2. r.op = o.op /\ r.cart = o.cart /\ r.items = o.items BY <1>1, <3>1, CartIdle
        <3> QED BY <1>9, <1>12, <3>1, <3>2 DEF Cart!Checked
    <2> QED BY <1>4, <1>12, <2>1 DEF Cart!Checked
<1>13. CASE Cart!Statement(q)
    <2>0. PICK stmt, rows, plan :
              /\ stmt = Head(cartReq[q].plan) /\ plan = Tail(cartReq[q].plan)
              /\ rows = Cart!RowsOf(q, stmt) \ cartReq[q].held
        OBVIOUS
    <2>1. PICK route \in Cart!SetToSeqs(rows) :
              cartReq' = [cartReq EXCEPT ![q].pc = IF route = <<>> THEN "save" ELSE stmt,
                                         ![q].plan = plan, ![q].route = route]
        BY <1>13, <2>0 DEF Cart!Statement
    <2> DEFINE pc == IF route = <<>> THEN "save" ELSE stmt
    <2> HIDE DEF pc
    <2>2. PICK r : /\ r = [o EXCEPT !.pc = pc, !.plan = plan, !.route = route]
                   /\ cartReq' = [cartReq EXCEPT ![q] = r]
        BY <1>1, <2>1 DEF Cart!CartInv, pc
    <2>3. r.op = o.op /\ r.cart = o.cart /\ r.items = o.items BY <1>1, <2>2, CartIdle
    <2> QED BY <1>9, <1>13, <2>2, <2>3 DEF Cart!Statement
<1>14. CASE Cart!Lock(q)
    <2>1. PICK pc, route, held1 :
              cartReq' = [cartReq EXCEPT ![q].pc = pc, ![q].route = route, ![q].held = held1]
        BY <1>14 DEF Cart!Lock
    <2>2. PICK r : /\ r = [o EXCEPT !.pc = pc, !.route = route, !.held = held1]
                   /\ cartReq' = [cartReq EXCEPT ![q] = r]
        BY <1>1, <2>1 DEF Cart!CartInv
    <2>3. r.op = o.op /\ r.cart = o.cart /\ r.items = o.items BY <1>1, <2>2, CartIdle
    <2> QED BY <1>9, <1>14, <2>2, <2>3 DEF Cart!Lock
<1>15. ASSUME NEW r, cartReq' = [cartReq EXCEPT ![q] = r], UNCHANGED Cart!tables,
              r.op \notin Cart!Writes
       PROVE  [Store!StoreNext]_Store!storeVars
    BY <1>3, <1>15
<1>16. CASE Cart!GetItems(q)
    <2>0. o.op \notin Cart!Writes BY <1>1, <1>2, <1>16 DEF Cart!GetItems, Cart!At
    <2>1. CASE Cart!Fail(q, "internal") BY <1>4, <1>16, <2>1 DEF Cart!GetItems
    <2>2. ASSUME NEW pc, NEW answer,
                 cartReq' = [cartReq EXCEPT ![q].pc = pc, ![q].answer = answer]
          PROVE  [Store!StoreNext]_Store!storeVars
        <3>1. PICK r : /\ r = [o EXCEPT !.pc = pc, !.answer = answer]
                       /\ cartReq' = [cartReq EXCEPT ![q] = r]
            BY <1>1, <2>2 DEF Cart!CartInv
        <3>2. r.op = o.op BY <1>1, <3>1, CartIdle
        <3> QED BY <1>15, <1>16, <2>0, <3>1, <3>2 DEF Cart!GetItems
    <2> QED BY <1>16, <2>1, <2>2 DEF Cart!GetItems
<1>17. CASE Cart!enrichCart(q)
    <2>0. o.op \notin Cart!Writes BY <1>1, <1>2, <1>17 DEF Cart!enrichCart, Cart!At
    <2>1. PICK r : /\ r = [o EXCEPT !.pc = "answered", !.status = Cart!StatusOf("ok"), !.cart = "none"]
                   /\ cartReq' = [cartReq EXCEPT ![q] = r]
        BY <1>1, <1>17 DEF Cart!CartInv, Cart!enrichCart
    <2>2. r.op = o.op BY <1>1, <2>1, CartIdle
    <2> QED BY <1>15, <1>17, <2>0, <2>1, <2>2 DEF Cart!enrichCart
<1>18. CASE Cart!Answer(q)
    <2>0. o.op \notin Cart!Writes BY <1>1, <1>2, <1>18 DEF Cart!Answer, Cart!At
    <2>1. CASE cartReq' = [cartReq EXCEPT ![q] = Cart!NoRequest]
        <3>1. Cart!NoRequest.op \notin Cart!Writes BY CartIdle DEF Cart!Writes
        <3> QED BY <1>15, <1>18, <2>1, <3>1 DEF Cart!Answer
    <2>2. CASE cartReq' = [cartReq EXCEPT ![q].pc = "answered", ![q].status = Cart!StatusOf("ok"),
                                          ![q].answer = Cart!NoItems, ![q].cart = "none"]
        <3>1. PICK r : /\ r = [o EXCEPT !.pc = "answered", !.status = Cart!StatusOf("ok"),
                                        !.answer = Cart!NoItems, !.cart = "none"]
                       /\ cartReq' = [cartReq EXCEPT ![q] = r]
            BY <1>1, <2>2 DEF Cart!CartInv
        <3>2. r.op = o.op BY <1>1, <3>1, CartIdle
        <3> QED BY <1>15, <1>18, <2>0, <3>1, <3>2 DEF Cart!Answer
    <2> QED BY <1>18, <2>1, <2>2 DEF Cart!Answer
<1> QED BY <1>0, <1>6, <1>7, <1>8, <1>10, <1>11, <1>12, <1>13, <1>14, <1>16, <1>17, <1>18
        DEF Cart!Handle

\* ImplementsStore: for any number of requests, each transaction of the Postgres repository
\* of carts takes effect at one instant, as the call of the port that it serves, or has none;
\* what it does to the lines is what the map of the memory repository does
\* (cart/pkg/infra/pg/repository.go, cart/pkg/infra/memory/repository.go).
THEOREM StoreIsImplemented == Spec => ImplementsStore
<1> DEFINE Inv == which = "cart" => Cart!CartInv
<1>1. Init => Store!StoreInit
    <2> SUFFICES ASSUME Init PROVE Store!StoreInit
        OBVIOUS
    <2>1. CASE which = "cart"
        <3>1. /\ cartItems = [c \in Customer |-> Cart!NoItems]
              /\ cartReq = [q \in Request |-> Cart!NoRequest]
            BY <2>1 DEF Init, Cart!Init
        <3>2. \A q \in Request : Cart!CallOf(q) = Store!NoCall
            BY <3>1, CartIdle DEF Cart!CallOf, Store!NoCall, Store!NoItems, Cart!NoItems
        <3>3. Store!NoItems = Cart!NoItems BY DEF Store!NoItems, Cart!NoItems
        <3> QED BY <2>1, <3>1, <3>2, <3>3 DEF Store!StoreInit
    <2>2. CASE which # "cart"
        BY <2>2 DEF Store!StoreInit, Store!NoCall, Store!NoItems, Cart!NoItems, NoCall
    <2> QED BY <2>1, <2>2
<1>2. Inv /\ [Next]_vars => [Store!StoreNext]_Store!storeVars
    <2> SUFFICES ASSUME Inv, [Next]_vars PROVE [Store!StoreNext]_Store!storeVars
        OBVIOUS
    <2>1. CASE which # "cart"
        <3>1. which' = which BY DEF Next, vars
        <3> QED BY <2>1, <3>1 DEF Store!storeVars, Cart!NoItems, NoCall
    <2>2. CASE which = "cart" /\ Cart!Next
        <3>1. which' = "cart" BY <2>2 DEF Next, vars
        <3> QED BY <2>2, <3>1, Assumptions, StoreStep
    <2>3. CASE which = "cart" /\ UNCHANGED cartVars
        <3>1. which' = "cart" BY <2>3 DEF Next, vars
        <3>2. \A q \in Request : Cart!CallOf(q)' = Cart!CallOf(q)
            BY <2>3 DEF cartVars, Cart!CallOf, Cart!NoItems
        <3> QED BY <2>3, <3>1, <3>2 DEF Store!storeVars, cartVars
    <2> QED BY <2>1, <2>2, <2>3 DEF Next, vars
<1> QED BY <1>1, <1>2, CartAlways, PTL DEF Spec, ImplementsStore, Store!StoreSpec

-----------------------------------------------------------------------------
(* The types of them all *)

\* TypesOK: for any value of the constants, the carts keep the bounds of their columns and
\* their foreign key, the counters of a product stay within its visitors, and the answers
\* of the card gateway keep their type (the schemas in cart/pkg/infra/pg, product/pkg/infra/pg
\* and payment/pkg/infra/pg).
THEOREM TypesOKHolds == Spec => []TypesOK
<1>1. Cart!CartInv => Cart!TypeOK
    BY DEF Cart!CartInv, Cart!TablesOK, Cart!RequestOK, Cart!StageOK, Cart!TypeOK, Cart!Contents
<1>2. ProductRows!RowsInv => ProductRows!TypeOK
    BY Assumptions, RowsTypeOK
<1>3. NanoReturn!NanoInv => NanoReturn!TypeOK
    BY DEF NanoReturn!NanoInv
<1>4. /\ which = "cart" => Cart!CartInv
      /\ which = "rows" => ProductRows!RowsInv
      /\ which = "nano" => NanoReturn!NanoInv
      => TypesOK
    BY <1>1, <1>2, <1>3 DEF TypesOK
<1> QED BY <1>4, CartAlways, RowsAlways, NanoAlways, PTL
=============================================================================
