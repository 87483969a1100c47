----------------------------- MODULE OfficeProofs -----------------------------
(***************************************************************************)
(* Theorems about the components of OfficeMC, for any number of requests,  *)
(* persons, keys, chats, orders, coupons and starts.  Each component has   *)
(* an inductive invariant in its own module: KeysInv, MigrationInv,        *)
(* AlertsInv, AccountsInv, BotInv, CouponsInv, StoresInv, ProfileInv,      *)
(* CatalogInv, SearchInv.  A component's lemmas are that its invariant     *)
(* holds at the start, survives each of its actions and says what the      *)
(* properties ask.                                                         *)
(***************************************************************************)
EXTENDS OfficeMC, Sequences, FiniteSetTheorems, SequenceTheorems, TLAPS

-----------------------------------------------------------------------------
(* The signing keys and what a service caches of them *)

\* A cache of one key.
LEMMA KeysCached ==
    ASSUME NEW k, NEW n \in Nat, NEW f, f = [x \in {k} |-> n]
    PROVE  /\ f # <<>> /\ DOMAIN f = {k} /\ f[k] = n
           /\ Keys!Range(f) = {n}
           /\ (CHOOSE a \in Keys!Range(f) : \A m \in Keys!Range(f) : m <= a) = n
<1>1. DOMAIN f = {k} /\ f[k] = n
    OBVIOUS
<1>2. f # <<>>
    BY <1>1
<1>3. Keys!Range(f) = {n}
    BY <1>1 DEF Keys!Range
<1>4. \E a \in {n} : \A m \in {n} : m <= a
    OBVIOUS
<1>5. (CHOOSE a \in {n} : \A m \in {n} : m <= a) = n
    BY <1>4
<1> QED BY <1>1, <1>2, <1>3, <1>5

\* The service has one key, or none.
LEMMA KeysNow ==
    ASSUME Keys!KeyTypes
    PROVE  /\ Keys!Newest \in 0..Len(signers)
           /\ \/ cachedKeys = Keys!NoKeys /\ DOMAIN cachedKeys = {} /\ Keys!Newest = 0
              \/ /\ Keys!Newest \in 1..Len(signers)
                 /\ DOMAIN cachedKeys = {signers[Keys!Newest]}
                 /\ cachedKeys[signers[Keys!Newest]] = Keys!Newest
                 /\ cachedKeys = Keys!StoreKey(Keys!Newest)
<1>1. CASE cachedKeys = Keys!NoKeys
    <2>1. DOMAIN cachedKeys = {} /\ cachedKeys = <<>>
        BY <1>1 DEF Keys!NoKeys
    <2>2. Keys!Newest = 0
        BY <2>1 DEF Keys!Newest
    <2>3. Len(signers) \in Nat
        BY DEF Keys!KeyTypes
    <2> QED BY <1>1, <2>1, <2>2, <2>3
<1>2. CASE \E n \in 1..Len(signers) : cachedKeys = Keys!StoreKey(n)
    <2>1. PICK n \in 1..Len(signers) : cachedKeys = Keys!StoreKey(n)
        BY <1>2
    <2>2. n \in Nat
        BY DEF Keys!KeyTypes
    <2>3. cachedKeys = [x \in {signers[n]} |-> n]
        BY <2>1 DEF Keys!StoreKey
    <2>4. /\ cachedKeys # <<>> /\ DOMAIN cachedKeys = {signers[n]} /\ cachedKeys[signers[n]] = n
          /\ Keys!Range(cachedKeys) = {n}
        <3>1. DOMAIN cachedKeys = {signers[n]} /\ cachedKeys[signers[n]] = n
            BY ONLY <2>3
        <3>2. cachedKeys # <<>>
            BY ONLY <3>1
        <3>3. Keys!Range(cachedKeys) = {n}
            BY ONLY <3>1 DEF Keys!Range
        <3> QED BY ONLY <3>1, <3>2, <3>3
    <2>5. Keys!Newest = n
        <3>1. (CHOOSE a \in {n} : \A m \in {n} : m <= a) = n
            BY ONLY <2>2
        <3> QED BY <2>4, <3>1 DEF Keys!Newest
    <2> QED BY <2>1, <2>2, <2>4, <2>5
<1> QED BY <1>1, <1>2 DEF Keys!KeyTypes

LEMMA KeysStart ==
    ASSUME Keys!KeysAssumption, Keys!Init
    PROVE  Keys!KeysInv
<1>1. PICK k \in Thing : signers = <<k>>
    BY DEF Keys!Init
<1>2. signers \in Seq(Thing) /\ Len(signers) = 1
    BY <1>1
<1>3. \A r \in Request : tokenReq[r] = Keys!Idle
    BY DEF Keys!Init
<1>4. Keys!KeyTypes
    BY <1>2 DEF Keys!KeyTypes, Keys!Init, Keys!Idle, Keys!Unanswered, Keys!Broken, Keys!Key,
                Keys!KeysAssumption
<1>5. Keys!FetchOK(Keys!Idle) /\ Keys!RefusedForAReason(Keys!Idle)
    BY <1>2 DEF Keys!FetchOK, Keys!RefusedForAReason, Keys!Idle, Keys!Unanswered, Keys!NoToken
<1>6. Keys!Leading = {}
    BY <1>3 DEF Keys!Leading, Keys!Idle
<1> QED BY <1>3, <1>4, <1>5, <1>6 DEF Keys!KeysInv, Keys!CurrentTokenIsAccepted

\* What a request may be.
Asked ==
    [stage : {"idle", "missed", "leading", "waiting", "again", "accepted", "refused", "guest"},
     token : Keys!Token \cup {Keys!NoToken}, doc : Keys!Unanswered..Keys!Broken, led : BOOLEAN]

LEMMA KeysIdle ==
    ASSUME Keys!KeysAssumption
    PROVE  /\ Keys!Idle \in Asked /\ Keys!Idle.stage = "idle" /\ Keys!Idle.token = Keys!NoToken
           /\ Keys!Idle.doc = 0 /\ Keys!Idle.led = FALSE
           /\ Keys!NoToken.key = 0 /\ Keys!NoToken.type = "none"
BY DEF Keys!Idle, Asked, Keys!NoToken, Keys!Unanswered, Keys!Broken, Keys!KeysAssumption

\* A request goes on and no key changes.
LEMMA KeysReply ==
    ASSUME Keys!KeysAssumption, Keys!KeysInv, NEW r \in Request, NEW x \in Asked,
           Keys!FetchOK(x), Keys!RefusedForAReason(x),
           x.stage = "leading" => tokenReq[r].stage = "leading" \/ Keys!Leading = {},
           tokenReq' = [tokenReq EXCEPT ![r] = x], UNCHANGED <<signers, cachedKeys>>
    PROVE  Keys!KeysInv'
<1>1. Keys!KeyTypes /\ tokenReq \in [Request -> Asked]
    BY DEF Keys!KeysInv, Keys!KeyTypes, Asked
<1>2. Keys!KeyTypes'
    BY <1>1 DEF Keys!KeyTypes, Asked, Keys!StoreKey
<1>3. tokenReq'[r] = x /\ \A q \in Request : q # r => tokenReq'[q] = tokenReq[q]
    BY <1>1
<1>4. Keys!Newest' = Keys!Newest
    BY DEF Keys!Newest
<1>5. \A q \in Request : Keys!FetchOK(tokenReq'[q]) /\ Keys!RefusedForAReason(tokenReq'[q])
    BY <1>3 DEF Keys!KeysInv, Keys!CurrentTokenIsAccepted
<1>6. \A q \in Request : Keys!FetchOK(tokenReq[q])' /\ Keys!RefusedForAReason(tokenReq[q])'
    BY <1>4, <1>5 DEF Keys!FetchOK, Keys!RefusedForAReason
<1>7. \A p, q \in Keys!Leading' : p = q
    BY <1>3 DEF Keys!KeysInv, Keys!Leading
<1> QED BY <1>2, <1>6, <1>7 DEF Keys!KeysInv, Keys!CurrentTokenIsAccepted

\* How a token is judged by a key of the service.
LEMMA KeysJudged ==
    ASSUME Keys!KeysAssumption, Keys!KeyTypes, NEW t \in Keys!Token, t.key <= Len(signers),
           signers[t.key] \in DOMAIN cachedKeys,
           NEW x \in Asked, x.token = t,
           x.stage = Keys!Verify(t, cachedKeys[signers[t.key]])
    PROVE  /\ Keys!RefusedForAReason(x)
           /\ x.stage \in {"accepted", "refused"}
           /\ x.stage = "accepted" => t.key = Keys!Newest
<1>1. /\ Keys!Newest \in 1..Len(signers)
      /\ cachedKeys[signers[t.key]] = Keys!Newest /\ signers[t.key] = signers[Keys!Newest]
    BY KeysNow
<1>2. Len(signers) \in Nat /\ t.key \in Nat /\ t.key >= 1
    BY DEF Keys!KeyTypes, Keys!Token, Keys!Key, Keys!KeysAssumption
<1>3. CASE t.key = Keys!Newest
    BY <1>1, <1>3 DEF Keys!RefusedForAReason, Keys!Verify
<1>4. CASE t.key # Keys!Newest
    <2>1. x.stage = "refused"
        BY <1>1, <1>4 DEF Keys!Verify
    <2>2. t.key = Len(signers) => Keys!Newest \in 1..t.key - 1
        BY <1>1, <1>2, <1>4
    <2> QED BY <1>1, <2>1, <2>2 DEF Keys!RefusedForAReason
<1> QED BY <1>3, <1>4

LEMMA KeysWithoutToken ==
    ASSUME Keys!KeysAssumption, Keys!KeysInv, NEW r \in Request, NEW optional \in BOOLEAN,
           Keys!WithoutToken(r, optional)
    PROVE  Keys!KeysInv'
<1> DEFINE stage == IF optional THEN "guest" ELSE "refused"
<1> DEFINE x == [Keys!Idle EXCEPT !.stage = stage]
<1>1. tokenReq[r] = Keys!Idle
    BY DEF Keys!WithoutToken, Keys!KeysInv, Keys!FetchOK
<1>2. Len(signers) \in Nat
    BY DEF Keys!KeysInv, Keys!KeyTypes
<1>a. stage \in {"guest", "refused"}
    OBVIOUS
<1> HIDE DEF stage
<1>3. x \in Asked /\ x.stage \in {"guest", "refused"}
    BY <1>a, KeysIdle DEF Asked
<1>b. x.token = Keys!NoToken /\ x.doc = 0 /\ x.led = FALSE
    BY KeysIdle DEF Asked
<1>4. Keys!FetchOK(x) /\ Keys!RefusedForAReason(x)
    BY <1>2, <1>3, <1>b, KeysIdle DEF Keys!FetchOK, Keys!RefusedForAReason, Keys!Unanswered
<1>5. tokenReq' = [tokenReq EXCEPT ![r] = x] /\ UNCHANGED <<signers, cachedKeys>>
    BY <1>1 DEF Keys!WithoutToken, Keys!Reply, stage
<1> HIDE DEF x
<1> QED BY <1>3, <1>4, <1>5, KeysReply

\* A request that presents a token.
LEMMA KeysWithToken ==
    ASSUME Keys!KeysAssumption, Keys!KeysInv, NEW r \in Request, NEW t \in Keys!Issued,
           Keys!WithToken(r, t)
    PROVE  Keys!KeysInv' /\ (tokenReq'[r].stage = "accepted" => t.key = Keys!Newest)
                         /\ tokenReq'[r].token = t
<1> DEFINE kid == signers[t.key]
<1> DEFINE stage == IF kid \in DOMAIN cachedKeys THEN Keys!Verify(t, cachedKeys[kid]) ELSE "missed"
<1> DEFINE x == [Keys!Idle EXCEPT !.token = t, !.stage = stage]
<1>0. Keys!KeyTypes
    BY DEF Keys!KeysInv
<1>1. /\ t \in Keys!Token /\ t.key <= Len(signers) /\ t # Keys!NoToken /\ t.key \in Nat
      /\ Len(signers) \in Nat
    BY <1>0 DEF Keys!KeyTypes, Keys!Issued, Keys!Token, Keys!Key, Keys!NoToken, Keys!KeysAssumption
<1>3. stage \in {"missed", "accepted", "refused"}
    BY DEF Keys!Verify
<1> HIDE DEF stage
<1>2. x.stage = stage /\ x.token = t /\ x.doc = 0 /\ x.led = FALSE
    BY KeysIdle DEF Asked
<1>4. x \in Asked
    BY <1>1, <1>3, KeysIdle DEF Asked
<1>5. tokenReq' = [tokenReq EXCEPT ![r] = x] /\ UNCHANGED <<signers, cachedKeys>>
    BY DEF Keys!WithToken, Keys!PublicKey, stage
<1>6. Keys!FetchOK(x)
    BY <1>1, <1>2, <1>3 DEF Keys!FetchOK, Keys!Unanswered
<1>7. Keys!RefusedForAReason(x) /\ (x.stage = "accepted" => t.key = Keys!Newest)
    <2>1. CASE kid \in DOMAIN cachedKeys
        <3>1. x.stage = Keys!Verify(t, cachedKeys[signers[t.key]]) /\ x.token = t
            BY <1>2, <2>1 DEF stage
        <3> HIDE DEF x
        <3> QED BY <1>0, <1>1, <1>4, <2>1, <3>1, KeysJudged
    <2>2. CASE kid \notin DOMAIN cachedKeys
        BY <1>2, <2>2 DEF Keys!RefusedForAReason, stage
    <2> QED BY <2>1, <2>2
<1>8. tokenReq'[r] = x
    BY <1>0, <1>5 DEF Keys!KeyTypes
<1>9. x.stage # "leading" /\ x.token = t
    BY <1>2, <1>3
<1> HIDE DEF x
<1> QED BY <1>4, <1>5, <1>6, <1>7, <1>8, <1>9, KeysReply

LEMMA KeysRefresh ==
    ASSUME Keys!KeysAssumption, Keys!KeysInv, NEW r \in Request, Keys!Refresh(r)
    PROVE  Keys!KeysInv'
<1> DEFINE x == [tokenReq[r] EXCEPT !.stage = IF Keys!Leading = {} THEN "leading" ELSE "waiting",
                                    !.led = Keys!Leading = {}]
<1>1. /\ tokenReq \in [Request -> Asked] /\ Keys!FetchOK(tokenReq[r]) /\ tokenReq[r].stage = "missed"
      /\ Len(signers) \in Nat
    BY DEF Keys!KeysInv, Keys!KeyTypes, Asked, Keys!Refresh
<1>2. /\ x \in Asked /\ x.stage \in {"leading", "waiting"} /\ x.led = (Keys!Leading = {})
      /\ x.stage = "leading" <=> Keys!Leading = {}
      /\ x.token = tokenReq[r].token /\ x.doc = tokenReq[r].doc
    BY <1>1 DEF Asked
<1>3. tokenReq' = [tokenReq EXCEPT ![r] = x] /\ UNCHANGED <<signers, cachedKeys>>
    BY DEF Keys!Refresh
<1> HIDE DEF x
<1>4. Keys!FetchOK(x) /\ Keys!RefusedForAReason(x)
    BY <1>1, <1>2 DEF Keys!FetchOK, Keys!RefusedForAReason
<1> QED BY <1>2, <1>3, <1>4, KeysReply

LEMMA KeysAnswer ==
    ASSUME Keys!KeysAssumption, Keys!KeysInv, NEW r \in Request,
           NEW doc \in {Len(signers), Keys!Broken}, Keys!Answer(r, doc)
    PROVE  Keys!KeysInv'
<1> DEFINE x == [tokenReq[r] EXCEPT !.doc = doc]
<1>0. Keys!KeyTypes
    BY DEF Keys!KeysInv
<1>1. /\ tokenReq \in [Request -> Asked] /\ Keys!FetchOK(tokenReq[r]) /\ tokenReq[r].stage = "leading"
      /\ Len(signers) \in 1..MaxKey /\ MaxKey \in Nat /\ Keys!Newest \in 0..Len(signers)
    BY <1>0, KeysNow DEF Keys!KeysInv, Keys!KeyTypes, Asked, Keys!Answer, Keys!KeysAssumption, Keys!Key
<1>2. doc \in 1..MaxKey + 1 /\ doc >= Len(signers)
    BY <1>1 DEF Keys!Broken
<1>3. /\ x \in Asked /\ x.stage = "leading" /\ x.led = tokenReq[r].led
      /\ x.token = tokenReq[r].token /\ x.doc = doc
    BY <1>1, <1>2 DEF Asked, Keys!Unanswered, Keys!Broken
<1>4. tokenReq' = [tokenReq EXCEPT ![r] = x] /\ UNCHANGED <<signers, cachedKeys>>
    BY DEF Keys!Answer
<1>5. x.token.key \in Nat
    BY <1>3 DEF Asked, Keys!Token, Keys!NoToken, Keys!Key
<1> HIDE DEF x
<1>6. Keys!FetchOK(x)
    BY <1>1, <1>2, <1>3, <1>5 DEF Keys!FetchOK, Keys!Broken, Keys!Unanswered
<1>7. Keys!RefusedForAReason(x)
    BY <1>3 DEF Keys!RefusedForAReason
<1> QED BY <1>1, <1>3, <1>4, <1>6, <1>7, KeysReply

LEMMA KeysLookAgain ==
    ASSUME Keys!KeysAssumption, Keys!KeysInv, NEW r \in Request, Keys!LookAgain(r)
    PROVE  /\ Keys!KeysInv'
           /\ tokenReq'[r].stage = "accepted" => tokenReq'[r].token.key = Keys!Newest
<1> DEFINE t == tokenReq[r].token
<1> DEFINE kid == signers[t.key]
<1> DEFINE stage == IF kid \in DOMAIN cachedKeys THEN Keys!Verify(t, cachedKeys[kid]) ELSE "refused"
<1> DEFINE x == [tokenReq[r] EXCEPT !.stage = stage]
<1>1. /\ tokenReq \in [Request -> Asked] /\ Keys!FetchOK(tokenReq[r]) /\ tokenReq[r].stage = "again"
      /\ Len(signers) \in Nat /\ Keys!KeyTypes
    BY DEF Keys!KeysInv, Keys!KeyTypes, Asked, Keys!LookAgain, Keys!Key
<1>2. /\ t \in Keys!Token /\ t.key \in Nat /\ t.key >= 1 /\ t.key <= Len(signers)
      /\ tokenReq[r].doc \in 1..Keys!Newest
      /\ tokenReq[r].led => tokenReq[r].doc >= t.key
    BY <1>1 DEF Keys!FetchOK, Asked, Keys!Token, Keys!Key, Keys!Unanswered
<1>3. /\ Keys!Newest \in 1..Len(signers)
      /\ DOMAIN cachedKeys = {signers[Keys!Newest]} /\ cachedKeys[signers[Keys!Newest]] = Keys!Newest
    BY <1>1, <1>2, KeysNow
<1>4. stage \in {"accepted", "refused"}
    BY DEF Keys!Verify
<1> HIDE DEF stage
<1>5. /\ x \in Asked /\ x.stage = stage /\ x.token = t /\ x.doc = tokenReq[r].doc
      /\ x.led = tokenReq[r].led
    BY <1>1, <1>4 DEF Asked
<1>6. tokenReq' = [tokenReq EXCEPT ![r] = x] /\ UNCHANGED <<signers, cachedKeys>>
    BY DEF Keys!LookAgain, Keys!Reply, stage
<1>7. tokenReq'[r] = x
    BY <1>1, <1>6
<1> HIDE DEF x, t
<1>8. Keys!FetchOK(x)
    BY <1>1, <1>2, <1>4, <1>5 DEF Keys!FetchOK, t
<1>9. Keys!RefusedForAReason(x) /\ (x.stage = "accepted" => x.token.key = Keys!Newest)
    <2>1. CASE kid \in DOMAIN cachedKeys
        <3>1. x.stage = Keys!Verify(t, cachedKeys[signers[t.key]])
            BY <1>5, <2>1 DEF stage
        <3> QED BY <1>1, <1>2, <1>5, <2>1, <3>1, KeysJudged
    <2>2. CASE kid \notin DOMAIN cachedKeys
        <3>1. x.stage = "refused"
            BY <1>5, <2>2 DEF stage
        <3>2. t.key # Keys!Newest
            BY <1>3, <2>2
        <3>3. t.key = Len(signers) => ~x.led /\ x.doc \in 1..t.key - 1
            BY <1>1, <1>2, <1>3, <1>5, <3>2
        <3> QED BY <1>5, <3>1, <3>3 DEF Keys!RefusedForAReason
    <2> QED BY <2>1, <2>2
<1> QED BY <1>4, <1>5, <1>6, <1>7, <1>8, <1>9, KeysReply

LEMMA KeysFinish ==
    ASSUME Keys!KeysAssumption, Keys!KeysInv, NEW r \in Request, Keys!Finish(r)
    PROVE  Keys!KeysInv'
<1>1. Len(signers) \in Nat
    BY DEF Keys!KeysInv, Keys!KeyTypes
<1>2. Keys!FetchOK(Keys!Idle) /\ Keys!RefusedForAReason(Keys!Idle)
    BY <1>1, KeysIdle DEF Keys!FetchOK, Keys!RefusedForAReason, Keys!Unanswered
<1> QED BY <1>2, KeysIdle, KeysReply DEF Keys!Finish

LEMMA KeysStartAuth ==
    ASSUME Keys!KeysAssumption, Keys!KeysInv, NEW kid \in Thing, Keys!StartAuth(kid)
    PROVE  Keys!KeysInv'
<1>1. /\ tokenReq \in [Request -> Asked] /\ Len(signers) \in Nat /\ Keys!KeyTypes
    BY DEF Keys!KeysInv, Keys!KeyTypes, Asked, Keys!Key
<1>2. /\ Len(signers') = Len(signers) + 1 /\ signers' \in Seq(Thing)
      /\ \A n \in 1..Len(signers) : signers'[n] = signers[n]
      /\ Len(signers') \in Keys!Key /\ UNCHANGED <<cachedKeys, tokenReq>>
    BY <1>1 DEF Keys!StartAuth, Keys!KeyTypes, Keys!Key, Keys!KeysAssumption
<1>3. cachedKeys' = Keys!NoKeys \/ \E n \in 1..Len(signers') : cachedKeys' = Keys!StoreKey(n)'
    <2>1. CASE cachedKeys = Keys!NoKeys
        BY <1>2, <2>1
    <2>2. CASE \E n \in 1..Len(signers) : cachedKeys = Keys!StoreKey(n)
        BY <1>1, <1>2, <2>2 DEF Keys!StoreKey
    <2> QED BY <1>1, <2>1, <2>2 DEF Keys!KeyTypes
<1>4. Keys!KeyTypes'
    BY <1>1, <1>2, <1>3 DEF Keys!KeyTypes, Keys!NoKeys, Asked
<1>5. Keys!Newest' = Keys!Newest
    BY <1>2 DEF Keys!Newest
<1>6. \A r \in Request : Keys!FetchOK(tokenReq[r])'
    <2> SUFFICES ASSUME NEW r \in Request PROVE Keys!FetchOK(tokenReq[r])'
        OBVIOUS
    <2>1. Keys!FetchOK(tokenReq[r]) /\ tokenReq'[r] = tokenReq[r] /\ tokenReq[r] \in Asked
        BY <1>1, <1>2 DEF Keys!KeysInv
    <2>2. tokenReq[r].token.key <= Len(signers') /\ tokenReq[r].doc \in 0..Len(signers') \cup {Keys!Broken}
        BY <1>1, <1>2, <2>1 DEF Keys!FetchOK, Asked, Keys!Token, Keys!NoToken, Keys!Key
    <2> QED BY <1>5, <2>1, <2>2 DEF Keys!FetchOK
<1>7. \A r \in Request : Keys!RefusedForAReason(tokenReq[r])'
    <2> SUFFICES ASSUME NEW r \in Request PROVE Keys!RefusedForAReason(tokenReq[r])'
        OBVIOUS
    <2>1. tokenReq'[r].token.key <= Len(signers) /\ tokenReq[r] \in Asked
        BY <1>1, <1>2 DEF Keys!KeysInv, Keys!FetchOK
    <2>2. tokenReq'[r].token.key # Len(signers')
        BY <1>1, <1>2, <2>1 DEF Asked, Keys!Token, Keys!NoToken, Keys!Key
    <2> QED BY <2>2 DEF Keys!RefusedForAReason
<1>8. \A p, q \in Keys!Leading' : p = q
    BY <1>2 DEF Keys!KeysInv, Keys!Leading
<1> QED BY <1>4, <1>6, <1>7, <1>8 DEF Keys!KeysInv, Keys!CurrentTokenIsAccepted

\* A fetch ends: what the service holds afterwards is no older than before.
LEMMA KeysEndFetch ==
    ASSUME Keys!KeysAssumption, Keys!KeysInv, NEW r \in Request, Keys!EndFetch(r)
    PROVE  /\ Keys!KeysInv' /\ Keys!CacheMovesForwardStep
           /\ \A q \in Request : tokenReq'[q].stage = "accepted" => tokenReq[q].stage = "accepted"
<1> DEFINE doc == tokenReq[r].doc
<1>1. /\ tokenReq \in [Request -> Asked] /\ Len(signers) \in Nat /\ Keys!KeyTypes
      /\ Keys!FetchOK(tokenReq[r]) /\ tokenReq[r].stage = "leading"
      /\ doc # Keys!Unanswered /\ MaxKey \in Nat /\ Len(signers) \in 1..MaxKey
    <2>1. Keys!KeyTypes /\ Keys!FetchOK(tokenReq[r])
        BY DEF Keys!KeysInv
    <2>2. tokenReq[r].stage = "leading" /\ doc # Keys!Unanswered
        BY DEF Keys!EndFetch
    <2> QED BY <2>1, <2>2 DEF Keys!KeyTypes, Asked, Keys!Key, Keys!KeysAssumption
<1>2. /\ doc \in 0..Len(signers) \cup {Keys!Broken} /\ doc # 0 /\ doc >= Keys!Newest
      /\ doc >= tokenReq[r].token.key /\ doc \in Keys!Unanswered..Keys!Broken
      /\ Keys!Newest \in 0..Len(signers)
    BY <1>1, KeysNow DEF Keys!FetchOK, Keys!Unanswered, Asked
<1> DEFINE shares == {q \in Request : q = r \/ tokenReq[q].stage = "waiting"}
<1> DEFINE stage == IF doc = Keys!Broken THEN "refused" ELSE "again"
<1>3. /\ signers' = signers /\ cachedKeys' = (IF doc = Keys!Broken THEN cachedKeys ELSE Keys!StoreKey(doc))
      /\ tokenReq' = [q \in Request |-> IF q \notin shares THEN tokenReq[q]
                                        ELSE [tokenReq[q] EXCEPT !.doc = doc, !.stage = stage]]
    BY DEF Keys!EndFetch
<1>4. stage \in {"refused", "again"} /\ (stage = "refused" <=> doc = Keys!Broken)
    OBVIOUS
<1> HIDE DEF doc, stage, shares
<1>5. \A q \in Request :
         \/ q \notin shares /\ tokenReq'[q] = tokenReq[q]
         \/ /\ q \in shares /\ tokenReq'[q] \in Asked
            /\ tokenReq'[q].stage = stage /\ tokenReq'[q].doc = doc
            /\ tokenReq'[q].token = tokenReq[q].token /\ tokenReq'[q].led = tokenReq[q].led
    BY <1>1, <1>2, <1>3, <1>4 DEF Asked
<1>6. tokenReq' \in [Request -> Asked]
    BY <1>1, <1>3, <1>5
<1>7. Keys!KeyTypes'
    <2>1. doc # Keys!Broken => doc \in 1..Len(signers)
        BY <1>1, <1>2
    <2>2. cachedKeys' = Keys!NoKeys \/ \E n \in 1..Len(signers) : cachedKeys' = Keys!StoreKey(n)
        BY <1>1, <1>3, <2>1 DEF Keys!KeyTypes
    <2> QED BY <1>1, <1>3, <1>6, <2>2 DEF Keys!KeyTypes, Keys!StoreKey, Asked
<1>8. /\ Keys!Newest' >= Keys!Newest /\ Keys!Newest' \in 0..Len(signers)
      /\ doc # Keys!Broken => Keys!Newest' = doc
    <2>1. CASE doc = Keys!Broken
        <3>1. cachedKeys' = cachedKeys
            BY <1>3, <2>1
        <3>2. Keys!Newest' = Keys!Newest
            BY <3>1 DEF Keys!Newest
        <3> QED BY <1>1, <1>2, <2>1, <3>2
    <2>2. CASE doc # Keys!Broken
        <3>1. doc \in 1..Len(signers) /\ doc \in Nat
            BY <1>1, <1>2, <2>2
        <3>2. cachedKeys' = [x \in {signers[doc]} |-> doc]
            BY <1>3, <2>2 DEF Keys!StoreKey
        <3>3. /\ cachedKeys' # <<>>
              /\ (CHOOSE a \in Keys!Range(cachedKeys') :
                    \A m \in Keys!Range(cachedKeys') : m <= a) = doc
            BY <3>1, <3>2, KeysCached
        <3>4. Keys!Newest' = doc
            BY <3>3 DEF Keys!Newest
        <3> QED BY <1>2, <3>1, <3>4
    <2> QED BY <2>1, <2>2
<1>9. \A q \in Request : Keys!FetchOK(tokenReq[q])' /\ Keys!RefusedForAReason(tokenReq[q])'
    <2> SUFFICES ASSUME NEW q \in Request
                 PROVE  Keys!FetchOK(tokenReq[q])' /\ Keys!RefusedForAReason(tokenReq[q])'
        OBVIOUS
    <2>1. Keys!FetchOK(tokenReq[q]) /\ tokenReq[q] \in Asked /\ Keys!RefusedForAReason(tokenReq[q])
        BY <1>1 DEF Keys!KeysInv, Keys!CurrentTokenIsAccepted
    <2>2. CASE q \notin shares
        <3>1. tokenReq'[q] = tokenReq[q] /\ q # r
            BY <1>5, <2>2 DEF shares
        <3>2. tokenReq[q].stage # "leading"
            BY <1>1, <3>1 DEF Keys!KeysInv, Keys!Leading
        <3>3. tokenReq[q].stage = "again" => tokenReq[q].doc \in 1..Keys!Newest'
            BY <1>2, <1>8, <2>1 DEF Keys!FetchOK, Asked
        <3>4. Keys!FetchOK(tokenReq[q])'
            BY <1>3, <2>1, <3>1, <3>2, <3>3 DEF Keys!FetchOK
        <3> QED BY <1>3, <2>1, <3>1, <3>4 DEF Keys!RefusedForAReason
    <2>3. CASE q \in shares
        <3>1. /\ tokenReq'[q].stage = stage /\ tokenReq'[q].doc = doc
              /\ tokenReq'[q].token = tokenReq[q].token /\ tokenReq'[q].led = tokenReq[q].led
            BY <1>5, <2>3
        <3>2. tokenReq[q].token # Keys!NoToken
            BY <1>1, <2>1, <2>3 DEF Keys!FetchOK, shares
        <3>3. tokenReq[q].led => doc >= tokenReq[q].token.key
            BY <1>1, <1>2, <2>1, <2>3 DEF shares, Keys!FetchOK
        <3>4. Keys!FetchOK(tokenReq[q])'
            <4>1. tokenReq[q].token.key <= Len(signers')
                BY <1>3, <2>1 DEF Keys!FetchOK
            <4>2. stage = "again" => doc \in 1..Keys!Newest'
                BY <1>1, <1>2, <1>4, <1>8
            <4>3. doc \in 0..Len(signers') \cup {Keys!Broken}
                BY <1>2, <1>3
            <4> QED BY <1>4, <3>1, <3>2, <3>3, <4>1, <4>2, <4>3 DEF Keys!FetchOK
        <3> QED BY <1>4, <3>1, <3>4 DEF Keys!RefusedForAReason
    <2> QED BY <2>2, <2>3
<1>10. Keys!Leading' \subseteq Keys!Leading
    <2> SUFFICES ASSUME NEW q \in Request, tokenReq'[q].stage = "leading"
                 PROVE  tokenReq[q].stage = "leading"
        BY DEF Keys!Leading
    <2> QED BY <1>4, <1>5
<1>11. \A q \in Request : tokenReq'[q].stage = "accepted" => tokenReq[q].stage = "accepted"
    BY <1>4, <1>5
<1> QED BY <1>7, <1>8, <1>9, <1>10, <1>11 DEF Keys!KeysInv, Keys!CurrentTokenIsAccepted, Keys!CacheMovesForwardStep

LEMMA KeysStartService ==
    ASSUME Keys!KeysAssumption, Keys!KeysInv, Keys!StartService
    PROVE  Keys!KeysInv' /\ Keys!CacheMovesForwardStep
           /\ \A q \in Request : tokenReq'[q].stage # "accepted"
<1>1. Len(signers) \in Nat /\ Keys!KeyTypes /\ signers' = signers
    BY DEF Keys!KeysInv, Keys!KeyTypes, Keys!StartService
<1>2. \A q \in Request : tokenReq'[q] = Keys!Idle
    BY DEF Keys!StartService
<1>3. Keys!KeyTypes'
    BY <1>1, KeysIdle DEF Keys!KeyTypes, Keys!StartService, Asked, Keys!NoKeys
<1>4. Keys!FetchOK(Keys!Idle)' /\ Keys!RefusedForAReason(Keys!Idle)'
    BY <1>1, KeysIdle DEF Keys!FetchOK, Keys!RefusedForAReason, Keys!Unanswered
<1>5. \A q \in Request : Keys!FetchOK(tokenReq[q])' /\ Keys!RefusedForAReason(tokenReq[q])'
    BY <1>2, <1>4
<1>6. Keys!Leading' = {}
    BY <1>2, KeysIdle DEF Keys!Leading
<1>7. cachedKeys' = <<>>
    BY DEF Keys!StartService, Keys!NoKeys
<1> QED BY <1>2, <1>3, <1>5, <1>6, <1>7, KeysIdle
       DEF Keys!KeysInv, Keys!CurrentTokenIsAccepted, Keys!CacheMovesForwardStep

LEMMA KeysStep ==
    ASSUME Keys!KeysAssumption, Keys!KeysInv, Keys!Next
    PROVE  Keys!KeysInv' /\ Keys!CacheMovesForwardStep /\ Keys!RotatedOutIsRefusedStep
<1>0. Keys!Newest \in Nat
    BY KeysNow DEF Keys!KeysInv, Keys!KeyTypes
<1>1. cachedKeys' = cachedKeys => Keys!Newest' = Keys!Newest /\ Keys!CacheMovesForwardStep
    BY <1>0 DEF Keys!Newest, Keys!CacheMovesForwardStep
<1>2. ASSUME NEW r \in Request,
             \A q \in Request : q # r => tokenReq'[q] = tokenReq[q],
             tokenReq'[r].stage = "accepted" => tokenReq'[r].token.key = Keys!Newest,
             cachedKeys' = cachedKeys
      PROVE  Keys!CacheMovesForwardStep /\ Keys!RotatedOutIsRefusedStep
    BY <1>1, <1>2 DEF Keys!RotatedOutIsRefusedStep
<1>3. tokenReq \in [Request -> Asked]
    BY DEF Keys!KeysInv, Keys!KeyTypes, Asked
<1>4. ASSUME NEW kid \in Thing, Keys!StartAuth(kid)
      PROVE  Keys!KeysInv' /\ Keys!CacheMovesForwardStep /\ Keys!RotatedOutIsRefusedStep
    <2>1. tokenReq' = tokenReq /\ cachedKeys' = cachedKeys
        BY <1>4 DEF Keys!StartAuth
    <2> QED BY <1>1, <1>4, <2>1, KeysStartAuth DEF Keys!RotatedOutIsRefusedStep
<1>5. ASSUME NEW r \in Request, NEW optional \in BOOLEAN, Keys!WithoutToken(r, optional)
      PROVE  Keys!KeysInv' /\ Keys!CacheMovesForwardStep /\ Keys!RotatedOutIsRefusedStep
    <2>1. tokenReq'[r].stage \in {"guest", "refused"} /\ cachedKeys' = cachedKeys
          /\ \A q \in Request : q # r => tokenReq'[q] = tokenReq[q]
        BY <1>3, <1>5 DEF Keys!WithoutToken, Keys!Reply, Asked
    <2> QED BY <1>2, <1>5, <2>1, KeysWithoutToken
<1>6. ASSUME NEW r \in Request, NEW t \in Keys!Issued, Keys!WithToken(r, t)
      PROVE  Keys!KeysInv' /\ Keys!CacheMovesForwardStep /\ Keys!RotatedOutIsRefusedStep
    <2>1. cachedKeys' = cachedKeys /\ \A q \in Request : q # r => tokenReq'[q] = tokenReq[q]
        BY <1>3, <1>6 DEF Keys!WithToken, Keys!PublicKey
    <2>2. Keys!KeysInv' /\ (tokenReq'[r].stage = "accepted" => t.key = Keys!Newest)
                        /\ tokenReq'[r].token = t
        BY <1>6, KeysWithToken
    <2> QED BY <1>2, <2>1, <2>2
<1>7. ASSUME NEW r \in Request, Keys!Refresh(r)
      PROVE  Keys!KeysInv' /\ Keys!CacheMovesForwardStep /\ Keys!RotatedOutIsRefusedStep
    <2>1. tokenReq'[r].stage \in {"leading", "waiting"} /\ cachedKeys' = cachedKeys
          /\ \A q \in Request : q # r => tokenReq'[q] = tokenReq[q]
        BY <1>3, <1>7 DEF Keys!Refresh, Asked
    <2> QED BY <1>2, <1>7, <2>1, KeysRefresh
<1>8. ASSUME NEW r \in Request, NEW doc \in {Len(signers), Keys!Broken}, Keys!Answer(r, doc)
      PROVE  Keys!KeysInv' /\ Keys!CacheMovesForwardStep /\ Keys!RotatedOutIsRefusedStep
    <2>1. tokenReq'[r].stage = "leading" /\ cachedKeys' = cachedKeys
          /\ \A q \in Request : q # r => tokenReq'[q] = tokenReq[q]
        BY <1>3, <1>8 DEF Keys!Answer, Asked
    <2> QED BY <1>2, <1>8, <2>1, KeysAnswer
<1>9. ASSUME NEW r \in Request, Keys!EndFetch(r)
      PROVE  Keys!KeysInv' /\ Keys!CacheMovesForwardStep /\ Keys!RotatedOutIsRefusedStep
    BY <1>9, KeysEndFetch DEF Keys!RotatedOutIsRefusedStep
<1>10. ASSUME NEW r \in Request, Keys!LookAgain(r)
      PROVE  Keys!KeysInv' /\ Keys!CacheMovesForwardStep /\ Keys!RotatedOutIsRefusedStep
    <2>1. cachedKeys' = cachedKeys /\ \A q \in Request : q # r => tokenReq'[q] = tokenReq[q]
        BY <1>3, <1>10 DEF Keys!LookAgain, Keys!Reply
    <2> QED BY <1>2, <1>10, <2>1, KeysLookAgain
<1>11. ASSUME NEW r \in Request, Keys!Finish(r)
      PROVE  Keys!KeysInv' /\ Keys!CacheMovesForwardStep /\ Keys!RotatedOutIsRefusedStep
    <2>1. tokenReq'[r].stage = "idle" /\ cachedKeys' = cachedKeys
          /\ \A q \in Request : q # r => tokenReq'[q] = tokenReq[q]
        BY <1>3, <1>11, KeysIdle DEF Keys!Finish
    <2> QED BY <1>2, <1>11, <2>1, KeysFinish
<1>12. CASE Keys!StartService
    BY <1>12, KeysStartService DEF Keys!RotatedOutIsRefusedStep
<1> QED BY <1>4, <1>5, <1>6, <1>7, <1>8, <1>9, <1>10, <1>11, <1>12 DEF Keys!Next

-----------------------------------------------------------------------------
(* The migration of the roles *)

LEMMA MigrationNames ==
    /\ Migration!Role \cap Migration!Fine = {}
    /\ \A stored : Migration!ExpandLegacyRoles(stored) \subseteq Migration!Fine
    /\ Migration!ExpandLegacyRoles({}) = {}
    /\ ~Migration!NeedsExpansion({})
    /\ \A stored : stored \subseteq Migration!Fine => ~Migration!NeedsExpansion(stored)
<1> USE DEF Migration!Role, Migration!Fine, Migration!Catalog, Migration!Wildcard
<1>1. Migration!Role \cap Migration!Fine = {}
    OBVIOUS
<1>2. \A role : Migration!RolePermissions(role) \subseteq Migration!Fine
    BY DEF Migration!RolePermissions
<1>3. \A stored : Migration!ExpandLegacyRoles(stored) \subseteq Migration!Fine
    BY <1>2 DEF Migration!ExpandLegacyRoles
<1>4. Migration!ExpandLegacyRoles({}) = {}
    BY DEF Migration!ExpandLegacyRoles
<1> QED BY <1>1, <1>3, <1>4 DEF Migration!NeedsExpansion

\* What a table must be.
Table(tab) == \E known \in SUBSET Person : tab \in [known -> Migration!Row]

LEMMA MigrationTable ==
    ASSUME NEW tab
    PROVE  Table(tab) <=> /\ DOMAIN tab \subseteq Person /\ tab = [u \in DOMAIN tab |-> tab[u]]
                           /\ \A u \in DOMAIN tab : tab[u] \in Migration!Row
BY DEF Table

LEMMA MigrationStart ==
    ASSUME Migration!MigrationAssumption, Migration!Init
    PROVE  Migration!MigrationInv
<1>1. PICK known \in SUBSET Person, stored \in [Person -> Held],
           type \in [Person -> {"customer", "admin"}], mail \in [Person -> Migration!Mail] :
        /\ \A u, v \in known : u # v => mail[u] # mail[v]
        /\ Migration!Cardinality(known) = 2
        /\ migrated = [u \in known |->
             [roles |-> IF hasRoles THEN stored[u] ELSE {},
              permissions |-> IF hasRoles THEN {} ELSE stored[u],
              type |-> type[u], mail |-> mail[u]]]
    BY DEF Migration!Init
<1>2. hasRoles \in BOOLEAN /\ index = FALSE /\ alone = {}
      /\ pc = [i \in Request |-> "down"] /\ found = [i \in Request |-> Migration!NothingFound]
    BY DEF Migration!Init
<1>3. \A u \in Person : stored[u] \subseteq Migration!Role
    BY DEF Migration!MigrationAssumption
<1>4. DOMAIN migrated = known /\ \A u \in known :
          /\ migrated[u] \in Migration!Row /\ migrated[u].mail = mail[u]
          /\ migrated[u].permissions \subseteq Migration!Role
          /\ ~hasRoles => migrated[u].roles = {}
    <2>1. DOMAIN migrated = known
        BY <1>1
    <2> SUFFICES ASSUME NEW u \in known
                 PROVE  /\ migrated[u] \in Migration!Row /\ migrated[u].mail = mail[u]
                        /\ migrated[u].permissions \subseteq Migration!Role
                        /\ ~hasRoles => migrated[u].roles = {}
        BY <2>1
    <2>2. stored[u] \subseteq Migration!Role /\ type[u] \in Migration!AccountType /\ mail[u] \in Migration!Mail
        BY <1>1, <1>3 DEF Migration!AccountType
    <2> QED BY <1>1, <1>2, <2>2 DEF Migration!Row
<1>5. Migration!TypeOK
    <2>1. migrated \in [known -> Migration!Row]
        BY <1>1, <1>4
    <2>2. \A i \in Request : found[i] = Migration!NothingFound /\ DOMAIN found[i] = {}
        BY <1>2 DEF Migration!NothingFound
    <2>3. \A u, v \in DOMAIN migrated : u # v => migrated[u].mail # migrated[v].mail
        BY <1>1, <1>4
    <2>4. pc \in [Request -> Migration!Steps \cup {"down", "failed"}]
        BY <1>2
    <2> QED BY <1>2, <2>1, <2>2, <2>3, <2>4 DEF Migration!TypeOK
<1>6. Migration!RowsOK
    BY <1>4 DEF Migration!RowsOK
<1>7. \A i \in Request : Migration!StartOK(i)
    BY <1>2 DEF Migration!StartOK, Migration!NothingFound
<1> QED BY <1>2, <1>5, <1>6, <1>7
       DEF Migration!MigrationInv, Migration!AloneOK, Migration!AloneAStartSucceeds

\* What a row grants depends on the names in its two columns.
LEMMA MigrationSameNames ==
    ASSUME NEW u, migrated'[u].permissions = migrated[u].permissions,
           migrated'[u].roles = migrated[u].roles
    PROVE  Migration!Rights(u)' = Migration!Rights(u)
BY DEF Migration!Rights

\* A step that leaves the names of all rows alone leaves all starts but those that move
\* where they are.
LEMMA MigrationNamesKept ==
    ASSUME Migration!MigrationInv, hasRoles' = hasRoles, DOMAIN migrated' = DOMAIN migrated,
           \A u \in DOMAIN migrated : /\ migrated'[u].permissions = migrated[u].permissions
                                      /\ migrated'[u].roles = migrated[u].roles
    PROVE  /\ Migration!RowsOK' /\ Migration!RightsSurviveStep
           /\ \A k \in Request : pc'[k] = pc[k] /\ found'[k] = found[k] => Migration!StartOK(k)'
<1>1. Migration!RowsOK'
    BY DEF Migration!MigrationInv, Migration!RowsOK
<1>2. Migration!RightsSurviveStep
    BY MigrationSameNames DEF Migration!RightsSurviveStep
<1>3. ASSUME NEW k \in Request, pc'[k] = pc[k], found'[k] = found[k]
      PROVE  Migration!StartOK(k)'
    <2>1. Migration!StartOK(k)
        BY DEF Migration!MigrationInv
    <2> QED BY <1>3, <2>1 DEF Migration!StartOK
<1> QED BY <1>1, <1>2, <1>3

\* Two rows have different addresses, whatever their case where there is the index.
MailsOK ==
    \A u, v \in DOMAIN migrated :
        u # v => /\ migrated[u].mail # migrated[v].mail
                 /\ index => ~Migration!Collide(u, v)

\* Where a start that no other runs beside may be.
MayBeAlone(i) ==
    /\ pc[i] # "failed"
    /\ pc[i] \in {"copy", "drop"} => hasRoles
    /\ pc[i] = "create" => ~Migration!Collisions

LEMMA MigrationFacts ==
    ASSUME Migration!MigrationInv
    PROVE  /\ Table(migrated) /\ MailsOK /\ hasRoles \in BOOLEAN /\ index \in BOOLEAN
           /\ pc \in [Request -> Migration!Steps \cup {"down", "failed"}]
           /\ DOMAIN migrated \subseteq Person
           /\ \A u \in DOMAIN migrated : migrated[u] \in Migration!Row
           /\ DOMAIN found = Request
           /\ \A i \in Request : DOMAIN found[i] \subseteq DOMAIN migrated
           /\ \A i \in Request : \A u \in DOMAIN found[i] : found[i][u] \subseteq Migration!Fine
           /\ \A i \in Request : Migration!StartOK(i)
           /\ \A i \in alone : MayBeAlone(i)
BY MigrationTable DEF Migration!MigrationInv, Migration!TypeOK, Table, MailsOK, Migration!StartOK,
   Migration!AloneOK, Migration!AloneAStartSucceeds, MayBeAlone

\* A start takes its next step: the state it leaves is sound if the rows are, and all
\* starts are where they may be.
LEMMA MigrationMoves ==
    ASSUME Migration!MigrationInv, NEW i \in Request, NEW to \in Migration!Steps \cup {"down", "failed"},
           NEW f, pc[i] \notin {"down", "failed"}, pc' = [pc EXCEPT ![i] = to],
           DOMAIN found' = Request, \A k \in Request : found'[k] = (IF k = i THEN f ELSE found[k]),
           alone' = alone,
           DOMAIN f \subseteq DOMAIN migrated', \A u \in DOMAIN f : f[u] \subseteq Migration!Fine,
           Table(migrated'), MailsOK', hasRoles' \in BOOLEAN, index' \in BOOLEAN,
           Migration!RowsOK', \A k \in Request : Migration!StartOK(k)', i \in alone => MayBeAlone(i)'
    PROVE  Migration!MigrationInv'
<1>1. /\ pc \in [Request -> Migration!Steps \cup {"down", "failed"}] /\ DOMAIN found = Request
      /\ \A k \in Request : \A u \in DOMAIN found[k] : found[k][u] \subseteq Migration!Fine
    BY MigrationFacts
<1>2. pc' \in [Request -> Migration!Steps \cup {"down", "failed"}] /\ DOMAIN found' = Request
    BY <1>1
<1>3. \A k \in Request : DOMAIN found'[k] \subseteq Person
                         /\ \A u \in DOMAIN found'[k] : found'[k][u] \subseteq Migration!Fine
    <2>1. DOMAIN migrated' \subseteq Person
        BY MigrationTable
    <2>2. \A k \in Request : found'[k] = IF k = i THEN f ELSE found[k]
        BY <1>1
    <2>3. \A k \in Request : DOMAIN found[k] \subseteq Person
        BY DEF Migration!MigrationInv, Migration!TypeOK
    <2> QED BY <1>1, <2>1, <2>2, <2>3
<1>4. Migration!TypeOK'
    BY <1>2, <1>3 DEF Migration!TypeOK, Table, MailsOK
<1>5. alone \subseteq {i}
    BY DEF Migration!MigrationInv, Migration!AloneOK
<1>6. Migration!AloneOK' /\ Migration!AloneAStartSucceeds'
    <2>1. \A j \in alone : \A k \in Request \ {j} : pc'[k] \in {"down", "failed"}
        BY <1>1, <1>5 DEF Migration!MigrationInv, Migration!AloneOK
    <2>2. \A j \in alone : MayBeAlone(j)'
        BY <1>5
    <2> QED BY <2>1, <2>2 DEF Migration!AloneOK, Migration!AloneAStartSucceeds, MayBeAlone
<1> QED BY <1>2, <1>4, <1>6 DEF Migration!MigrationInv

\* A step that leaves the rows and the column alone.
LEMMA MigrationGoes ==
    ASSUME Migration!MigrationInv, NEW i \in Request, NEW to \in Migration!Steps \cup {"down", "failed"},
           NEW f, pc[i] \notin {"down", "failed"}, pc' = [pc EXCEPT ![i] = to],
           DOMAIN found' = Request, \A k \in Request : found'[k] = (IF k = i THEN f ELSE found[k]),
           UNCHANGED <<migrated, hasRoles, alone>>,
           DOMAIN f \subseteq DOMAIN migrated, \A u \in DOMAIN f : f[u] \subseteq Migration!Fine,
           index' = index \/ (index' \in BOOLEAN /\ (index' => ~Migration!Collisions)),
           Migration!StartOK(i)', i \in alone => MayBeAlone(i)'
    PROVE  Migration!MigrationInv' /\ Migration!RightsSurviveStep
<1>1. /\ Table(migrated) /\ MailsOK /\ hasRoles \in BOOLEAN /\ index \in BOOLEAN
      /\ pc \in [Request -> Migration!Steps \cup {"down", "failed"}] /\ DOMAIN found = Request
    BY MigrationFacts
<1>2. /\ Migration!RowsOK' /\ Migration!RightsSurviveStep
      /\ \A k \in Request : pc'[k] = pc[k] /\ found'[k] = found[k] => Migration!StartOK(k)'
    BY MigrationNamesKept
<1>3. \A k \in Request : Migration!StartOK(k)'
    BY <1>1, <1>2
<1>4. MailsOK'
    BY <1>1 DEF MailsOK, Migration!Collisions, Migration!Collide
<1> QED BY <1>1, <1>2, <1>3, <1>4, MigrationMoves

LEMMA MigrationBegin ==
    ASSUME Migration!MigrationInv, NEW i \in Request, Migration!Start(i)
    PROVE  Migration!MigrationInv' /\ Migration!RightsSurviveStep
<1>1. /\ pc[i] \in {"down", "failed"} /\ pc' = [pc EXCEPT ![i] = "columns"]
      /\ UNCHANGED <<migrated, hasRoles, index, found>>
      /\ alone' = {j \in {i} : \A k \in Request \ {i} : pc[k] \in {"down", "failed"}}
    BY DEF Migration!Start, Migration!Go
<1>2. /\ pc \in [Request -> Migration!Steps \cup {"down", "failed"}]
      /\ \A k \in Request : Migration!StartOK(k)
    BY MigrationFacts
<1>3. pc' \in [Request -> Migration!Steps \cup {"down", "failed"}] /\ pc'[i] = "columns"
      /\ \A k \in Request : k # i => pc'[k] = pc[k]
    BY <1>1, <1>2 DEF Migration!Steps
<1>4. Migration!TypeOK'
    BY <1>1, <1>3 DEF Migration!MigrationInv, Migration!TypeOK, Migration!Collide
<1>5. Migration!RowsOK' /\ Migration!RightsSurviveStep
      /\ \A k \in Request : pc'[k] = pc[k] /\ found'[k] = found[k] => Migration!StartOK(k)'
    BY <1>1, MigrationNamesKept
<1>6. \A k \in Request : Migration!StartOK(k)'
    <2>1. Migration!StartOK(i)'
        BY <1>1, <1>2, <1>3 DEF Migration!StartOK
    <2> QED BY <1>1, <1>3, <1>5, <2>1
<1>7. Migration!AloneOK' /\ Migration!AloneAStartSucceeds' /\ alone' \subseteq Request
    BY <1>1, <1>3 DEF Migration!AloneOK, Migration!AloneAStartSucceeds
<1> QED BY <1>1, <1>4, <1>5, <1>6, <1>7 DEF Migration!MigrationInv

LEMMA MigrationStop ==
    ASSUME Migration!MigrationInv, NEW i \in Request, Migration!Stop(i), UNCHANGED alone
    PROVE  Migration!MigrationInv' /\ Migration!RightsSurviveStep
<1>1. /\ pc[i] \notin {"down", "failed"} /\ pc' = [pc EXCEPT ![i] = "down"]
      /\ found' = [found EXCEPT ![i] = Migration!NothingFound]
      /\ UNCHANGED <<migrated, hasRoles, index>>
    BY DEF Migration!Stop, Migration!Find
<1>2. /\ pc \in [Request -> Migration!Steps \cup {"down", "failed"}] /\ DOMAIN found = Request
      /\ index \in BOOLEAN
    BY MigrationFacts
<1>3. DOMAIN Migration!NothingFound = {}
    BY DEF Migration!NothingFound
<1>4. pc'[i] = "down" /\ found'[i] = Migration!NothingFound
    BY <1>1, <1>2
<1>5. Migration!StartOK(i)' /\ MayBeAlone(i)'
    BY <1>3, <1>4 DEF Migration!StartOK, MayBeAlone
<1> QED BY <1>1, <1>2, <1>3, <1>5, MigrationGoes

\* A step that has found nothing new.
LEMMA MigrationPasses ==
    ASSUME Migration!MigrationInv, NEW i \in Request, NEW to \in Migration!Steps \cup {"down", "failed"},
           NEW from, from \notin {"down", "failed"}, Migration!Go(i, from, to),
           UNCHANGED <<migrated, hasRoles, found, alone>>,
           index' = index \/ (index' \in BOOLEAN /\ (index' => ~Migration!Collisions)),
           Migration!StartOK(i)', i \in alone => MayBeAlone(i)'
    PROVE  Migration!MigrationInv' /\ Migration!RightsSurviveStep
<1>1. pc[i] = from /\ pc' = [pc EXCEPT ![i] = to]
    BY DEF Migration!Go
<1>2. /\ DOMAIN found = Request /\ DOMAIN found[i] \subseteq DOMAIN migrated
      /\ \A u \in DOMAIN found[i] : found[i][u] \subseteq Migration!Fine
    BY MigrationFacts
<1> DEFINE f == found[i]
<1>3. \A k \in Request : found'[k] = (IF k = i THEN f ELSE found[k])
    OBVIOUS
<1> HIDE DEF f
<1> QED BY <1>1, <1>2, <1>3, MigrationGoes DEF f

LEMMA MigrationColumns ==
    ASSUME Migration!MigrationInv, NEW i \in Request, UNCHANGED alone,
           Migration!Columns(i) \/ Migration!Expanded(i) \/ Migration!Lowered(i)
             \/ Migration!CheckCollisions(i) \/ Migration!CreateIndex(i)
    PROVE  Migration!MigrationInv' /\ Migration!RightsSurviveStep
<1>0. /\ pc \in [Request -> Migration!Steps \cup {"down", "failed"}]
      /\ Migration!StartOK(i) /\ hasRoles \in BOOLEAN /\ index \in BOOLEAN
      /\ i \in alone => MayBeAlone(i)
    BY MigrationFacts
<1>1. ASSUME NEW to \in Migration!Steps \cup {"down", "failed"}, NEW from, Migration!Go(i, from, to)
      PROVE  pc[i] = from /\ pc'[i] = to
    BY <1>0, <1>1 DEF Migration!Go
<1>2. CASE Migration!Columns(i)
    <2> DEFINE to == Migration!AfterColumns
    <2>1. to \in Migration!Steps /\ to = IF hasRoles THEN "copy" ELSE "list"
        BY DEF Migration!AfterColumns, Migration!Steps
    <2> HIDE DEF to
    <2>2. Migration!Go(i, "columns", to) /\ UNCHANGED <<migrated, hasRoles, index, found>>
        BY <1>2 DEF Migration!Columns, to
    <2>3. pc[i] = "columns" /\ pc'[i] = to
        BY <1>1, <2>1, <2>2
    <2>4. Migration!StartOK(i)' /\ MayBeAlone(i)'
        BY <1>0, <2>1, <2>2, <2>3 DEF Migration!StartOK, MayBeAlone
    <2> QED BY <2>1, <2>2, <2>4, MigrationPasses
<1>3. CASE Migration!Expanded(i)
    <2>1. /\ Migration!Go(i, "expand", "mails") /\ UNCHANGED <<migrated, hasRoles, index, found>>
          /\ DOMAIN found[i] = {} /\ "mails" \in Migration!Steps
        BY <1>3 DEF Migration!Expanded, Migration!Steps
    <2>2. pc[i] = "expand" /\ pc'[i] = "mails"
        BY <1>1, <2>1
    <2>3. Migration!StartOK(i)' /\ MayBeAlone(i)'
        BY <1>0, <2>1, <2>2 DEF Migration!StartOK, MayBeAlone
    <2> QED BY <2>1, <2>3, MigrationPasses
<1>4. CASE Migration!Lowered(i)
    <2>1. /\ Migration!Go(i, "lower", "index") /\ UNCHANGED <<migrated, hasRoles, index, found>>
          /\ "index" \in Migration!Steps
        BY <1>4 DEF Migration!Lowered, Migration!Steps
    <2>2. pc[i] = "lower" /\ pc'[i] = "index"
        BY <1>1, <2>1
    <2>3. Migration!StartOK(i)' /\ MayBeAlone(i)'
        BY <1>0, <2>1, <2>2 DEF Migration!StartOK, MayBeAlone
    <2> QED BY <2>1, <2>3, MigrationPasses
<1>5. CASE Migration!CheckCollisions(i)
    <2> DEFINE to == IF Migration!Collisions THEN "admins" ELSE "create"
    <2>1. to \in Migration!Steps /\ to \in {"admins", "create"} /\ (to = "create" => ~Migration!Collisions)
        BY DEF Migration!Steps
    <2> HIDE DEF to
    <2>2. Migration!Go(i, "index", to) /\ UNCHANGED <<migrated, hasRoles, index, found>>
        BY <1>5 DEF Migration!CheckCollisions, to
    <2>3. pc[i] = "index" /\ pc'[i] = to
        BY <1>1, <2>1, <2>2
    <2>4. Migration!Collisions' = Migration!Collisions
        BY <2>2 DEF Migration!Collisions, Migration!Collide
    <2>5. Migration!StartOK(i)' /\ MayBeAlone(i)'
        BY <1>0, <2>1, <2>2, <2>3, <2>4 DEF Migration!StartOK, MayBeAlone
    <2> QED BY <2>1, <2>2, <2>5, MigrationPasses
<1>6. CASE Migration!CreateIndex(i)
    <2> DEFINE to == IF Migration!Collisions THEN "failed" ELSE "admins"
    <2>1. to \in Migration!Steps \cup {"down", "failed"} /\ to \in {"admins", "failed"}
          /\ (to = "failed" => Migration!Collisions)
        BY DEF Migration!Steps
    <2> HIDE DEF to
    <2>2. Migration!Go(i, "create", to) /\ UNCHANGED <<migrated, hasRoles, found>>
          /\ index' = (index \/ ~Migration!Collisions)
        BY <1>6 DEF Migration!CreateIndex, to
    <2>3. pc[i] = "create" /\ pc'[i] = to
        BY <1>1, <2>1, <2>2
    <2>4. Migration!StartOK(i)' /\ (i \in alone => MayBeAlone(i)')
        BY <1>0, <2>1, <2>2, <2>3 DEF Migration!StartOK, MayBeAlone
    <2>5. index' = index \/ (index' \in BOOLEAN /\ (index' => ~Migration!Collisions))
        BY <1>0, <2>2
    <2> QED BY <2>1, <2>2, <2>4, <2>5, MigrationPasses
<1> QED BY <1>2, <1>3, <1>4, <1>5, <1>6

LEMMA MigrationCopyRows ==
    ASSUME Migration!MigrationInv, Migration!CopyRows, hasRoles
    PROVE  /\ Table(migrated') /\ DOMAIN migrated' = DOMAIN migrated
           /\ \A u \in DOMAIN migrated :
                /\ migrated'[u].roles = migrated[u].roles /\ migrated'[u].mail = migrated[u].mail
                /\ migrated'[u].permissions =
                     IF migrated[u].permissions = {} THEN migrated[u].roles ELSE migrated[u].permissions
<1>1. /\ DOMAIN migrated \subseteq Person
      /\ \A u \in DOMAIN migrated : migrated[u] \in Migration!Row
    BY MigrationFacts
<1>2. /\ DOMAIN migrated' = DOMAIN migrated /\ migrated' = [u \in DOMAIN migrated' |-> migrated'[u]]
      /\ \A u \in DOMAIN migrated : migrated'[u] =
            IF migrated[u].permissions = {} /\ migrated[u].roles # {}
            THEN [migrated[u] EXCEPT !.permissions = migrated[u].roles] ELSE migrated[u]
    BY DEF Migration!CopyRows
<1>3. ASSUME NEW u \in DOMAIN migrated
      PROVE  /\ migrated'[u] \in Migration!Row
             /\ migrated'[u].roles = migrated[u].roles /\ migrated'[u].mail = migrated[u].mail
             /\ migrated'[u].permissions =
                  IF migrated[u].permissions = {} THEN migrated[u].roles ELSE migrated[u].permissions
    <2>1. migrated[u] \in Migration!Row
        BY <1>1, <1>3
    <2>2. CASE migrated[u].permissions = {} /\ migrated[u].roles # {}
        <3>1. migrated'[u] = [migrated[u] EXCEPT !.permissions = migrated[u].roles]
            BY <1>2, <1>3, <2>2
        <3>2. migrated[u].roles \in SUBSET (Migration!Role \cup Migration!Fine)
            BY <2>1 DEF Migration!Row
        <3> QED BY <2>1, <2>2, <3>1, <3>2 DEF Migration!Row
    <2>3. CASE ~(migrated[u].permissions = {} /\ migrated[u].roles # {})
        <3>1. migrated'[u] = migrated[u]
            BY <1>2, <1>3, <2>3
        <3> QED BY <2>1, <2>3, <3>1
    <2> QED BY <2>2, <2>3
<1> QED BY <1>1, <1>2, <1>3, MigrationTable

\* What is read of a row is the column that is written.
LEMMA MigrationSameStored ==
    ASSUME NEW u, migrated[u].permissions = {} => migrated'[u].roles = migrated[u].roles,
           migrated'[u].permissions = {} => migrated[u].permissions = {} /\ migrated[u].roles = {},
           migrated'[u].permissions =
               IF migrated[u].permissions = {} THEN migrated[u].roles ELSE migrated[u].permissions
    PROVE  Migration!Rights(u)' = Migration!Rights(u)
<1>1. CASE migrated[u].permissions = {} /\ migrated[u].roles = {}
    BY <1>1 DEF Migration!Rights
<1>2. CASE ~(migrated[u].permissions = {} /\ migrated[u].roles = {})
    BY <1>2 DEF Migration!Rights
<1> QED BY <1>1, <1>2

LEMMA MigrationCopies ==
    ASSUME Migration!MigrationInv, NEW i \in Request, Migration!Copy(i), UNCHANGED alone
    PROVE  Migration!MigrationInv' /\ Migration!RightsSurviveStep
<1>0. /\ pc \in [Request -> Migration!Steps \cup {"down", "failed"}] /\ hasRoles \in BOOLEAN
      /\ MailsOK /\ DOMAIN found = Request /\ index \in BOOLEAN /\ Table(migrated)
      /\ \A k \in Request : Migration!StartOK(k)
      /\ i \in alone => MayBeAlone(i)
      /\ \A k \in Request : DOMAIN found[k] \subseteq DOMAIN migrated
      /\ \A k \in Request : \A u \in DOMAIN found[k] : found[k][u] \subseteq Migration!Fine
    BY MigrationFacts
<1>1. CASE ~hasRoles
    <2>1. /\ Migration!Go(i, "copy", "failed") /\ UNCHANGED <<migrated, hasRoles, index, found>>
        BY <1>1 DEF Migration!Copy
    <2>2. pc[i] = "copy" /\ pc'[i] = "failed"
        BY <1>0, <2>1 DEF Migration!Go
    <2>3. Migration!StartOK(i)' /\ i \notin alone
        BY <1>0, <1>1, <2>1, <2>2 DEF Migration!StartOK, MayBeAlone
    <2> QED BY <1>0, <2>1, <2>3, MigrationPasses
<1>2. CASE hasRoles
    <2>1. /\ pc[i] = "copy" /\ pc' = [pc EXCEPT ![i] = "drop"] /\ Migration!CopyRows
          /\ UNCHANGED <<hasRoles, index, found>> /\ "drop" \in Migration!Steps
        BY <1>2 DEF Migration!Copy, Migration!Go, Migration!Steps
    <2>2. /\ Table(migrated') /\ DOMAIN migrated' = DOMAIN migrated
          /\ \A u \in DOMAIN migrated :
                /\ migrated'[u].roles = migrated[u].roles /\ migrated'[u].mail = migrated[u].mail
                /\ migrated'[u].permissions =
                     IF migrated[u].permissions = {} THEN migrated[u].roles ELSE migrated[u].permissions
        BY <1>2, <2>1, MigrationCopyRows
    <2>3. MailsOK'
        BY <1>0, <2>1, <2>2 DEF MailsOK, Migration!Collide
    <2>4. Migration!RowsOK'
        <3>1. Migration!RowsOK /\ \A u \in DOMAIN migrated : migrated[u].roles \subseteq Migration!Role
            BY MigrationFacts DEF Migration!MigrationInv, Migration!Row
        <3> QED BY <1>2, <2>1, <2>2, <3>1 DEF Migration!RowsOK
    <2>5. \A k \in Request : Migration!StartOK(k)'
        <3> SUFFICES ASSUME NEW k \in Request PROVE Migration!StartOK(k)'
            OBVIOUS
        <3>1. /\ pc[k] \in {"down", "failed", "columns", "copy", "drop"}
              /\ DOMAIN found[k] \subseteq DOMAIN migrated
            BY <1>0, <1>2 DEF Migration!StartOK
        <3>2. pc'[k] \in {"down", "failed", "columns", "copy", "drop"}
            BY <1>0, <2>1, <3>1
        <3>3. \A u \in DOMAIN migrated' : migrated'[u].permissions = {} => migrated'[u].roles = {}
            BY <2>2
        <3> QED BY <2>1, <2>2, <3>1, <3>2, <3>3 DEF Migration!StartOK
    <2>6. Migration!RightsSurviveStep
        BY <2>2, MigrationSameStored DEF Migration!RightsSurviveStep
    <2>7. MayBeAlone(i)'
        BY <1>0, <1>2, <2>1 DEF MayBeAlone
    <2> DEFINE f == found[i]
    <2>8. \A k \in Request : found'[k] = (IF k = i THEN f ELSE found[k])
        BY <2>1
    <2>9. DOMAIN f \subseteq DOMAIN migrated' /\ \A u \in DOMAIN f : f[u] \subseteq Migration!Fine
        BY <1>0, <2>2
    <2> HIDE DEF f
    <2>10. DOMAIN found' = Request /\ hasRoles' \in BOOLEAN /\ index' \in BOOLEAN
        BY <1>0, <2>1
    <2> DEFINE to == "drop"
    <2>a. /\ to \in Migration!Steps \cup {"down", "failed"} /\ pc' = [pc EXCEPT ![i] = to]
          /\ pc[i] \notin {"down", "failed"} /\ (i \in alone => MayBeAlone(i)')
        BY <2>1, <2>7
    <2> HIDE DEF to
    <2>11. Migration!MigrationInv'
        BY <2>a, <2>2, <2>3, <2>4, <2>5, <2>8, <2>9, <2>10, MigrationMoves
    <2> QED BY <2>6, <2>11
<1> QED BY <1>0, <1>1, <1>2

LEMMA MigrationDrops ==
    ASSUME Migration!MigrationInv, NEW i \in Request, Migration!Drop(i), UNCHANGED alone
    PROVE  Migration!MigrationInv' /\ Migration!RightsSurviveStep
<1>0. /\ pc \in [Request -> Migration!Steps \cup {"down", "failed"}] /\ hasRoles \in BOOLEAN
      /\ MailsOK /\ DOMAIN found = Request /\ index \in BOOLEAN
      /\ DOMAIN migrated \subseteq Person /\ \A u \in DOMAIN migrated : migrated[u] \in Migration!Row
      /\ \A k \in Request : Migration!StartOK(k)
      /\ i \in alone => MayBeAlone(i)
      /\ \A k \in Request : DOMAIN found[k] \subseteq DOMAIN migrated
      /\ \A k \in Request : \A u \in DOMAIN found[k] : found[k][u] \subseteq Migration!Fine
    BY MigrationFacts
<1> DEFINE to == IF hasRoles THEN "list" ELSE "failed"
<1>t. to \in Migration!Steps \cup {"down", "failed"} /\ (hasRoles => to = "list") /\ (~hasRoles => to = "failed")
    BY <1>0 DEF Migration!Steps
<1> HIDE DEF to
<1>1. /\ pc[i] = "drop" /\ pc' = [pc EXCEPT ![i] = to] /\ hasRoles' = FALSE /\ UNCHANGED <<index, found>>
      /\ migrated' = [u \in DOMAIN migrated |-> [migrated[u] EXCEPT !.roles = {}]]
    BY DEF Migration!Drop, Migration!Go, to
<1>2. /\ DOMAIN migrated' = DOMAIN migrated
      /\ \A u \in DOMAIN migrated :
            /\ migrated'[u] \in Migration!Row
            /\ migrated'[u].roles = {} /\ migrated'[u].mail = migrated[u].mail
            /\ migrated'[u].permissions = migrated[u].permissions
    <2>1. DOMAIN migrated' = DOMAIN migrated
        BY <1>1
    <2> SUFFICES ASSUME NEW u \in DOMAIN migrated
                 PROVE  /\ migrated'[u] \in Migration!Row
                        /\ migrated'[u].roles = {} /\ migrated'[u].mail = migrated[u].mail
                        /\ migrated'[u].permissions = migrated[u].permissions
        BY <2>1
    <2>2. migrated[u] \in Migration!Row /\ migrated'[u] = [migrated[u] EXCEPT !.roles = {}]
        BY <1>0, <1>1
    <2> QED BY <2>2 DEF Migration!Row
<1>3. Table(migrated')
    <2>1. migrated' = [u \in DOMAIN migrated' |-> migrated'[u]]
        BY <1>1
    <2> QED BY <1>0, <1>2, <2>1, MigrationTable
<1>4. MailsOK' /\ Migration!RowsOK'
    <2>1. Migration!RowsOK
        BY DEF Migration!MigrationInv
    <2> QED BY <1>0, <1>1, <1>2, <2>1 DEF MailsOK, Migration!Collide, Migration!RowsOK
<1>5. \A k \in Request : Migration!StartOK(k)'
    <2> SUFFICES ASSUME NEW k \in Request PROVE Migration!StartOK(k)'
        OBVIOUS
    <2>1. Migration!StartOK(k) /\ DOMAIN found[k] \subseteq DOMAIN migrated
        BY <1>0
    <2>2. CASE k # i
        <3>1. pc'[k] = pc[k]
            BY <1>0, <1>1, <2>2
        <3> QED BY <1>1, <1>2, <2>1, <3>1 DEF Migration!StartOK
    <2>3. CASE k = i
        <3>1. pc'[k] \in {"list", "failed"}
            BY <1>0, <1>t, <1>1, <2>3
        <3> QED BY <1>1, <1>2, <2>1, <3>1 DEF Migration!StartOK
    <2> QED BY <2>2, <2>3
<1>6. Migration!RightsSurviveStep
    <2> SUFFICES ASSUME NEW u \in DOMAIN migrated
                 PROVE  Migration!Rights(u)' = Migration!Rights(u)
        BY DEF Migration!RightsSurviveStep
    <2>1. migrated[u].permissions = {} => migrated[u].roles = {}
        BY <1>0, <1>1 DEF Migration!StartOK, Migration!MigrationInv, Migration!RowsOK
    <2> QED BY <1>2, <2>1 DEF Migration!Rights
<1>7. i \in alone => MayBeAlone(i)'
    BY <1>0, <1>t, <1>1 DEF MayBeAlone
<1> DEFINE f == found[i]
<1>8. \A k \in Request : found'[k] = (IF k = i THEN f ELSE found[k])
    BY <1>1
<1>9. DOMAIN f \subseteq DOMAIN migrated' /\ \A u \in DOMAIN f : f[u] \subseteq Migration!Fine
    BY <1>0, <1>2
<1> HIDE DEF f
<1>10. DOMAIN found' = Request /\ hasRoles' \in BOOLEAN /\ index' \in BOOLEAN
    BY <1>0, <1>1
<1>11. Migration!MigrationInv'
    <2>1. Migration!MigrationInv /\ i \in Request /\ alone' = alone
        OBVIOUS
    <2>2. pc[i] \notin {"down", "failed"} /\ pc' = [pc EXCEPT ![i] = to]
        BY <1>1
    <2> QED BY ONLY <1>t, <1>3, <1>4, <1>5, <1>7, <1>8, <1>9, <1>10, <2>1, <2>2, MigrationMoves
<1> QED BY <1>6, <1>11

LEMMA MigrationFinds ==
    ASSUME Migration!MigrationInv, NEW i \in Request, UNCHANGED alone,
           Migration!List(i) \/ Migration!Mails(i)
    PROVE  Migration!MigrationInv' /\ Migration!RightsSurviveStep
<1>0. /\ pc \in [Request -> Migration!Steps \cup {"down", "failed"}] /\ DOMAIN found = Request
      /\ Migration!StartOK(i) /\ index \in BOOLEAN /\ {"expand", "lower"} \subseteq Migration!Steps
    BY MigrationFacts DEF Migration!Steps
<1>1. CASE Migration!List(i)
    <2> DEFINE f == [u \in {v \in DOMAIN migrated : Migration!NeedsExpansion(migrated[v].permissions)} |->
                        Migration!ExpandLegacyRoles(migrated[u].permissions)]
    <2>1. /\ pc[i] = "list" /\ pc' = [pc EXCEPT ![i] = "expand"] /\ found' = [found EXCEPT ![i] = f]
          /\ UNCHANGED <<migrated, hasRoles, index>>
        BY <1>1 DEF Migration!List, Migration!Go, Migration!Find
    <2>2. /\ \A u \in DOMAIN migrated : Migration!NeedsExpansion(migrated[u].permissions) =>
                u \in DOMAIN f /\ f[u] = Migration!ExpandLegacyRoles(migrated[u].permissions)
          /\ DOMAIN f \subseteq DOMAIN migrated
          /\ \A u \in DOMAIN f : f[u] \subseteq Migration!Fine
        BY MigrationNames
    <2> HIDE DEF f
    <2>3. /\ pc'[i] = "expand" /\ found'[i] = f /\ DOMAIN found' = Request
          /\ \A k \in Request : found'[k] = (IF k = i THEN f ELSE found[k])
        BY <1>0, <2>1
    <2>4. Migration!StartOK(i)' /\ MayBeAlone(i)'
        BY <1>0, <2>1, <2>2, <2>3 DEF Migration!StartOK, MayBeAlone
    <2> QED BY <1>0, <2>1, <2>2, <2>3, <2>4, MigrationGoes
<1>2. CASE Migration!Mails(i)
    <2> DEFINE f == [u \in {v \in DOMAIN migrated : ~migrated[v].mail.lower} |-> {}]
    <2>1. /\ pc[i] = "mails" /\ pc' = [pc EXCEPT ![i] = "lower"] /\ found' = [found EXCEPT ![i] = f]
          /\ UNCHANGED <<migrated, hasRoles, index>>
        BY <1>2 DEF Migration!Mails, Migration!Go, Migration!Find
    <2>2. DOMAIN f \subseteq DOMAIN migrated /\ \A u \in DOMAIN f : f[u] \subseteq Migration!Fine
        OBVIOUS
    <2> HIDE DEF f
    <2>3. /\ pc'[i] = "lower" /\ found'[i] = f /\ DOMAIN found' = Request
          /\ \A k \in Request : found'[k] = (IF k = i THEN f ELSE found[k])
        BY <1>0, <2>1
    <2>4. Migration!StartOK(i)' /\ MayBeAlone(i)'
        BY <1>0, <2>1, <2>2, <2>3 DEF Migration!StartOK, MayBeAlone
    <2> QED BY <1>0, <2>1, <2>2, <2>3, <2>4, MigrationGoes
<1> QED BY <1>1, <1>2

\* A row that held roles, written as its start has read them, lets its user do the same.
LEMMA MigrationExpandedRights ==
    ASSUME Migration!RowsOK, NEW u \in DOMAIN migrated, ~hasRoles,
           Migration!NeedsExpansion(migrated[u].permissions),
           migrated'[u].permissions = Migration!ExpandLegacyRoles(migrated[u].permissions),
           migrated'[u].roles = migrated[u].roles
    PROVE  Migration!Rights(u)' = Migration!Rights(u)
<1> DEFINE names == migrated[u].permissions
           fine == Migration!ExpandLegacyRoles(names)
<1>1. /\ names \subseteq Migration!Role /\ names # {} /\ names \cap Migration!Fine = {}
      /\ migrated[u].roles = {}
    BY MigrationNames DEF Migration!RowsOK, Migration!NeedsExpansion
<1>2. fine = UNION {Migration!RolePermissions(r) : r \in names \cap Migration!Role}
    BY DEF Migration!ExpandLegacyRoles
<1>3. fine \subseteq Migration!Fine /\ fine \cap Migration!Role = {}
    BY MigrationNames
<1>4. Migration!Rights(u) = {want \in Migration!Catalog : Migration!Grants(fine, want)}
    BY <1>1, <1>2 DEF Migration!Rights
<1>5. UNION {Migration!RolePermissions(r) : r \in fine \cap Migration!Role} = {}
    BY <1>3
<1>6. (fine \cap Migration!Fine) \cup UNION {Migration!RolePermissions(r) : r \in fine \cap Migration!Role} = fine
    BY <1>3, <1>5
<1>7. (IF fine = {} THEN migrated[u].roles ELSE fine) = fine
    BY <1>1
<1> HIDE DEF names, fine
<1>8. Migration!Rights(u)' = {want \in Migration!Catalog : Migration!Grants(fine, want)}
    <2>1. migrated'[u].permissions = fine /\ migrated'[u].roles = migrated[u].roles
        BY DEF names, fine
    <2> QED BY <1>6, <1>7, <2>1 DEF Migration!Rights
<1> QED BY <1>4, <1>8

LEMMA MigrationExpands ==
    ASSUME Migration!MigrationInv, NEW i \in Request, NEW u \in Person, Migration!Expand(i, u),
           UNCHANGED alone
    PROVE  Migration!MigrationInv' /\ Migration!RightsSurviveStep
<1>0. /\ pc \in [Request -> Migration!Steps \cup {"down", "failed"}] /\ hasRoles \in BOOLEAN
      /\ MailsOK /\ DOMAIN found = Request /\ index \in BOOLEAN /\ Migration!RowsOK
      /\ DOMAIN migrated \subseteq Person /\ \A v \in DOMAIN migrated : migrated[v] \in Migration!Row
      /\ \A k \in Request : Migration!StartOK(k)
      /\ i \in alone => MayBeAlone(i)
      /\ \A k \in Request : DOMAIN found[k] \subseteq DOMAIN migrated
      /\ \A k \in Request : \A v \in DOMAIN found[k] : found[k][v] \subseteq Migration!Fine
    BY MigrationFacts DEF Migration!MigrationInv
<1> DEFINE f == [v \in DOMAIN found[i] \ {u} |-> found[i][v]]
<1>1. /\ pc[i] = "expand" /\ u \in DOMAIN found[i] /\ UNCHANGED <<hasRoles, index, pc>>
      /\ migrated' = [migrated EXCEPT ![u].permissions = found[i][u]]
      /\ found' = [found EXCEPT ![i] = f]
    BY DEF Migration!Expand, Migration!Done, Migration!Find
<1>2. /\ DOMAIN f = DOMAIN found[i] \ {u} /\ \A v \in DOMAIN f : f[v] = found[i][v]
    OBVIOUS
<1> HIDE DEF f
<1>3. u \in DOMAIN migrated /\ found[i][u] \subseteq Migration!Fine /\ migrated[u] \in Migration!Row
    BY <1>0, <1>1
<1>4. /\ migrated'[u] = [migrated[u] EXCEPT !.permissions = found[i][u]]
      /\ DOMAIN migrated' = DOMAIN migrated
      /\ \A v \in DOMAIN migrated : v # u => migrated'[v] = migrated[v]
    BY <1>1, <1>3
<1>5. /\ migrated'[u] \in Migration!Row /\ migrated'[u].permissions = found[i][u]
      /\ migrated'[u].roles = migrated[u].roles /\ migrated'[u].mail = migrated[u].mail
    BY <1>3, <1>4 DEF Migration!Row
<1>6. Table(migrated')
    <2>1. migrated' = [v \in DOMAIN migrated' |-> migrated'[v]]
        BY <1>1
    <2> QED BY <1>0, <1>4, <1>5, <2>1, MigrationTable
<1>7. ~hasRoles /\ \A v \in DOMAIN migrated' : v # u => migrated'[v] = migrated[v]
    BY <1>0, <1>1, <1>4 DEF Migration!StartOK
<1>8. ~Migration!NeedsExpansion(migrated'[u].permissions)
    BY <1>3, <1>5, MigrationNames
<1>9. MailsOK'
    <2>1. \A v \in DOMAIN migrated : migrated'[v].mail = migrated[v].mail
        BY <1>4, <1>5
    <2> QED BY <1>0, <1>1, <1>4, <2>1 DEF MailsOK, Migration!Collide
<1>10. Migration!RowsOK'
    BY <1>0, <1>3, <1>4, <1>5, <1>7 DEF Migration!RowsOK
<1>11. DOMAIN found' = Request /\ \A k \in Request : found'[k] = (IF k = i THEN f ELSE found[k])
    BY <1>0, <1>1
<1>12. \A k \in Request : Migration!StartOK(k)'
    <2> SUFFICES ASSUME NEW k \in Request PROVE Migration!StartOK(k)'
        OBVIOUS
    <2>1. Migration!StartOK(k) /\ pc'[k] = pc[k] /\ ~hasRoles'
        BY <1>0, <1>1, <1>7
    <2>2. /\ DOMAIN found'[k] \subseteq DOMAIN migrated'
          /\ \A v \in DOMAIN found[k] \ {u} : v \in DOMAIN found'[k] /\ found'[k][v] = found[k][v]
        BY <1>0, <1>2, <1>4, <1>11
    <2>3. pc[k] = "expand" =>
             \A v \in DOMAIN migrated' : Migration!NeedsExpansion(migrated'[v].permissions) =>
                 /\ v \in DOMAIN found'[k]
                 /\ found'[k][v] = Migration!ExpandLegacyRoles(migrated'[v].permissions)
        BY <1>4, <1>8, <2>1, <2>2 DEF Migration!StartOK
    <2>4. pc[k] \notin {"down", "failed", "columns", "copy", "drop", "list", "expand"} =>
             \A v \in DOMAIN migrated' : ~Migration!NeedsExpansion(migrated'[v].permissions)
        BY <1>4, <1>8, <2>1 DEF Migration!StartOK
    <2> QED BY <2>1, <2>2, <2>3, <2>4 DEF Migration!StartOK
<1>13. Migration!RightsSurviveStep
    <2> SUFFICES ASSUME NEW v \in DOMAIN migrated, Migration!Rights(v)' # Migration!Rights(v)
                 PROVE  ~hasRoles /\ ~Migration!NeedsExpansion(migrated[v].permissions)
        BY DEF Migration!RightsSurviveStep
    <2>1. v = u
        BY <1>4, MigrationSameNames
    <2>2. Migration!NeedsExpansion(migrated[u].permissions) =>
              found[i][u] = Migration!ExpandLegacyRoles(migrated[u].permissions)
        BY <1>0, <1>1, <1>3 DEF Migration!StartOK
    <2> QED BY <1>0, <1>3, <1>5, <1>7, <2>1, <2>2, MigrationExpandedRights
<1> DEFINE to == "expand"
<1>14. /\ to \in Migration!Steps \cup {"down", "failed"} /\ pc' = [pc EXCEPT ![i] = to]
       /\ pc[i] \notin {"down", "failed"} /\ (i \in alone => MayBeAlone(i)')
    BY <1>0, <1>1 DEF MayBeAlone, Migration!Steps
<1>15. /\ DOMAIN f \subseteq DOMAIN migrated' /\ \A v \in DOMAIN f : f[v] \subseteq Migration!Fine
       /\ hasRoles' \in BOOLEAN /\ index' \in BOOLEAN
    BY <1>0, <1>1, <1>2, <1>4
<1> HIDE DEF to
<1>16. Migration!MigrationInv'
    BY <1>6, <1>9, <1>10, <1>11, <1>12, <1>14, <1>15, MigrationMoves
<1> QED BY <1>13, <1>16

\* A step of a start that may change the addresses and the types of rows, and nothing else.
LEMMA MigrationTouches ==
    ASSUME Migration!MigrationInv, NEW i \in Request, NEW to \in Migration!Steps, NEW f,
           pc[i] \notin {"down", "failed"}, pc' = [pc EXCEPT ![i] = to],
           DOMAIN found' = Request, \A k \in Request : found'[k] = (IF k = i THEN f ELSE found[k]),
           UNCHANGED <<hasRoles, index, alone>>,
           DOMAIN f \subseteq DOMAIN migrated, \A u \in DOMAIN f : f[u] \subseteq Migration!Fine,
           migrated' = [u \in DOMAIN migrated |-> migrated'[u]], MailsOK',
           \A u \in DOMAIN migrated :
                /\ migrated'[u] \in Migration!Row
                /\ migrated'[u].permissions = migrated[u].permissions
                /\ migrated'[u].roles = migrated[u].roles,
           Migration!StartOK(i)', i \in alone => MayBeAlone(i)'
    PROVE  Migration!MigrationInv' /\ Migration!RightsSurviveStep
<1>1. /\ DOMAIN migrated \subseteq Person /\ hasRoles \in BOOLEAN /\ index \in BOOLEAN
      /\ pc \in [Request -> Migration!Steps \cup {"down", "failed"}] /\ DOMAIN found = Request
    BY MigrationFacts
<1>2. /\ DOMAIN migrated' = DOMAIN migrated /\ Table(migrated')
    <2>1. DOMAIN migrated' = DOMAIN migrated
        OBVIOUS
    <2> QED BY <1>1, <2>1, MigrationTable
<1>3. /\ Migration!RowsOK' /\ Migration!RightsSurviveStep
      /\ \A k \in Request : pc'[k] = pc[k] /\ found'[k] = found[k] => Migration!StartOK(k)'
    BY <1>2, MigrationNamesKept
<1>4. \A k \in Request : Migration!StartOK(k)'
    BY <1>1, <1>3
<1>5. hasRoles' \in BOOLEAN /\ index' \in BOOLEAN /\ DOMAIN f \subseteq DOMAIN migrated'
    BY <1>1, <1>2
<1> QED BY <1>2, <1>3, <1>4, <1>5, MigrationMoves

LEMMA MigrationLowers ==
    ASSUME Migration!MigrationInv, NEW i \in Request, NEW u \in Person, Migration!Lower(i, u),
           UNCHANGED alone
    PROVE  Migration!MigrationInv' /\ Migration!RightsSurviveStep
<1>0. /\ pc \in [Request -> Migration!Steps \cup {"down", "failed"}]
      /\ MailsOK /\ DOMAIN found = Request /\ index \in BOOLEAN /\ Migration!StartOK(i)
      /\ Table(migrated) /\ \A v \in DOMAIN migrated : migrated[v] \in Migration!Row
      /\ DOMAIN found[i] \subseteq DOMAIN migrated
      /\ \A v \in DOMAIN found[i] : found[i][v] \subseteq Migration!Fine
    BY MigrationFacts
<1> DEFINE f == [v \in DOMAIN found[i] \ {u} |-> found[i][v]]
<1>1. /\ pc[i] = "lower" /\ u \in DOMAIN found[i] /\ UNCHANGED <<hasRoles, index, pc>>
      /\ Migration!LowerRow(u) /\ found' = [found EXCEPT ![i] = f]
    BY DEF Migration!Lower, Migration!Done, Migration!Find
<1>2. /\ DOMAIN f \subseteq DOMAIN found[i] /\ \A v \in DOMAIN f : f[v] = found[i][v]
    OBVIOUS
<1> HIDE DEF f
<1>3. /\ migrated' = [v \in DOMAIN migrated |-> migrated'[v]]
      /\ \A v \in DOMAIN migrated :
            /\ migrated'[v] \in Migration!Row
            /\ migrated'[v].permissions = migrated[v].permissions
            /\ migrated'[v].roles = migrated[v].roles
            /\ migrated'[v].mail.address = migrated[v].mail.address
            /\ migrated'[v].mail # migrated[v].mail =>
                 /\ v = u /\ migrated'[v].mail.lower = TRUE
                 /\ ~\E w \in DOMAIN migrated \ {u} : Migration!Collide(u, w) /\ migrated[w].mail.lower
    <2>1. CASE migrated' = migrated
        BY <1>0, <2>1, MigrationTable
    <2>2. CASE /\ migrated' = [migrated EXCEPT ![u].mail.lower = TRUE]
               /\ ~\E w \in DOMAIN migrated \ {u} : Migration!Collide(u, w) /\ migrated[w].mail.lower
        <3>1. /\ migrated' = [v \in DOMAIN migrated |-> migrated'[v]]
              /\ \A v \in DOMAIN migrated : v # u => migrated'[v] = migrated[v]
            BY <2>2
        <3>2. /\ migrated'[u] = [migrated[u] EXCEPT !.mail.lower = TRUE] /\ migrated[u] \in Migration!Row
            BY <1>0, <1>1, <2>2
        <3>3. /\ migrated'[u] \in Migration!Row
              /\ migrated'[u].permissions = migrated[u].permissions
              /\ migrated'[u].roles = migrated[u].roles
              /\ migrated'[u].mail.address = migrated[u].mail.address /\ migrated'[u].mail.lower = TRUE
            BY <3>2 DEF Migration!Row, Migration!Mail
        <3> QED BY <1>0, <2>2, <3>1, <3>3
    <2> QED BY <1>1, <2>1, <2>2 DEF Migration!LowerRow
<1>4. MailsOK'
    <2> SUFFICES ASSUME NEW v \in DOMAIN migrated, NEW w \in DOMAIN migrated, v # w
                 PROVE  migrated'[v].mail # migrated'[w].mail /\ (index => ~Migration!Collide(v, w)')
        BY <1>1, <1>3 DEF MailsOK
    <2>1. index => ~Migration!Collide(v, w)'
        BY <1>0, <1>3 DEF MailsOK, Migration!Collide
    <2>2. CASE migrated'[v].mail = migrated[v].mail /\ migrated'[w].mail = migrated[w].mail
        BY <1>0, <2>1, <2>2 DEF MailsOK
    <2>3. ASSUME migrated'[v].mail # migrated[v].mail
          PROVE  migrated'[v].mail # migrated'[w].mail
        <3>1. v = u /\ w # u /\ migrated'[v].mail.lower = TRUE
            BY <1>3, <2>3
        <3>2. migrated'[w].mail = migrated[w].mail
            BY <1>3, <3>1
        <3> QED BY <1>3, <2>3, <3>1, <3>2 DEF Migration!Collide
    <2>4. ASSUME migrated'[w].mail # migrated[w].mail
          PROVE  migrated'[v].mail # migrated'[w].mail
        <3>1. w = u /\ v # u /\ migrated'[w].mail.lower = TRUE
            BY <1>3, <2>4
        <3>2. migrated'[v].mail = migrated[v].mail
            BY <1>3, <3>1
        <3> QED BY <1>3, <2>4, <3>1, <3>2 DEF Migration!Collide
    <2> QED BY <2>1, <2>2, <2>3, <2>4
<1>5. DOMAIN found' = Request /\ \A k \in Request : found'[k] = (IF k = i THEN f ELSE found[k])
    BY <1>0, <1>1
<1>6. Migration!StartOK(i)'
    <2>1. pc'[i] = "lower" /\ found'[i] = f /\ DOMAIN migrated' = DOMAIN migrated
        BY <1>1, <1>3, <1>5
    <2> QED BY <1>0, <1>1, <1>2, <1>3, <2>1 DEF Migration!StartOK
<1> DEFINE to == "lower"
<1>7. /\ to \in Migration!Steps /\ pc' = [pc EXCEPT ![i] = to]
      /\ pc[i] \notin {"down", "failed"} /\ MayBeAlone(i)'
    BY <1>0, <1>1 DEF MayBeAlone, Migration!Steps
<1>8. DOMAIN f \subseteq DOMAIN migrated /\ \A v \in DOMAIN f : f[v] \subseteq Migration!Fine
    BY <1>0, <1>2
<1> HIDE DEF to
<1>9. /\ UNCHANGED <<hasRoles, index, alone>>
      /\ migrated' = [v \in DOMAIN migrated |-> migrated'[v]]
      /\ \A v \in DOMAIN migrated :
            /\ migrated'[v] \in Migration!Row
            /\ migrated'[v].permissions = migrated[v].permissions
            /\ migrated'[v].roles = migrated[v].roles
    BY <1>1, <1>3
<1> QED BY <1>4, <1>5, <1>6, <1>7, <1>8, <1>9, MigrationTouches

LEMMA MigrationTypes ==
    ASSUME Migration!MigrationInv, NEW i \in Request, UNCHANGED alone,
           Migration!Admins(i) \/ Migration!Managers(i) \/ Migration!Services(i)
    PROVE  Migration!MigrationInv' /\ Migration!RightsSurviveStep
<1>0. /\ pc \in [Request -> Migration!Steps \cup {"down", "failed"}]
      /\ MailsOK /\ DOMAIN found = Request /\ index \in BOOLEAN /\ Migration!StartOK(i)
      /\ \A v \in DOMAIN migrated : migrated[v] \in Migration!Row
      /\ DOMAIN found[i] \subseteq DOMAIN migrated
      /\ \A v \in DOMAIN found[i] : found[i][v] \subseteq Migration!Fine
    BY MigrationFacts
<1>1. ASSUME NEW from \in {"admins", "managers", "services"},
             NEW to \in {"managers", "services", "serving"}, Migration!Go(i, from, to),
             NEW wants, NEW type \in Migration!AccountType, Migration!SetType(wants, type),
             UNCHANGED <<hasRoles, index, found>>
      PROVE  Migration!MigrationInv' /\ Migration!RightsSurviveStep
    <2>1. /\ pc[i] = from /\ pc' = [pc EXCEPT ![i] = to] /\ pc'[i] = to /\ to \in Migration!Steps
        BY <1>0, <1>1 DEF Migration!Go, Migration!Steps
    <2>2. /\ migrated' = [u \in DOMAIN migrated |-> migrated'[u]]
          /\ \A u \in DOMAIN migrated : \/ migrated'[u] = migrated[u]
                                        \/ migrated'[u] = [migrated[u] EXCEPT !.type = type]
        BY <1>1 DEF Migration!SetType
    <2>3. \A u \in DOMAIN migrated :
            /\ migrated'[u] \in Migration!Row
            /\ migrated'[u].permissions = migrated[u].permissions
            /\ migrated'[u].roles = migrated[u].roles
            /\ migrated'[u].mail = migrated[u].mail
        <3> TAKE u \in DOMAIN migrated
        <3>1. migrated[u] \in Migration!Row
            BY <1>0
        <3> QED BY <1>1, <2>2, <3>1 DEF Migration!Row
    <2>4. MailsOK'
        BY <1>0, <1>1, <2>2, <2>3 DEF MailsOK, Migration!Collide
    <2>5. Migration!StartOK(i)' /\ MayBeAlone(i)'
        BY <1>0, <1>1, <2>1, <2>2, <2>3 DEF Migration!StartOK, MayBeAlone
    <2> DEFINE f == found[i]
    <2>6. /\ \A k \in Request : found'[k] = (IF k = i THEN f ELSE found[k])
          /\ DOMAIN f \subseteq DOMAIN migrated /\ \A v \in DOMAIN f : f[v] \subseteq Migration!Fine
          /\ DOMAIN found' = Request /\ UNCHANGED <<hasRoles, index, alone>>
          /\ pc[i] \notin {"down", "failed"}
        BY <1>0, <1>1, <2>1
    <2> HIDE DEF f
    <2> QED BY <2>1, <2>2, <2>3, <2>4, <2>5, <2>6, MigrationTouches
<1>2. {"manager", "service"} \subseteq Migration!AccountType
    BY DEF Migration!AccountType
<1>3. CASE Migration!Admins(i)
    <2> DEFINE wants == [u \in DOMAIN migrated |-> migrated[u].type = "admin"]
    <2>1. /\ Migration!Go(i, "admins", "managers") /\ Migration!SetType(wants, "manager")
          /\ UNCHANGED <<hasRoles, index, found>>
        BY <1>3 DEF Migration!Admins
    <2> HIDE DEF wants
    <2> QED BY <1>1, <1>2, <2>1
<1>4. ASSUME NEW names, NEW type, Migration!Backfill(names, type)
      PROVE  \E wants : Migration!SetType(wants, type)
    BY <1>4 DEF Migration!Backfill
<1>5. CASE Migration!Managers(i)
    <2>1. PICK wants : Migration!SetType(wants, "manager")
        BY <1>4, <1>5 DEF Migration!Managers
    <2>2. Migration!Go(i, "managers", "services") /\ UNCHANGED <<hasRoles, index, found>>
        BY <1>5 DEF Migration!Managers
    <2> QED BY <1>1, <1>2, <2>1, <2>2
<1>6. CASE Migration!Services(i)
    <2>1. PICK wants : Migration!SetType(wants, "service")
        BY <1>4, <1>6 DEF Migration!Services
    <2>2. Migration!Go(i, "services", "serving") /\ UNCHANGED <<hasRoles, index, found>>
        BY <1>6 DEF Migration!Services
    <2> QED BY <1>1, <1>2, <2>1, <2>2
<1> QED BY <1>3, <1>5, <1>6

LEMMA MigrationServes ==
    ASSUME Migration!MigrationInv, Migration!Serving
    PROVE  /\ ~hasRoles
           /\ \A u \in DOMAIN migrated : ~Migration!NeedsExpansion(migrated[u].permissions)
<1>1. PICK i \in Request : pc[i] = "serving"
    BY DEF Migration!Serving
<1>2. Migration!StartOK(i)
    BY MigrationFacts
<1> QED BY <1>1, <1>2 DEF Migration!StartOK

\* A request that is served writes one row, and names of permissions.
LEMMA MigrationWrites ==
    ASSUME Migration!MigrationInv, Migration!Serving, NEW u \in Person, NEW row \in Migration!Row,
           row.permissions \subseteq Migration!Fine, row.roles = {},
           migrated' = [v \in DOMAIN migrated \cup {u} |-> IF v = u THEN row ELSE migrated[v]],
           MailsOK', UNCHANGED <<hasRoles, index, pc, found, alone>>
    PROVE  Migration!MigrationInv' /\ Migration!RightsSurviveStep
<1>1. /\ ~hasRoles
      /\ \A v \in DOMAIN migrated : ~Migration!NeedsExpansion(migrated[v].permissions)
    BY MigrationServes
<1>2. /\ pc \in [Request -> Migration!Steps \cup {"down", "failed"}] /\ index \in BOOLEAN
      /\ hasRoles \in BOOLEAN /\ DOMAIN found = Request /\ DOMAIN migrated \subseteq Person
      /\ \A v \in DOMAIN migrated : migrated[v] \in Migration!Row
      /\ \A k \in Request : DOMAIN found[k] \subseteq DOMAIN migrated
      /\ \A k \in Request : \A v \in DOMAIN found[k] : found[k][v] \subseteq Migration!Fine
      /\ \A k \in Request : Migration!StartOK(k)
    BY MigrationFacts
<1>3. /\ DOMAIN migrated' = DOMAIN migrated \cup {u} /\ migrated' = [v \in DOMAIN migrated' |-> migrated'[v]]
      /\ \A v \in DOMAIN migrated' : migrated'[v] \in Migration!Row
      /\ migrated'[u] = row /\ \A v \in DOMAIN migrated : v # u => migrated'[v] = migrated[v]
    BY <1>2
<1>4. Table(migrated')
    BY <1>2, <1>3, MigrationTable
<1>5. \A v \in DOMAIN migrated' : ~Migration!NeedsExpansion(migrated'[v].permissions)
    BY <1>1, <1>3, MigrationNames
<1>6. Migration!RowsOK'
    <2>1. Migration!RowsOK
        BY DEF Migration!MigrationInv
    <2> QED BY <1>1, <1>3, <2>1 DEF Migration!RowsOK
<1>7. \A k \in Request : Migration!StartOK(k)'
    <2> SUFFICES ASSUME NEW k \in Request PROVE Migration!StartOK(k)'
        OBVIOUS
    <2>1. Migration!StartOK(k) /\ DOMAIN found'[k] \subseteq DOMAIN migrated' /\ pc'[k] = pc[k]
          /\ ~hasRoles'
        BY <1>1, <1>2, <1>3
    <2> QED BY <1>5, <2>1 DEF Migration!StartOK
<1>8. Migration!RightsSurviveStep
    BY <1>1 DEF Migration!RightsSurviveStep
<1>9. PICK i \in Request : pc[i] = "serving"
    BY DEF Migration!Serving
<1> DEFINE to == "serving"
           f == found[i]
<1>10. /\ to \in Migration!Steps \cup {"down", "failed"} /\ pc' = [pc EXCEPT ![i] = to]
       /\ pc[i] \notin {"down", "failed"} /\ (i \in alone => MayBeAlone(i)')
       /\ alone' = alone
    BY <1>2, <1>9 DEF MayBeAlone, Migration!Steps
<1>11. /\ \A k \in Request : found'[k] = (IF k = i THEN f ELSE found[k])
       /\ DOMAIN found' = Request /\ DOMAIN f \subseteq DOMAIN migrated'
       /\ \A v \in DOMAIN f : f[v] \subseteq Migration!Fine
       /\ hasRoles' \in BOOLEAN /\ index' \in BOOLEAN
    BY <1>1, <1>2, <1>3
<1> HIDE DEF to, f
<1>12. Migration!MigrationInv'
    <2>1. Migration!MigrationInv /\ MailsOK'
        OBVIOUS
    <2> QED BY ONLY <1>4, <1>6, <1>7, <1>9, <1>10, <1>11, <2>1, MigrationMoves
<1> QED BY <1>8, <1>12

LEMMA MigrationRequests ==
    ASSUME Migration!MigrationInv,
           \/ \E u \in Person, given \in Migration!Given, type \in {"customer", "manager"} :
                    Migration!SetUserPermissions(u, given, type)
           \/ \E u \in Person, address \in Thing : Migration!Register(u, address)
    PROVE  Migration!MigrationInv' /\ Migration!RightsSurviveStep
<1>1. /\ MailsOK /\ DOMAIN migrated \subseteq Person /\ Table(migrated)
      /\ \A v \in DOMAIN migrated : migrated[v] \in Migration!Row
    BY MigrationFacts
<1>2. ASSUME NEW u \in Person, NEW given \in Migration!Given, NEW type \in {"customer", "manager"},
             Migration!SetUserPermissions(u, given, type)
      PROVE  Migration!MigrationInv' /\ Migration!RightsSurviveStep
    <2> DEFINE row == [migrated[u] EXCEPT !.permissions = given, !.type = type]
    <2>1. /\ Migration!Serving /\ u \in DOMAIN migrated
          /\ migrated' = [migrated EXCEPT ![u].permissions = given, ![u].type = type]
          /\ UNCHANGED <<hasRoles, index, pc, found, alone>>
        BY <1>2 DEF Migration!SetUserPermissions
    <2>2. migrated' = [v \in DOMAIN migrated \cup {u} |-> IF v = u THEN row ELSE migrated[v]]
        <3>1. /\ migrated = [v \in DOMAIN migrated |-> migrated[v]] /\ migrated[u] \in Migration!Row
            BY <1>1, <2>1, MigrationTable
        <3>2. migrated[u] = [roles |-> migrated[u].roles, permissions |-> migrated[u].permissions,
                             type |-> migrated[u].type, mail |-> migrated[u].mail]
            BY <3>1 DEF Migration!Row
        <3> QED BY <2>1, <3>1, <3>2
    <2>3. given \subseteq Migration!Fine
        BY DEF Migration!Given, Migration!Fine, Migration!Catalog, Migration!Wildcard
    <2>4. /\ row \in Migration!Row /\ row.permissions = given /\ row.roles = migrated[u].roles
          /\ row.mail = migrated[u].mail
        <3>1. migrated[u] \in Migration!Row /\ type \in Migration!AccountType
            BY <1>1, <2>1 DEF Migration!AccountType
        <3> QED BY <2>3, <3>1 DEF Migration!Row
    <2> HIDE DEF row
    <2>5. row.roles = {}
        BY <2>1, <2>4, MigrationServes DEF Migration!MigrationInv, Migration!RowsOK
    <2>6. MailsOK'
        BY <1>1, <2>1, <2>2, <2>4 DEF MailsOK, Migration!Collide
    <2> QED BY <2>1, <2>2, <2>3, <2>4, <2>5, <2>6, MigrationWrites
<1>3. ASSUME NEW u \in Person, NEW address \in Thing, Migration!Register(u, address)
      PROVE  Migration!MigrationInv' /\ Migration!RightsSurviveStep
    <2> DEFINE row == [roles |-> {}, permissions |-> {}, type |-> "customer",
                       mail |-> [address |-> address, lower |-> TRUE]]
    <2>1. /\ Migration!Serving /\ u \notin DOMAIN migrated
          /\ ~\E v \in DOMAIN migrated : /\ migrated[v].mail.address = address
                                         /\ index \/ migrated[v].mail.lower
          /\ migrated' = [v \in DOMAIN migrated \cup {u} |-> IF v # u THEN migrated[v] ELSE row]
          /\ UNCHANGED <<hasRoles, index, pc, found, alone>>
        BY <1>3 DEF Migration!Register
    <2>2. migrated' = [v \in DOMAIN migrated \cup {u} |-> IF v = u THEN row ELSE migrated[v]]
        BY <2>1
    <2>3. /\ row \in Migration!Row /\ row.permissions = {} /\ row.roles = {}
          /\ row.mail = [address |-> address, lower |-> TRUE]
        BY DEF Migration!Row, Migration!Mail, Migration!AccountType
    <2> HIDE DEF row
    <2>4. MailsOK'
        <3>1. \A v \in DOMAIN migrated :
                /\ migrated'[v] = migrated[v] /\ migrated[v].mail # row.mail
                /\ index => migrated[v].mail.address # row.mail.address
            <4>1. \A v \in DOMAIN migrated : migrated'[v] = migrated[v]
                BY <2>1
            <4>2. row.mail.address = address /\ row.mail.lower = TRUE
                BY <2>3
            <4> QED BY <2>1, <4>1, <4>2
        <3>2. DOMAIN migrated' = DOMAIN migrated \cup {u} /\ migrated'[u] = row /\ index' = index
            BY <2>1, <2>2
        <3> QED BY <1>1, <3>1, <3>2 DEF MailsOK, Migration!Collide
    <2> QED BY <2>1, <2>2, <2>3, <2>4, MigrationWrites
<1> QED BY <1>2, <1>3

LEMMA MigrationStep ==
    ASSUME Migration!MigrationInv, Migration!Next
    PROVE  Migration!MigrationInv' /\ Migration!RightsSurviveStep
<1>1. ASSUME NEW i \in Request, Migration!Start(i)
      PROVE  Migration!MigrationInv' /\ Migration!RightsSurviveStep
    BY <1>1, MigrationBegin
<1>2. ASSUME NEW i \in Request, Migration!Migrate(i), UNCHANGED alone
      PROVE  Migration!MigrationInv' /\ Migration!RightsSurviveStep
    <2>1. CASE Migration!Stop(i)
        BY <1>2, <2>1, MigrationStop
    <2>2. CASE Migration!Columns(i) \/ Migration!Expanded(i) \/ Migration!Lowered(i)
                 \/ Migration!CheckCollisions(i) \/ Migration!CreateIndex(i)
        BY <1>2, <2>2, MigrationColumns
    <2>3. CASE Migration!Copy(i)
        BY <1>2, <2>3, MigrationCopies
    <2>4. CASE Migration!Drop(i)
        BY <1>2, <2>4, MigrationDrops
    <2>5. CASE Migration!List(i) \/ Migration!Mails(i)
        BY <1>2, <2>5, MigrationFinds
    <2>6. ASSUME NEW u \in Person, Migration!Expand(i, u)
          PROVE  Migration!MigrationInv' /\ Migration!RightsSurviveStep
        BY <1>2, <2>6, MigrationExpands
    <2>7. ASSUME NEW u \in Person, Migration!Lower(i, u)
          PROVE  Migration!MigrationInv' /\ Migration!RightsSurviveStep
        BY <1>2, <2>7, MigrationLowers
    <2>8. CASE Migration!Admins(i) \/ Migration!Managers(i) \/ Migration!Services(i)
        BY <1>2, <2>8, MigrationTypes
    <2> QED BY <1>2, <2>1, <2>2, <2>3, <2>4, <2>5, <2>6, <2>7, <2>8 DEF Migration!Migrate
<1> QED BY <1>1, <1>2, MigrationRequests DEF Migration!Next

-----------------------------------------------------------------------------
(* The chats that are told of orders *)

ChatRow == [chat : Chat, user : User \cup {"unknown"},
            status : {"pending", "accepted", "rejected"}, alertOrder : BOOLEAN]

\* A table of chats, with its unique indexes.
ChatTable(s) ==
    /\ s \in Seq(ChatRow)
    /\ \A i, j \in 1..Len(s) :
          i # j => s[i].chat # s[j].chat /\ (s[i].user = s[j].user => s[i].user = "unknown")

LEMMA ChatAdded ==
    ASSUME NEW s, ChatTable(s), NEW row \in ChatRow,
           \A i \in 1..Len(s) :
                s[i].chat # row.chat /\ (s[i].user = row.user => s[i].user = "unknown")
    PROVE  /\ ChatTable(<<row>> \o s) /\ Len(<<row>> \o s) = Len(s) + 1
           /\ (<<row>> \o s)[1] = row
           /\ \A i \in 1..Len(s) : (<<row>> \o s)[i + 1] = s[i]
<1> DEFINE t == <<row>> \o s
<1>1. s \in Seq(ChatRow) /\ Len(s) \in Nat
    BY DEF ChatTable
<1>2. /\ t \in Seq(ChatRow) /\ Len(t) = Len(s) + 1 /\ t[1] = row
      /\ \A i \in 2..Len(t) : t[i] = s[i - 1]
    BY <1>1
<1> HIDE DEF t
<1>3. ASSUME NEW i \in 1..Len(t), NEW j \in 1..Len(t), i # j
      PROVE  t[i].chat # t[j].chat /\ (t[i].user = t[j].user => t[i].user = "unknown")
    <2>1. CASE i = 1
        <3>1. j - 1 \in 1..Len(s) /\ t[j] = s[j - 1]
            BY <1>1, <1>2, <1>3, <2>1
        <3> QED BY <1>2, <2>1, <3>1
    <2>2. CASE j = 1
        <3>1. i - 1 \in 1..Len(s) /\ t[i] = s[i - 1]
            BY <1>1, <1>2, <1>3, <2>2
        <3> QED BY <1>2, <2>2, <3>1
    <2>3. CASE i # 1 /\ j # 1
        <3>1. /\ i - 1 \in 1..Len(s) /\ j - 1 \in 1..Len(s) /\ i - 1 # j - 1
              /\ t[i] = s[i - 1] /\ t[j] = s[j - 1]
            BY <1>1, <1>2, <1>3, <2>3
        <3> QED BY <3>1 DEF ChatTable
    <2> QED BY <2>1, <2>2, <2>3
<1>4. \A i \in 1..Len(s) : t[i + 1] = s[i]
    BY <1>1, <1>2
<1> QED BY <1>2, <1>3, <1>4 DEF ChatTable, t

LEMMA ChatEdited ==
    ASSUME NEW s, ChatTable(s), NEW row \in ChatRow, NEW t,
           t = [i \in 1..Len(s) |-> IF s[i].chat = row.chat THEN row ELSE s[i]],
           row.user = "unknown" \/ \A i \in 1..Len(s) : s[i].user = row.user => s[i].chat = row.chat
    PROVE  ChatTable(t)
<1>1. s \in Seq(ChatRow) /\ Len(s) \in Nat /\ \A i \in 1..Len(s) : s[i] \in ChatRow
    BY DEF ChatTable
<1>2. t \in Seq(ChatRow) /\ Len(t) = Len(s)
    BY <1>1
<1>3. ASSUME NEW i \in 1..Len(t), NEW j \in 1..Len(t), i # j
      PROVE  t[i].chat # t[j].chat /\ (t[i].user = t[j].user => t[i].user = "unknown")
    <2>1. /\ i \in 1..Len(s) /\ j \in 1..Len(s)
          /\ s[i].chat # s[j].chat /\ (s[i].user = s[j].user => s[i].user = "unknown")
        BY <1>2, <1>3 DEF ChatTable
    <2>2. /\ t[i] = IF s[i].chat = row.chat THEN row ELSE s[i]
          /\ t[j] = IF s[j].chat = row.chat THEN row ELSE s[j]
        BY <2>1
    <2> QED BY <2>1, <2>2
<1> QED BY <1>2, <1>3 DEF ChatTable

LEMMA ChatRemoved ==
    ASSUME NEW s, ChatTable(s), NEW n \in 1..Len(s)
    PROVE  ChatTable(SubSeq(s, 1, n - 1) \o SubSeq(s, n + 1, Len(s)))
<1> DEFINE a == SubSeq(s, 1, n - 1)
           b == SubSeq(s, n + 1, Len(s))
           t == a \o b
<1>0. s \in Seq(ChatRow) /\ Len(s) \in Nat /\ n \in Int /\ 1 <= n /\ n <= Len(s)
    BY DEF ChatTable
<1>1. /\ a \in Seq(ChatRow) /\ Len(a) = n - 1 /\ \A i \in 1..(n - 1) : a[i] = s[i]
      /\ b \in Seq(ChatRow) /\ Len(b) = Len(s) - n /\ \A i \in 1..(Len(s) - n) : b[i] = s[i + n]
    BY <1>0
<1> HIDE DEF a, b
<1>2. Len(a) + Len(b) = Len(s) - 1
    BY <1>0, <1>1
<1>3. /\ t \in Seq(ChatRow) /\ Len(t) = Len(a) + Len(b)
      /\ \A i \in 1..Len(a) + Len(b) : t[i] = IF i <= Len(a) THEN a[i] ELSE b[i - Len(a)]
    BY <1>1, ConcatProperties
<1> HIDE DEF t
<1>4. /\ t \in Seq(ChatRow) /\ Len(t) = Len(s) - 1
      /\ \A i \in 1..(Len(s) - 1) : t[i] = IF i <= n - 1 THEN a[i] ELSE b[i - (n - 1)]
    BY <1>1, <1>2, <1>3
<1>5. ASSUME NEW i \in 1..Len(t)
      PROVE  t[i] = s[IF i < n THEN i ELSE i + 1]
    <2>1. i \in 1..(Len(s) - 1)
        BY <1>4
    <2>2. CASE i < n
        <3>1. i \in 1..(n - 1) /\ i <= n - 1
            BY <1>0, <2>1, <2>2
        <3> QED BY <1>1, <1>4, <2>1, <2>2, <3>1
    <2>3. CASE ~(i < n)
        <3> DEFINE k == i - (n - 1)
        <3>1. ~(i <= n - 1) /\ k \in 1..(Len(s) - n) /\ k + n = i + 1
            BY <1>0, <2>1, <2>3
        <3>2. t[i] = b[k]
            BY <1>4, <2>1, <3>1
        <3> HIDE DEF k
        <3>3. b[k] = s[k + n]
            BY <1>1, <3>1
        <3> QED BY <2>3, <3>1, <3>2, <3>3
    <2> QED BY <2>2, <2>3
<1>6. ASSUME NEW i \in 1..Len(t), NEW j \in 1..Len(t), i # j
      PROVE  t[i].chat # t[j].chat /\ (t[i].user = t[j].user => t[i].user = "unknown")
    <2> DEFINE k == IF i < n THEN i ELSE i + 1
               m == IF j < n THEN j ELSE j + 1
    <2>1. i \in 1..(Len(s) - 1) /\ j \in 1..(Len(s) - 1)
        BY <1>4, <1>6
    <2>2. k \in 1..Len(s) /\ m \in 1..Len(s) /\ k # m
        BY <1>0, <1>6, <2>1
    <2>3. t[i] = s[k] /\ t[j] = s[m]
        BY <1>5, <1>6
    <2> HIDE DEF k, m
    <2> QED BY <2>2, <2>3 DEF ChatTable
<1> QED BY <1>4, <1>6 DEF ChatTable, t, a, b

LEMMA AlertsTable == Alerts!TableOK <=> ChatTable(subs)
BY DEF Alerts!TableOK, ChatTable, Alerts!Row, ChatRow

LEMMA AlertsRows ==
    ASSUME ChatTable(subs)
    PROVE  /\ Len(subs) \in Nat /\ \A i \in 1..Len(subs) : subs[i] \in ChatRow
           /\ Alerts!Rows = {subs[i] : i \in 1..Len(subs)}
BY DEF ChatTable, Alerts!Rows, Alerts!Range

LEMMA AlertsInsert ==
    ASSUME ChatTable(subs), NEW c \in Chat, Alerts!Insert(c)
    PROVE  ChatTable(subs') /\ Alerts!Accepted' = Alerts!Accepted
<1> DEFINE row == [chat |-> c, user |-> SentBy[c], status |-> "pending", alertOrder |-> FALSE]
<1>1. row \in ChatRow /\ row.chat = c /\ row.user = SentBy[c] /\ row.status = "pending"
    BY Assumptions DEF TelegramBot!SubscriptionsAssumption, ChatRow
<1>2. subs' = <<row>> \o subs /\ Alerts!ByChat(c) = {} /\ Alerts!ByUser(SentBy[c]) = {}
    BY DEF Alerts!Insert, Alerts!Sub
<1> HIDE DEF row
<1>3. \A i \in 1..Len(subs) : subs[i].chat # c /\ subs[i].user # SentBy[c]
    BY <1>2, AlertsRows DEF Alerts!ByChat, Alerts!ByUser
<1>4. /\ ChatTable(subs') /\ Len(subs') = Len(subs) + 1 /\ subs'[1] = row
      /\ \A i \in 1..Len(subs) : subs'[i + 1] = subs[i]
    BY <1>1, <1>2, <1>3, ChatAdded
<1>5. Len(subs) \in Nat
    BY DEF ChatTable
<1>6. Alerts!Rows' = {subs'[i] : i \in 1..Len(subs')}
    <2>1. DOMAIN subs' = 1..Len(subs')
        BY <1>4 DEF ChatTable
    <2> QED BY <2>1 DEF Alerts!Rows, Alerts!Range
<1>7. Alerts!Rows' = Alerts!Rows \cup {row}
    <2>1. \A i \in 1..Len(subs) : i + 1 \in 1..Len(subs')
        BY <1>4, <1>5
    <2>2. \A i \in 1..Len(subs') : i = 1 \/ (i - 1 \in 1..Len(subs) /\ (i - 1) + 1 = i)
        BY <1>4, <1>5
    <2>3. Alerts!Rows \cup {row} \subseteq Alerts!Rows'
        <3>1. 1 \in 1..Len(subs')
            BY <1>4, <1>5
        <3> QED BY <1>4, <1>6, <2>1, <3>1, AlertsRows
    <2>4. ASSUME NEW i \in 1..Len(subs')
          PROVE  subs'[i] \in Alerts!Rows \cup {row}
        <3>1. CASE i = 1
            BY <1>4, <3>1
        <3>2. CASE i # 1
            <4> DEFINE j == i - 1
            <4>1. j \in 1..Len(subs) /\ j + 1 = i
                BY <2>2, <2>4, <3>2
            <4> HIDE DEF j
            <4>2. subs'[j + 1] = subs[j]
                BY <1>4, <4>1
            <4> QED BY <4>1, <4>2, AlertsRows
        <3> QED BY <3>1, <3>2
    <2> QED BY <1>6, <2>3, <2>4
<1> QED BY <1>1, <1>4, <1>7 DEF Alerts!Accepted

LEMMA AlertsManage ==
    ASSUME ChatTable(subs), Alerts!Manage
    PROVE  ChatTable(subs')
<1>0. /\ Len(subs) \in Nat /\ \A i \in 1..Len(subs) : subs[i] \in ChatRow
      /\ Alerts!Rows = {subs[i] : i \in 1..Len(subs)}
    BY AlertsRows
<1>1. ASSUME NEW c \in Chat, Alerts!ByChat(c) # {}
      PROVE  \E i \in 1..Len(subs) : Alerts!RowOf(c) = subs[i] /\ subs[i].chat = c
    <2>1. Alerts!RowOf(c) \in Alerts!ByChat(c)
        BY <1>1 DEF Alerts!RowOf
    <2> QED BY <1>0, <2>1 DEF Alerts!ByChat
\* A row that keeps the user of its chat.
<1>2. ASSUME NEW c \in Chat, NEW status \in {"pending", "accepted", "rejected"}, NEW a \in BOOLEAN,
             Alerts!ByChat(c) # {},
             subs' = Alerts!Edit(c, Alerts!Sub(c, Alerts!RowOf(c).user, status, a))
      PROVE  ChatTable(subs')
    <2> DEFINE row == Alerts!Sub(c, Alerts!RowOf(c).user, status, a)
    <2>1. PICK n \in 1..Len(subs) : Alerts!RowOf(c) = subs[n] /\ subs[n].chat = c
        BY <1>1, <1>2
    <2>2. row \in ChatRow /\ row.chat = c /\ row.user = subs[n].user
        BY <1>0, <2>1 DEF Alerts!Sub, ChatRow
    <2> HIDE DEF row
    <2>3. subs' = [i \in 1..Len(subs) |-> IF subs[i].chat = row.chat THEN row ELSE subs[i]]
        BY <1>2, <2>2 DEF row, Alerts!Edit
    <2>4. row.user = "unknown" \/ \A i \in 1..Len(subs) : subs[i].user = row.user => subs[i].chat = row.chat
        BY <2>1, <2>2 DEF ChatTable
    <2> QED BY <2>2, <2>3, <2>4, ChatEdited
<1>3. ASSUME NEW c \in Chat, NEW a \in BOOLEAN, NEW u \in {"unknown", SentBy[c]}, Alerts!CreateAccepted(c, u, a)
      PROVE  ChatTable(subs')
    <2>1. CASE Alerts!ByChat(c) = {}
        <3> DEFINE row == Alerts!Sub(c, u, "accepted", a)
        <3>1. row \in ChatRow /\ row.chat = c /\ row.user = u
            BY <1>3, Assumptions DEF TelegramBot!SubscriptionsAssumption, ChatRow, Alerts!Sub
        <3>2. subs' = <<row>> \o subs
            BY <1>3, <2>1 DEF Alerts!CreateAccepted
        <3> HIDE DEF row
        <3>3. \A i \in 1..Len(subs) : subs[i].chat # c
            BY <1>0, <2>1 DEF Alerts!ByChat
        <3>4. \A i \in 1..Len(subs) : subs[i].user = u => subs[i].user = "unknown"
            BY <1>0, <1>3, <3>3 DEF Alerts!CreateAccepted, Alerts!ByUser
        <3> QED BY <3>1, <3>2, <3>3, <3>4, ChatAdded
    <2>2. CASE Alerts!ByChat(c) # {} /\ u = "unknown"
        <3>1. subs' = Alerts!Edit(c, Alerts!Sub(c, Alerts!RowOf(c).user, "accepted", a))
            BY <1>3, <2>2 DEF Alerts!CreateAccepted
        <3> QED BY <1>2, <2>2, <3>1
    <2>3. CASE Alerts!ByChat(c) # {} /\ u # "unknown"
        <3> DEFINE row == Alerts!Sub(c, u, "accepted", a)
        <3>1. row \in ChatRow /\ row.chat = c /\ row.user = u
            BY <1>3, Assumptions DEF TelegramBot!SubscriptionsAssumption, ChatRow, Alerts!Sub
        <3>2. subs' = [i \in 1..Len(subs) |-> IF subs[i].chat = c THEN row ELSE subs[i]]
            BY <1>3, <2>3 DEF Alerts!CreateAccepted, Alerts!Edit
        <3> HIDE DEF row
        <3>3. \A i \in 1..Len(subs) : subs[i].user = u => subs[i].chat = c
            BY <1>0, <1>3, <2>3 DEF Alerts!CreateAccepted, Alerts!ByUser
        <3> QED BY <3>1, <3>2, <3>3, ChatEdited
    <2> QED BY <2>1, <2>2, <2>3
<1>4. ASSUME NEW c \in Chat, NEW a \in BOOLEAN, Alerts!Accept(c, a)
      PROVE  ChatTable(subs')
    <2>1. Alerts!ByChat(c) # {} /\ subs' = Alerts!Edit(c, Alerts!Sub(c, Alerts!RowOf(c).user, "accepted", a))
        BY <1>4 DEF Alerts!Accept, Alerts!HasStatus
    <2> QED BY <1>2, <2>1
<1>5. ASSUME NEW c \in Chat, Alerts!Reject(c)
      PROVE  ChatTable(subs')
    <2> DEFINE a == Alerts!RowOf(c).alertOrder
    <2>1. Alerts!ByChat(c) # {} /\ subs' = Alerts!Edit(c, Alerts!Sub(c, Alerts!RowOf(c).user, "rejected", a))
        BY <1>5 DEF Alerts!Reject, Alerts!HasStatus
    <2>2. a \in BOOLEAN
        BY <1>0, <1>1, <2>1 DEF ChatRow
    <2> HIDE DEF a
    <2> QED BY <1>2, <2>1, <2>2
<1>6. ASSUME NEW c \in Chat, Alerts!Delete(c)
      PROVE  ChatTable(subs')
    BY <1>6, ChatRemoved DEF Alerts!Delete
<1> QED BY <1>3, <1>4, <1>5, <1>6 DEF Alerts!Manage

LEMMA AlertsAllowList ==
    ASSUME ChatTable(subs)
    PROVE  Alerts!AllowList \in [chats : SUBSET Chat, users : SUBSET (User \cup {"unknown"})]
<1>1. \A s \in Alerts!Accepted : s \in ChatRow
    BY AlertsRows DEF Alerts!Accepted
<1>2. EnvChats \subseteq Chat /\ EnvUsers \subseteq User
    BY Assumptions DEF Alerts!AlertsAssumption
<1> QED BY <1>1, <1>2 DEF Alerts!AllowList, ChatRow

AlertRequest ==
    [pc : {"idle", "list", "install"},
     view : [chats : SUBSET Chat, users : SUBSET (User \cup {"unknown"})], overtaken : BOOLEAN]

LEMMA AlertsStart ==
    ASSUME Alerts!Init
    PROVE  Alerts!AlertsInv
<1>1. ChatTable(subs)
    BY DEF Alerts!Init, ChatTable
<1>2. Alerts!NoRequest \in AlertRequest /\ Alerts!NoRequest.pc = "idle"
    BY DEF Alerts!NoRequest, AlertRequest
<1>3. alertReq = [q \in Request |-> Alerts!NoRequest] /\ alert = Alerts!NoAlert
      /\ blurred = FALSE /\ access = Alerts!AllowList
    BY DEF Alerts!Init
<1>4. alertReq \in [Request -> AlertRequest] /\ \A q \in Request : alertReq[q].pc = "idle"
    BY <1>2, <1>3
<1>5. alert = [pc |-> alert.pc, chat |-> alert.chat]
    BY <1>3 DEF Alerts!NoAlert
<1>6. Alerts!TableOK
    BY <1>1, AlertsTable
<1> QED BY <1>3, <1>4, <1>5, <1>6
       DEF Alerts!AlertsInv, AlertRequest, Alerts!CacheFollowsTable, Alerts!Refreshing

\* The parts of the invariant that the steps of requests and of the dispatcher keep.
LEMMA AlertsFacts ==
    ASSUME Alerts!AlertsInv
    PROVE  /\ ChatTable(subs) /\ Alerts!CacheFollowsTable /\ blurred \in BOOLEAN
           /\ alertReq \in [Request -> AlertRequest]
           /\ \A q \in Request : alertReq[q].pc = "install" /\ ~alertReq[q].overtaken =>
                                    alertReq[q].view = Alerts!AllowList
           /\ alert = [pc |-> alert.pc, chat |-> alert.chat]
BY AlertsTable DEF Alerts!AlertsInv, AlertRequest, Alerts!Refreshing

LEMMA AlertsKept ==
    ASSUME ChatTable(subs'), Alerts!CacheFollowsTable', blurred' \in BOOLEAN,
           alertReq' \in [Request -> AlertRequest],
           \A q \in Request : alertReq'[q].pc = "install" /\ ~alertReq'[q].overtaken =>
                                    alertReq'[q].view = Alerts!AllowList',
           alert' = [pc |-> alert'.pc, chat |-> alert'.chat]
    PROVE  Alerts!AlertsInv'
<1>1. Alerts!TableOK'
    BY DEF Alerts!TableOK, ChatTable, Alerts!Row, ChatRow
<1> QED BY <1>1 DEF Alerts!AlertsInv, AlertRequest, Alerts!Refreshing

LEMMA AlertsChanges ==
    ASSUME Alerts!AlertsInv, NEW q \in Request, Alerts!Change(q)
    PROVE  Alerts!AlertsInv'
<1>1. /\ ChatTable(subs) /\ blurred \in BOOLEAN /\ alertReq \in [Request -> AlertRequest]
      /\ alert = [pc |-> alert.pc, chat |-> alert.chat]
    BY AlertsFacts
<1>2. Alerts!Manage /\ UNCHANGED <<access, alert, blurred>>
    BY DEF Alerts!Change
<1>3. ChatTable(subs')
    BY <1>1, <1>2, AlertsManage
<1>4. /\ DOMAIN alertReq' = Request /\ alertReq' = [p \in Request |-> alertReq'[p]]
      /\ \A p \in Request : /\ alertReq'[p] \in AlertRequest
                            /\ p = q => alertReq'[p].pc = "list"
                            /\ alertReq'[p].pc = "install" => alertReq'[p].overtaken
    <2>1. alertReq' = [p \in Request |-> CASE p = q -> [Alerts!NoRequest EXCEPT !.pc = "list"]
                                   [] Alerts!Refreshing(p) -> [alertReq[p] EXCEPT !.overtaken = TRUE]
                                   [] OTHER -> alertReq[p]]
        BY DEF Alerts!Change
    <2>2. Alerts!NoRequest \in AlertRequest
        BY DEF Alerts!NoRequest, AlertRequest
    <2> SUFFICES ASSUME NEW p \in Request
                 PROVE  /\ alertReq'[p] \in AlertRequest
                        /\ p = q => alertReq'[p].pc = "list"
                        /\ alertReq'[p].pc = "install" => alertReq'[p].overtaken
        BY <2>1
    <2>3. alertReq[p] \in AlertRequest
        BY <1>1
    <2>4. CASE p = q
        <3>0. ~Alerts!Refreshing(p)
            BY <2>4 DEF Alerts!Change, Alerts!Refreshing
        <3>1. alertReq'[p] = [Alerts!NoRequest EXCEPT !.pc = "list"]
            BY <2>1, <2>4, <3>0
        <3>2. alertReq'[p] = [pc |-> "list", view |-> [chats |-> {}, users |-> {}], overtaken |-> FALSE]
            BY <3>1 DEF Alerts!NoRequest
        <3> QED BY <2>4, <3>2 DEF AlertRequest
    <2>5. CASE p # q /\ Alerts!Refreshing(p)
        <3>1. alertReq'[p] = [alertReq[p] EXCEPT !.overtaken = TRUE]
            BY <2>1, <2>5
        <3> QED BY <2>3, <2>5, <3>1 DEF AlertRequest
    <2>6. CASE p # q /\ ~Alerts!Refreshing(p)
        <3>1. alertReq'[p] = alertReq[p]
            BY <2>1, <2>6
        <3> QED BY <2>3, <2>6, <3>1 DEF Alerts!Refreshing
    <2> QED BY <2>4, <2>5, <2>6
<1>5. Alerts!CacheFollowsTable'
    BY <1>4 DEF Alerts!CacheFollowsTable, Alerts!Busy
<1>6. alertReq' \in [Request -> AlertRequest]
    BY <1>4
<1>7. blurred' \in BOOLEAN /\ alert' = [pc |-> alert'.pc, chat |-> alert'.chat]
    BY <1>1, <1>2
<1> QED BY <1>3, <1>4, <1>5, <1>6, <1>7, AlertsKept

LEMMA AlertsRefreshes ==
    ASSUME Alerts!AlertsInv, NEW q \in Request,
           Alerts!List(q) \/ Alerts!ListFails(q) \/ Alerts!Install(q)
    PROVE  Alerts!AlertsInv'
<1>1. /\ ChatTable(subs) /\ blurred \in BOOLEAN /\ alertReq \in [Request -> AlertRequest]
      /\ alert = [pc |-> alert.pc, chat |-> alert.chat] /\ Alerts!CacheFollowsTable
      /\ \A p \in Request : alertReq[p].pc = "install" /\ ~alertReq[p].overtaken =>
                                    alertReq[p].view = Alerts!AllowList
    BY AlertsFacts
<1>2. UNCHANGED <<subs, alert>> /\ Alerts!AllowList' = Alerts!AllowList
    BY DEF Alerts!List, Alerts!ListFails, Alerts!Install, Alerts!AllowList, Alerts!Accepted, Alerts!Rows
<1>3. Alerts!NoRequest \in AlertRequest /\ Alerts!NoRequest.pc = "idle"
    BY DEF Alerts!NoRequest, AlertRequest
<1>4. alertReq[q] \in AlertRequest
    BY <1>1
<1>5. CASE Alerts!List(q)
    <2> DEFINE r == [alertReq[q] EXCEPT !.pc = "install", !.view = Alerts!AllowList]
    <2>1. alertReq' = [alertReq EXCEPT ![q] = r] /\ UNCHANGED <<access, blurred>>
        BY <1>1, <1>5 DEF Alerts!List
    <2>2. r \in AlertRequest /\ r.pc = "install" /\ r.view = Alerts!AllowList
        BY <1>1, <1>4, AlertsAllowList DEF AlertRequest
    <2> HIDE DEF r
    <2>3. /\ alertReq' \in [Request -> AlertRequest] /\ alertReq'[q] = r
          /\ \A p \in Request : p # q => alertReq'[p] = alertReq[p]
        BY <1>1, <2>1, <2>2
    <2>4. Alerts!CacheFollowsTable'
        BY <2>2, <2>3 DEF Alerts!CacheFollowsTable, Alerts!Busy
    <2>5. \A p \in Request : alertReq'[p].pc = "install" /\ ~alertReq'[p].overtaken =>
                                    alertReq'[p].view = Alerts!AllowList'
        BY <1>1, <1>2, <2>2, <2>3
    <2> QED BY <1>1, <1>2, <2>1, <2>3, <2>4, <2>5, AlertsKept
<1>6. CASE Alerts!ListFails(q) \/ Alerts!Install(q)
    <2>1. /\ alertReq' = [alertReq EXCEPT ![q] = Alerts!NoRequest]
          /\ \/ access' = access /\ blurred' = TRUE
             \/ /\ alertReq[q].pc = "install"
                /\ access' = alertReq[q].view /\ blurred' = alertReq[q].overtaken
        BY <1>6 DEF Alerts!ListFails, Alerts!Install, Alerts!Refreshing
    <2>2. /\ alertReq' \in [Request -> AlertRequest] /\ alertReq'[q] = Alerts!NoRequest
          /\ \A p \in Request : p # q => alertReq'[p] = alertReq[p]
        BY <1>1, <1>3, <2>1
    <2>3. blurred' \/ access' = Alerts!AllowList
        BY <1>1, <2>1
    <2>4. Alerts!CacheFollowsTable'
        BY <1>2, <2>3 DEF Alerts!CacheFollowsTable
    <2>5. \A p \in Request : alertReq'[p].pc = "install" /\ ~alertReq'[p].overtaken =>
                                    alertReq'[p].view = Alerts!AllowList'
        BY <1>1, <1>2, <1>3, <2>2
    <2>6. blurred' \in BOOLEAN
        BY <1>4, <2>1 DEF AlertRequest
    <2> QED BY <1>1, <1>2, <2>2, <2>4, <2>5, <2>6, AlertsKept
<1> QED BY <1>5, <1>6

LEMMA AlertsSends ==
    ASSUME Alerts!AlertsInv,
           Alerts!handleOrder \/ Alerts!Send \/ Alerts!Sent \/ Alerts!Restart
             \/ \E c \in Chat : Alerts!Register(c)
    PROVE  Alerts!AlertsInv'
<1>1. /\ ChatTable(subs) /\ blurred \in BOOLEAN /\ alertReq \in [Request -> AlertRequest]
      /\ alert = [pc |-> alert.pc, chat |-> alert.chat] /\ Alerts!CacheFollowsTable
      /\ \A p \in Request : alertReq[p].pc = "install" /\ ~alertReq[p].overtaken =>
                                    alertReq[p].view = Alerts!AllowList
    BY AlertsFacts
<1>2. CASE Alerts!handleOrder \/ Alerts!Send \/ Alerts!Sent
    <2>1. UNCHANGED <<subs, access, alertReq, blurred>>
        BY <1>2 DEF Alerts!handleOrder, Alerts!Send, Alerts!Sent
    <2>2. Alerts!AllowList' = Alerts!AllowList
        BY <2>1 DEF Alerts!AllowList, Alerts!Accepted, Alerts!Rows
    <2>3. Alerts!CacheFollowsTable'
        BY <1>1, <2>1, <2>2 DEF Alerts!CacheFollowsTable, Alerts!Busy
    <2>4. alert' = [pc |-> alert'.pc, chat |-> alert'.chat]
        <3>1. Alerts!NoAlert = [pc |-> Alerts!NoAlert.pc, chat |-> Alerts!NoAlert.chat]
            BY DEF Alerts!NoAlert
        <3>2. CASE Alerts!handleOrder
            BY <3>2 DEF Alerts!handleOrder
        <3>3. CASE Alerts!Send \/ Alerts!Sent
            <4>1. alert' = Alerts!NoAlert \/ alert' = [alert EXCEPT !.pc = "sent"]
                BY <3>3 DEF Alerts!Send, Alerts!Sent
            <4> QED BY <1>1, <3>1, <4>1
        <3> QED BY <1>2, <3>2, <3>3
    <2>5. ChatTable(subs') /\ blurred' \in BOOLEAN /\ alertReq' \in [Request -> AlertRequest]
          /\ \A p \in Request : alertReq'[p].pc = "install" /\ ~alertReq'[p].overtaken =>
                                    alertReq'[p].view = Alerts!AllowList'
        BY <1>1, <2>1, <2>2
    <2> QED BY <2>3, <2>4, <2>5, AlertsKept
<1>3. CASE Alerts!Restart
    <2>1. /\ UNCHANGED subs /\ alertReq' = [q \in Request |-> Alerts!NoRequest]
          /\ access' = Alerts!AllowList /\ blurred' = FALSE /\ alert' = Alerts!NoAlert
        BY <1>3 DEF Alerts!Restart
    <2>2. Alerts!AllowList' = Alerts!AllowList
        BY <2>1 DEF Alerts!AllowList, Alerts!Accepted, Alerts!Rows
    <2>3. Alerts!CacheFollowsTable'
        BY <2>1, <2>2 DEF Alerts!CacheFollowsTable
    <2>4. Alerts!NoRequest \in AlertRequest /\ Alerts!NoRequest.pc = "idle"
        BY DEF Alerts!NoRequest, AlertRequest
    <2>5. alertReq' \in [Request -> AlertRequest] /\ \A q \in Request : alertReq'[q].pc = "idle"
        BY <2>1, <2>4
    <2>6. alert' = [pc |-> alert'.pc, chat |-> alert'.chat]
        BY <2>1 DEF Alerts!NoAlert
    <2>7. ChatTable(subs') /\ blurred' \in BOOLEAN
        BY <1>1, <2>1
    <2> QED BY <2>3, <2>5, <2>6, <2>7, AlertsKept
<1>4. ASSUME NEW c \in Chat, Alerts!Register(c)
      PROVE  Alerts!AlertsInv'
    <2>1. Alerts!Insert(c) /\ UNCHANGED <<access, alertReq, alert, blurred>>
        BY <1>4 DEF Alerts!Register
    <2>2. ChatTable(subs') /\ Alerts!Accepted' = Alerts!Accepted
        BY <1>1, <2>1, AlertsInsert
    <2>3. Alerts!AllowList' = Alerts!AllowList
        BY <2>2 DEF Alerts!AllowList
    <2>4. Alerts!CacheFollowsTable'
        BY <1>1, <2>1, <2>3 DEF Alerts!CacheFollowsTable, Alerts!Busy
    <2> QED BY <1>1, <2>1, <2>2, <2>3, <2>4, AlertsKept
<1> QED BY <1>2, <1>3, <1>4

LEMMA AlertsAreSilent ==
    ASSUME Alerts!AlertsInv, Alerts!Next
    PROVE  Alerts!RemovedChatIsSilentStep
<1>1. /\ Alerts!CacheFollowsTable /\ alert = [pc |-> alert.pc, chat |-> alert.chat]
      /\ blurred \in BOOLEAN
    BY AlertsFacts
<1> SUFFICES ASSUME alert'.pc = "sent", alert.pc = "send", ~Alerts!Busy, ~blurred
             PROVE  alert'.chat \in EnvChats \/ Alerts!HasStatus(alert'.chat, "accepted")
    BY DEF Alerts!RemovedChatIsSilentStep
<1>2. access = Alerts!AllowList
    BY <1>1 DEF Alerts!CacheFollowsTable
<1>3. Alerts!Send
    <2>1. alert' # alert /\ alert' # Alerts!NoAlert
        BY DEF Alerts!NoAlert
    <2> QED BY <2>1 DEF Alerts!Next, Alerts!Change, Alerts!List, Alerts!ListFails, Alerts!Install,
               Alerts!Register, Alerts!handleOrder, Alerts!Sent, Alerts!Restart
<1>4. alert.chat \in access.chats /\ alert' = [alert EXCEPT !.pc = "sent"]
    BY <1>3 DEF Alerts!Send, Alerts!NoAlert
<1>5. alert'.chat \in EnvChats \cup {s.chat : s \in Alerts!Accepted}
    BY <1>1, <1>2, <1>4 DEF Alerts!AllowList
<1> QED BY <1>5 DEF Alerts!Accepted, Alerts!HasStatus, Alerts!ByChat

LEMMA AlertsStep ==
    ASSUME Alerts!AlertsInv, Alerts!Next
    PROVE  Alerts!AlertsInv' /\ Alerts!RemovedChatIsSilentStep
<1>1. ASSUME NEW q \in Request, Alerts!Change(q)
      PROVE  Alerts!AlertsInv'
    BY <1>1, AlertsChanges
<1>2. ASSUME NEW q \in Request, Alerts!List(q) \/ Alerts!ListFails(q) \/ Alerts!Install(q)
      PROVE  Alerts!AlertsInv'
    BY <1>2, AlertsRefreshes
<1>3. Alerts!AlertsInv'
    BY <1>1, <1>2, AlertsSends DEF Alerts!Next
<1> QED BY <1>3, AlertsAreSilent

-----------------------------------------------------------------------------
(* Accounts *)

LEMMA AccountsOps ==
    /\ DOMAIN Accounts!SetClass = {"customer", "manager", "admin", "owner"}
    /\ Accounts!SetClass["customer"] = 0 /\ Accounts!SetClass["manager"] = 1
    /\ Accounts!SetClass["admin"] = 2 /\ Accounts!SetClass["owner"] = 3
    /\ DOMAIN Accounts!SetActive = {"activate", "deactivate"}
    /\ Accounts!SetActive["activate"] = TRUE /\ Accounts!SetActive["deactivate"] = FALSE
BY DEF Accounts!SetClass, Accounts!SetActive, Accounts!Customer, Accounts!Manager, Accounts!Admin,
   Accounts!Owner

LEMMA AccountsChange ==
    ASSUME NEW u, NEW op
    PROVE  /\ op = "customer" => Accounts!Change(op, u) = [u EXCEPT !.class = 0]
           /\ op = "manager" => Accounts!Change(op, u) = [u EXCEPT !.class = 1]
           /\ op = "admin" => Accounts!Change(op, u) = [u EXCEPT !.class = 2]
           /\ op = "activate" => Accounts!Change(op, u) = [u EXCEPT !.active = TRUE]
           /\ op = "deactivate" => Accounts!Change(op, u) = [u EXCEPT !.active = FALSE]
           /\ op = "reset" => Accounts!Change(op, u) = [u EXCEPT !.class = 2]
           /\ op = "sync" => Accounts!Change(op, u) = Accounts!syncServiceAccount(u)
           /\ op = "wrong" => Accounts!Change(op, u) = Accounts!CountFailure(Accounts!Fresh(u))
           /\ op \in {"unlock", "right"} => Accounts!Change(op, u) = Accounts!Unlock(u)
           /\ op \in {"password", "delete"} => Accounts!Change(op, u) = u
<1>1. CASE op \in {"customer", "manager", "admin"}
    BY <1>1, AccountsOps DEF Accounts!Change
<1>2. CASE op \in {"activate", "deactivate"}
    BY <1>2, AccountsOps DEF Accounts!Change
<1>3. CASE op \in {"reset", "sync", "wrong", "unlock", "right", "password", "delete"}
    BY <1>3, AccountsOps DEF Accounts!Change, Accounts!Admin
<1> QED BY <1>1, <1>2, <1>3

LEMMA AccountsLimit == maxFailedAttempts \in Nat \ {0} /\ MaxUser \in Nat \ {0}
BY Assumptions DEF Accounts!AccountsAssumption

LEMMA AccountsRow ==
    ASSUME NEW u, Accounts!RowOK(u)
    PROVE  /\ u \in Accounts!Row /\ u.class \in 0..2 /\ u.active \in BOOLEAN
           /\ u.lock \in {"none", "locked", "expired"} /\ u.failed \in 0..maxFailedAttempts
           /\ u.lock = "none" => u.failed < maxFailedAttempts
           /\ u = [class |-> u.class, active |-> u.active, lock |-> u.lock, failed |-> u.failed]
BY DEF Accounts!RowOK, Accounts!Row, Accounts!Customer, Accounts!Admin

LEMMA AccountsRowMade ==
    ASSUME NEW class \in 0..2, NEW active \in BOOLEAN, NEW lock \in {"none", "locked", "expired"},
           NEW failed \in 0..maxFailedAttempts, lock = "none" => failed < maxFailedAttempts
    PROVE  Accounts!RowOK([class |-> class, active |-> active, lock |-> lock, failed |-> failed])
BY DEF Accounts!RowOK, Accounts!Row, Accounts!Customer, Accounts!Admin

\* What becomes of a row and of its lock.
LEMMA AccountsUnlock ==
    ASSUME NEW u, Accounts!RowOK(u)
    PROVE  /\ Accounts!RowOK(Accounts!Unlock(u)) /\ ~Accounts!IsLocked(Accounts!Unlock(u))
           /\ Accounts!Unlock(u).class = u.class /\ Accounts!Unlock(u).active = u.active
           /\ Accounts!Unlock(u).failed = 0 /\ Accounts!Unlock(u).lock = "none"
<1>1. Accounts!Unlock(u) = [class |-> u.class, active |-> u.active, lock |-> "none", failed |-> 0]
    <2> DEFINE x == [u EXCEPT !.lock = "none"]
    <2>1. x = [class |-> u.class, active |-> u.active, lock |-> "none", failed |-> u.failed]
        BY DEF Accounts!RowOK, Accounts!Row
    <2>2. Accounts!Unlock(u) = [x EXCEPT !.failed = 0]
        BY DEF Accounts!Unlock
    <2> HIDE DEF x
    <2> QED BY <2>1, <2>2
<1>2. 0 \in 0..maxFailedAttempts /\ 0 < maxFailedAttempts
    BY AccountsLimit
<1> QED BY <1>1, <1>2, AccountsRow, AccountsRowMade DEF Accounts!IsLocked

LEMMA AccountsCount ==
    ASSUME NEW u, Accounts!RowOK(u)
    PROVE  LET v == Accounts!CountFailure(Accounts!Fresh(u))
           IN  /\ Accounts!RowOK(v) /\ v.class = u.class /\ v.active = u.active
               /\ ~Accounts!IsLockExempt(u) =>
                     v.failed = (IF u.lock = "none" THEN u.failed ELSE 0) + 1
               /\ Accounts!IsLockExempt(u) => v = Accounts!Fresh(u)
<1> DEFINE w == Accounts!Fresh(u)
           v == Accounts!CountFailure(w)
<1>1. /\ Accounts!RowOK(w) /\ w.class = u.class /\ w.active = u.active /\ w.lock = "none"
      /\ w.failed = IF u.lock = "none" THEN u.failed ELSE 0
    BY AccountsUnlock DEF Accounts!Fresh
<1> HIDE DEF w
<1> DEFINE Made(x) == /\ Accounts!RowOK(x) /\ x.class = u.class /\ x.active = u.active
                      /\ ~Accounts!IsLockExempt(u) =>
                            x.failed = (IF u.lock = "none" THEN u.failed ELSE 0) + 1
                      /\ Accounts!IsLockExempt(u) => x = w
<1>2. Accounts!IsLockExempt(w) <=> Accounts!IsLockExempt(u)
    BY <1>1 DEF Accounts!IsLockExempt
<1>3. ASSUME Accounts!IsLockExempt(u) PROVE Made(v)
    BY <1>1, <1>2, <1>3 DEF Accounts!CountFailure
<1>4. ASSUME ~Accounts!IsLockExempt(u) PROVE Made(v)
    <2> DEFINE x == [w EXCEPT !.failed = @ + 1]
    <2>1. /\ x = [class |-> w.class, active |-> w.active, lock |-> "none", failed |-> w.failed + 1]
          /\ w.failed + 1 \in 0..maxFailedAttempts
        BY <1>1, AccountsRow, AccountsLimit
    <2>2. v = IF x.failed >= maxFailedAttempts THEN Accounts!Lock(x) ELSE x
        BY <1>2, <1>4 DEF Accounts!CountFailure
    <2>3. x.failed = w.failed + 1 /\ x.class = w.class /\ x.active = w.active /\ x.lock = "none"
        BY <2>1
    <2> HIDE DEF x
    <2>4. CASE x.failed >= maxFailedAttempts
        <3>1. ~Accounts!IsLockExempt(x)
            BY <1>2, <1>4, <2>3 DEF Accounts!IsLockExempt
        <3>2. v = [class |-> w.class, active |-> w.active, lock |-> "locked", failed |-> w.failed + 1]
            BY <2>1, <2>2, <2>4, <3>1 DEF Accounts!Lock
        <3>3. Accounts!RowOK([class |-> w.class, active |-> w.active, lock |-> "locked", failed |-> w.failed + 1])
            BY <1>1, <2>1, AccountsRow, AccountsRowMade
        <3> QED BY <1>1, <1>4, <3>2, <3>3
    <2>5. CASE ~(x.failed >= maxFailedAttempts)
        <3>1. v = [class |-> w.class, active |-> w.active, lock |-> "none", failed |-> w.failed + 1]
            BY <2>1, <2>2, <2>5
        <3>2. w.failed + 1 < maxFailedAttempts
            BY <1>1, <2>3, <2>5, AccountsRow, AccountsLimit
        <3>3. Accounts!RowOK([class |-> w.class, active |-> w.active, lock |-> "none", failed |-> w.failed + 1])
            BY <1>1, <2>1, <3>2, AccountsRow, AccountsRowMade
        <3> QED BY <1>1, <1>4, <3>1, <3>3
    <2> QED BY <2>4, <2>5
<1>5. Made(v)
    BY <1>3, <1>4
<1> QED BY <1>5 DEF w

LEMMA AccountsSync ==
    ASSUME NEW u, Accounts!RowOK(u)
    PROVE  LET v == Accounts!syncServiceAccount(u)
           IN  /\ Accounts!RowOK(v) /\ v.class = 0 /\ v.active = TRUE
               /\ v.failed = IF u.lock = "locked" THEN 0 ELSE u.failed
<1> DEFINE w == [u EXCEPT !.class = Accounts!Customer, !.active = TRUE]
           v == Accounts!syncServiceAccount(u)
<1>1. w = [class |-> 0, active |-> TRUE, lock |-> u.lock, failed |-> u.failed]
    <2> DEFINE x == [u EXCEPT !.class = 0]
    <2>1. x = [class |-> 0, active |-> u.active, lock |-> u.lock, failed |-> u.failed]
        BY DEF Accounts!RowOK, Accounts!Row
    <2>2. w = [x EXCEPT !.active = TRUE]
        BY DEF Accounts!Customer
    <2> HIDE DEF x, w
    <2> QED BY <2>1, <2>2
<1>2. Accounts!RowOK(w) /\ w.class = 0 /\ w.active = TRUE /\ w.lock = u.lock /\ w.failed = u.failed
    <2>1. Accounts!RowOK([class |-> 0, active |-> TRUE, lock |-> u.lock, failed |-> u.failed])
        <3>1. /\ 0 \in 0..2 /\ TRUE \in BOOLEAN /\ u.lock \in {"none", "locked", "expired"}
              /\ u.failed \in 0..maxFailedAttempts /\ (u.lock = "none" => u.failed < maxFailedAttempts)
            BY AccountsRow
        <3> QED BY <3>1, AccountsRowMade
    <2> QED BY <1>1, <2>1
<1>3. v = IF Accounts!IsLocked(w) THEN Accounts!Unlock(w) ELSE w
    BY DEF Accounts!syncServiceAccount
<1> HIDE DEF w
<1>4. Accounts!IsLocked(w) <=> u.lock = "locked"
    BY <1>2 DEF Accounts!IsLocked, Accounts!IsLockExempt, Accounts!Admin, Accounts!Owner
<1> HIDE DEF v
<1>5. Accounts!RowOK(v) /\ v.class = 0 /\ v.active = TRUE
      /\ v.failed = IF u.lock = "locked" THEN 0 ELSE u.failed
    BY <1>2, <1>3, <1>4, AccountsUnlock
<1> QED BY <1>5 DEF v

AccountOp == Accounts!LoginOp \cup Accounts!SavedOp \cup {"unlock"}

\* The row an operation makes, beside what it makes of the class and status that staff
\* decided.
LEMMA AccountsMade ==
    ASSUME NEW op \in AccountOp, NEW u, Accounts!RowOK(u)
    PROVE  /\ Accounts!RowOK(Accounts!Change(op, u))
           /\ op \notin {"unlock", "right", "wrong", "sync"} => Accounts!Change(op, u).lock = u.lock
<1>1. \A class \in 0..2 : /\ Accounts!RowOK([u EXCEPT !.class = class])
                          /\ [u EXCEPT !.class = class].lock = u.lock
    <2> TAKE class \in 0..2
    <2>1. [u EXCEPT !.class = class] = [class |-> class, active |-> u.active, lock |-> u.lock, failed |-> u.failed]
        BY DEF Accounts!RowOK, Accounts!Row
    <2>2. Accounts!RowOK([class |-> class, active |-> u.active, lock |-> u.lock, failed |-> u.failed])
        BY AccountsRow, AccountsRowMade
    <2> QED BY <2>1, <2>2
<1>2. \A active \in BOOLEAN : /\ Accounts!RowOK([u EXCEPT !.active = active])
                              /\ [u EXCEPT !.active = active].lock = u.lock
    <2> TAKE active \in BOOLEAN
    <2>1. [u EXCEPT !.active = active] = [class |-> u.class, active |-> active, lock |-> u.lock, failed |-> u.failed]
        BY DEF Accounts!RowOK, Accounts!Row
    <2>2. Accounts!RowOK([class |-> u.class, active |-> active, lock |-> u.lock, failed |-> u.failed])
        BY AccountsRow, AccountsRowMade
    <2> QED BY <2>1, <2>2
<1>3. op \in {"customer", "manager", "admin", "activate", "deactivate", "password", "delete",
              "reset", "sync", "right", "wrong", "unlock"}
    BY DEF AccountOp, Accounts!LoginOp, Accounts!SavedOp
<1>4. 0 \in 0..2 /\ 1 \in 0..2 /\ 2 \in 0..2
    OBVIOUS
<1>5. CASE op \in {"customer", "manager", "admin", "reset"}
    <2>1. PICK class \in 0..2 : Accounts!Change(op, u) = [u EXCEPT !.class = class]
        BY <1>4, <1>5, AccountsChange
    <2> QED BY <1>1, <2>1
<1>6. CASE op \in {"activate", "deactivate"}
    <2>1. PICK active \in BOOLEAN : Accounts!Change(op, u) = [u EXCEPT !.active = active]
        BY <1>6, AccountsChange
    <2> QED BY <1>2, <2>1
<1>7. CASE op \in {"password", "delete"}
    BY <1>7, AccountsChange
<1>8. CASE op = "sync"
    <2>1. Accounts!Change(op, u) = Accounts!syncServiceAccount(u)
        BY <1>8, AccountsChange
    <2>2. Accounts!RowOK(Accounts!syncServiceAccount(u))
        BY AccountsSync
    <2> QED BY <1>8, <2>1, <2>2
<1>9. CASE op = "wrong"
    <2>1. Accounts!Change(op, u) = Accounts!CountFailure(Accounts!Fresh(u))
        BY <1>9, AccountsChange
    <2>2. Accounts!RowOK(Accounts!CountFailure(Accounts!Fresh(u)))
        BY AccountsCount
    <2> QED BY <1>9, <2>1, <2>2
<1>10. CASE op \in {"unlock", "right"}
    BY <1>10, AccountsChange, AccountsUnlock
<1> QED BY <1>3, <1>5, <1>6, <1>7, <1>8, <1>9, <1>10

\* The row that agrees with the history of its account.
Agrees(u, class, active, failed) == u.class = class /\ u.active = active /\ u.failed = failed

LEMMA AccountsHistory ==
    ASSUME NEW op \in AccountOp, NEW u, Accounts!RowOK(u), Accounts!RowOK(decided),
           Agrees(u, decided.class, decided.active, streak), streak \in Nat,
           op = "wrong" => ~Accounts!IsLockExempt(u),
           NEW d, d = (IF Accounts!Decides(op) THEN Accounts!Change(op, decided) ELSE decided)
    PROVE  /\ Accounts!RowOK(d)
           /\ Agrees(Accounts!Change(op, u), d.class, d.active, Accounts!Count(op, u))
<1> USE DEF Agrees
<1>0. /\ u \in Accounts!Row /\ decided \in Accounts!Row
    BY AccountsRow
<1>1. Accounts!Decides(op) <=>
          op \in {"customer", "manager", "admin", "activate", "deactivate", "reset", "sync"}
    BY AccountsOps DEF Accounts!Decides, AccountOp, Accounts!LoginOp, Accounts!SavedOp
<1>2. Accounts!IsLocked([u EXCEPT !.class = Accounts!Customer]) <=> u.lock = "locked"
    <2>1. [u EXCEPT !.class = Accounts!Customer].lock = u.lock
          /\ [u EXCEPT !.class = Accounts!Customer].class = 0
        BY <1>0 DEF Accounts!Customer, Accounts!Row
    <2> QED BY <2>1 DEF Accounts!IsLocked, Accounts!IsLockExempt, Accounts!Admin, Accounts!Owner
<1>3. /\ op \in {"unlock", "right"} => Accounts!Count(op, u) = 0
      /\ op = "wrong" => Accounts!Count(op, u) = (IF u.lock = "none" THEN streak ELSE 0) + 1
      /\ op = "sync" => Accounts!Count(op, u) = IF u.lock = "locked" THEN 0 ELSE streak
      /\ op \notin {"unlock", "right", "wrong", "sync"} => Accounts!Count(op, u) = streak
    BY <1>2 DEF Accounts!Count
<1>4. Accounts!RowOK(d)
    BY AccountsMade
<1>5. op \in {"customer", "manager", "admin", "activate", "deactivate", "password", "delete",
              "reset", "sync", "right", "wrong", "unlock"}
    BY DEF AccountOp, Accounts!LoginOp, Accounts!SavedOp
<1>6. CASE op \in {"customer", "manager", "admin", "reset"}
    <2>1. PICK class \in 0..2 : /\ Accounts!Change(op, u) = [u EXCEPT !.class = class]
                                /\ Accounts!Change(op, decided) = [decided EXCEPT !.class = class]
        BY <1>6, AccountsChange
    <2>2. d = [decided EXCEPT !.class = class] /\ Accounts!Count(op, u) = streak
        BY <1>1, <1>3, <1>6, <2>1
    <2>3. Agrees([u EXCEPT !.class = class], d.class, d.active, streak)
        BY <1>0, <2>2 DEF Accounts!Row
    <2> QED BY <1>4, <2>1, <2>2, <2>3
<1>7. CASE op \in {"activate", "deactivate"}
    <2>1. PICK active \in BOOLEAN : /\ Accounts!Change(op, u) = [u EXCEPT !.active = active]
                                    /\ Accounts!Change(op, decided) = [decided EXCEPT !.active = active]
        BY <1>7, AccountsChange
    <2>2. d = [decided EXCEPT !.active = active] /\ Accounts!Count(op, u) = streak
        BY <1>1, <1>3, <1>7, <2>1
    <2>3. Agrees([u EXCEPT !.active = active], d.class, d.active, streak)
        BY <1>0, <2>2 DEF Accounts!Row
    <2> QED BY <1>4, <2>1, <2>2, <2>3
<1>8. CASE op \in {"password", "delete"}
    BY <1>1, <1>3, <1>4, <1>8, AccountsChange
<1>9. CASE op = "sync"
    <2>1. /\ Accounts!Change(op, u) = Accounts!syncServiceAccount(u)
          /\ d = Accounts!syncServiceAccount(decided)
        BY <1>1, <1>9, AccountsChange
    <2> QED BY <1>3, <1>4, <1>9, <2>1, AccountsSync
<1>10. CASE op = "wrong"
    <2>1. Accounts!Change(op, u) = Accounts!CountFailure(Accounts!Fresh(u)) /\ d = decided
        BY <1>1, <1>10, AccountsChange
    <2> QED BY <1>3, <1>4, <1>10, <2>1, AccountsCount
<1>11. CASE op \in {"unlock", "right"}
    <2>1. Accounts!Change(op, u) = Accounts!Unlock(u) /\ d = decided
        BY <1>1, <1>11, AccountsChange
    <2> QED BY <1>3, <1>4, <1>11, <2>1, AccountsUnlock
<1> QED BY <1>5, <1>6, <1>7, <1>8, <1>9, <1>10, <1>11

StaffRequest ==
    [pc : {"idle", "clear", "check", "save", "find", "delete"},
     op : {"none"} \cup Accounts!LoginOp \cup Accounts!SavedOp, id : {0} \cup Accounts!Id,
     read : Accounts!Row \cup {Accounts!Gone}]

LEMMA AccountsGone ==
    /\ Accounts!Gone \notin Accounts!Row /\ Accounts!Gone.lock = "gone"
    /\ ~Accounts!RowOK(Accounts!Gone) /\ ~Accounts!IsLocked(Accounts!Gone)
    /\ Accounts!Idle \in StaffRequest /\ Accounts!Idle.pc = "idle"
<1>1. Accounts!Gone.lock = "gone"
    BY DEF Accounts!Gone
<1>2. \A u \in Accounts!Row : u.lock # "gone"
    BY DEF Accounts!Row
<1>3. Accounts!Idle \in StaffRequest /\ Accounts!Idle.pc = "idle"
    BY DEF Accounts!Idle, StaffRequest
<1> QED BY <1>1, <1>2, <1>3 DEF Accounts!RowOK, Accounts!IsLocked

LEMMA AccountsNewUser ==
    ASSUME NEW c \in 0..2
    PROVE  /\ Accounts!RowOK(Accounts!NewUser(c)) /\ Accounts!NewUser(c).lock = "none"
           /\ Agrees(Accounts!NewUser(c), Accounts!NewUser(c).class, Accounts!NewUser(c).active, 0)
<1>1. TRUE \in BOOLEAN /\ 0 \in 0..maxFailedAttempts /\ 0 < maxFailedAttempts
    BY AccountsLimit
<1> QED BY <1>1, AccountsRowMade DEF Accounts!NewUser, Agrees

\* The two parts of the state that most steps touch one of.
RequestsOK ==
    /\ staffReq \in [Request -> StaffRequest]
    /\ \A q \in Request : Accounts!RequestOK(staffReq[q])

HistoryOK ==
    /\ Accounts!RowOK(decided) /\ streak \in Nat /\ overlapped \in BOOLEAN
    /\ overlapped \/ \A i \in Accounts!Taken :
          Agrees(users[i], decided.class, decided.active, streak)

LEMMA AccountsParts ==
    Accounts!AccountsInv <=>
        Accounts!TablesInv /\ Accounts!GoneIsAnnounced /\ RequestsOK /\ HistoryOK
BY DEF Accounts!AccountsInv, RequestsOK, HistoryOK, StaffRequest, Agrees, Accounts!RowFollowsHistory

LEMMA AccountsPartsNext ==
    Accounts!AccountsInv' <=>
        Accounts!TablesInv' /\ Accounts!GoneIsAnnounced' /\ RequestsOK' /\ HistoryOK'
BY AccountsParts, PTL

LEMMA AccountsStart ==
    ASSUME Accounts!Init
    PROVE  Accounts!AccountsInv
<1>1. users = [i \in Accounts!Id |-> Accounts!Gone] /\ Accounts!Taken = {}
    BY DEF Accounts!Init, Accounts!Taken, Accounts!Exists
<1>2. staffReq = [q \in Request |-> Accounts!Idle] /\ outbox = {} /\ born = 0
      /\ decided = Accounts!NewUser(Accounts!Customer) /\ streak = 0 /\ overlapped = FALSE
    BY DEF Accounts!Init
<1>3. Accounts!TablesInv
    BY <1>1, <1>2, AccountsLimit DEF Accounts!TablesInv
<1>4. RequestsOK
    BY <1>2, AccountsGone DEF RequestsOK, Accounts!RequestOK
<1>5. HistoryOK
    <2>1. Accounts!Customer \in 0..2
        BY DEF Accounts!Customer
    <2>2. Accounts!RowOK(decided)
        BY <1>2, <2>1, AccountsNewUser
    <2> QED BY <1>1, <1>2, <2>2 DEF HistoryOK
<1>6. Accounts!GoneIsAnnounced
    BY <1>2 DEF Accounts!GoneIsAnnounced
<1> QED BY <1>3, <1>4, <1>5, <1>6, AccountsParts

\* A request goes on, and nothing else changes.
LEMMA AccountsGoes ==
    ASSUME Accounts!AccountsInv, NEW q \in Request, NEW r \in StaffRequest, Accounts!RequestOK(r),
           staffReq' = [staffReq EXCEPT ![q] = r],
           UNCHANGED <<users, outbox, born, decided, streak, overlapped>>
    PROVE  Accounts!AccountsInv' /\ Accounts!LockHoldsStep
<1>1. Accounts!TablesInv /\ Accounts!GoneIsAnnounced /\ RequestsOK /\ HistoryOK
    BY AccountsParts
<1>2. Accounts!TablesInv' /\ Accounts!GoneIsAnnounced' /\ HistoryOK'
    BY <1>1 DEF Accounts!TablesInv, Accounts!GoneIsAnnounced, HistoryOK, Accounts!Taken, Accounts!Exists
<1>3. RequestsOK'
    BY <1>1 DEF RequestsOK, Accounts!RequestOK
<1>4. Accounts!LockHoldsStep
    <2>1. \A u : Accounts!IsLocked(u) => u.lock # "none"
        BY DEF Accounts!IsLocked
    <2> QED BY <2>1 DEF Accounts!LockHoldsStep
<1> QED BY <1>2, <1>3, <1>4, AccountsPartsNext

LEMMA AccountsFacts ==
    ASSUME Accounts!AccountsInv
    PROVE  /\ RequestsOK /\ HistoryOK /\ Accounts!GoneIsAnnounced
           /\ users \in [Accounts!Id -> Accounts!Row \cup {Accounts!Gone}]
           /\ born \in 0..MaxUser /\ outbox \subseteq 1..born
           /\ \A i \in Accounts!Id : users[i] # Accounts!Gone =>
                  i \in Accounts!Taken /\ Accounts!RowOK(users[i]) /\ i \in 1..born
           /\ \A i, j \in Accounts!Taken : i = j
           /\ Accounts!Taken \subseteq Accounts!Id
BY AccountsParts DEF Accounts!TablesInv, Accounts!Taken, Accounts!Exists, Accounts!Id

LEMMA AccountsLogins ==
    ASSUME Accounts!AccountsInv, NEW q \in Request, Accounts!Login(q)
    PROVE  Accounts!AccountsInv' /\ Accounts!LockHoldsStep
<1>1. UNCHANGED <<users, outbox, born, decided, streak, overlapped>>
    BY DEF Accounts!Login, Accounts!history
<1>2. PICK i \in Accounts!Taken, op \in {"right", "wrong"} :
          /\ ~Accounts!IsLocked(users[i])
          /\ Accounts!Step(q, [Accounts!Idle EXCEPT !.op = op, !.id = i, !.read = users[i],
                                      !.pc = IF users[i].lock # "none" THEN "clear" ELSE "check"])
    BY DEF Accounts!Login
<1> DEFINE u == users[i]
           step == IF u.lock # "none" THEN "clear" ELSE "check"
           r == [pc |-> step, op |-> op, id |-> i, read |-> u]
<1>3. i \in Accounts!Id /\ i \in 1..born /\ Accounts!RowOK(u) /\ u \in Accounts!Row
    BY AccountsFacts, AccountsRow DEF Accounts!Taken, Accounts!Exists
<1>4. step \in {"clear", "check"} /\ op \in Accounts!LoginOp
    BY DEF Accounts!LoginOp
<1>5. staffReq' = [staffReq EXCEPT ![q] =
                     [Accounts!Idle EXCEPT !.op = op, !.id = i, !.read = u, !.pc = step]]
    BY <1>2 DEF Accounts!Step
<1>6. ~Accounts!IsLocked(u)
    BY <1>2
<1> HIDE DEF u, step
<1>7. [Accounts!Idle EXCEPT !.op = op, !.id = i, !.read = u, !.pc = step] = r
    <2> DEFINE a == [Accounts!Idle EXCEPT !.op = op]
               b == [a EXCEPT !.id = i]
               c == [b EXCEPT !.read = u]
    <2>1. a = [pc |-> "idle", op |-> op, id |-> 0, read |-> Accounts!Gone]
        BY DEF Accounts!Idle
    <2>2. [Accounts!Idle EXCEPT !.op = op, !.id = i, !.read = u, !.pc = step] = [c EXCEPT !.pc = step]
        OBVIOUS
    <2> HIDE DEF a
    <2>3. b = [pc |-> "idle", op |-> op, id |-> i, read |-> Accounts!Gone]
        BY <2>1
    <2> HIDE DEF b
    <2>4. c = [pc |-> "idle", op |-> op, id |-> i, read |-> u]
        BY <2>3
    <2> HIDE DEF c
    <2>5. [c EXCEPT !.pc = step] = r
        BY <2>4
    <2> QED BY <2>2, <2>5 DEF a, b, c
<1>9. r \in StaffRequest /\ r.pc = step /\ r.op = op /\ r.id = i /\ r.read = u
    BY <1>3, <1>4 DEF StaffRequest
<1>10. staffReq' = [staffReq EXCEPT ![q] = r]
    BY <1>5, <1>7
<1> HIDE DEF r
<1>8. Accounts!RequestOK(r)
    BY <1>3, <1>4, <1>6, <1>9 DEF Accounts!RequestOK
<1> QED BY <1>1, <1>8, <1>9, <1>10, AccountsGoes

LEMMA AccountsChecks ==
    ASSUME Accounts!AccountsInv, NEW q \in Request, Accounts!CheckStatus(q)
    PROVE  Accounts!AccountsInv' /\ Accounts!LockHoldsStep
<1> DEFINE x == staffReq[q]
           u == x.read
           r == [x EXCEPT !.pc = "save"]
<1>1. /\ UNCHANGED <<users, outbox, born, decided, streak, overlapped>> /\ x.pc = "check"
      /\ \/ /\ Accounts!Change(x.op, u) # Accounts!Fresh(u)
            /\ staffReq' = [staffReq EXCEPT ![q] = r]
         \/ staffReq' = [staffReq EXCEPT ![q] = Accounts!Idle]
    BY DEF Accounts!CheckStatus, Accounts!history, Accounts!Step, Accounts!Done
<1>2. x \in StaffRequest /\ Accounts!RequestOK(x)
    BY AccountsFacts DEF RequestsOK
<1>3. /\ x # Accounts!Idle /\ x.id \in 1..born /\ x.id \in Accounts!Id /\ x.op \in Accounts!LoginOp
      /\ Accounts!RowOK(u) /\ ~Accounts!IsLocked(u)
    <2>1. x # Accounts!Idle
        BY <1>1, AccountsGone
    <2> QED BY <1>1, <1>2, <2>1 DEF Accounts!RequestOK
<1>4. /\ r \in StaffRequest /\ r.pc = "save" /\ r.op = x.op /\ r.id = x.id /\ r.read = u
    BY <1>2 DEF StaffRequest
<1> HIDE DEF r
<1>5. CASE Accounts!Change(x.op, u) # Accounts!Fresh(u) /\ staffReq' = [staffReq EXCEPT ![q] = r]
    <2>1. x.op = "wrong" => ~Accounts!IsLockExempt(u)
        <3> SUFFICES ASSUME x.op = "wrong", Accounts!IsLockExempt(u)
                     PROVE  FALSE
            OBVIOUS
        <3>1. Accounts!Change(x.op, u) = Accounts!CountFailure(Accounts!Fresh(u))
            BY AccountsChange
        <3> QED BY <1>3, <1>5, <3>1, AccountsCount
    <2>2. Accounts!RequestOK(r)
        BY <1>3, <1>4, <2>1 DEF Accounts!RequestOK
    <2> QED BY <1>1, <1>4, <1>5, <2>2, AccountsGoes
<1>6. CASE staffReq' = [staffReq EXCEPT ![q] = Accounts!Idle]
    BY <1>1, <1>6, AccountsGone, AccountsGoes DEF Accounts!RequestOK
<1> QED BY <1>1, <1>5, <1>6

LEMMA AccountsAsked ==
    ASSUME Accounts!AccountsInv, NEW q \in Request, NEW i \in Accounts!Taken, NEW op \in Accounts!SavedOp,
           Accounts!Step(q, [Accounts!Idle EXCEPT !.op = op, !.id = i, !.pc = "find"]),
           UNCHANGED <<users, outbox, born, decided, streak, overlapped>>
    PROVE  Accounts!AccountsInv' /\ Accounts!LockHoldsStep
<1> DEFINE r == [Accounts!Idle EXCEPT !.op = op, !.id = i, !.pc = "find"]
<1>1. i \in Accounts!Id /\ i \in 1..born
    BY AccountsFacts DEF Accounts!Taken, Accounts!Exists
<1>2. staffReq' = [staffReq EXCEPT ![q] = r]
    BY DEF Accounts!Step
<1>3. r = [pc |-> "find", op |-> op, id |-> i, read |-> Accounts!Gone]
    <2> DEFINE a == [Accounts!Idle EXCEPT !.op = op]
               b == [a EXCEPT !.id = i]
    <2>1. a = [pc |-> "idle", op |-> op, id |-> 0, read |-> Accounts!Gone] /\ r = [b EXCEPT !.pc = "find"]
        BY DEF Accounts!Idle
    <2> HIDE DEF a, r
    <2>2. b = [pc |-> "idle", op |-> op, id |-> i, read |-> Accounts!Gone]
        BY <2>1
    <2> HIDE DEF b
    <2> QED BY <2>1, <2>2
<1> HIDE DEF r
<1>4. r \in StaffRequest /\ r.pc = "find" /\ r.op = op /\ r.id = i
    BY <1>1, <1>3 DEF StaffRequest
<1>5. op \notin Accounts!LoginOp
    BY DEF Accounts!LoginOp, Accounts!SavedOp
<1>6. Accounts!RequestOK(r)
    BY <1>1, <1>4, <1>5 DEF Accounts!RequestOK
<1> QED BY <1>2, <1>4, <1>6, AccountsGoes

LEMMA AccountsStaff ==
    ASSUME Accounts!AccountsInv, NEW q \in Request,
           \/ Accounts!SetUserPermissions(q) \/ Accounts!SetUserStatus(q)
           \/ Accounts!UpdateUserPassword(q) \/ Accounts!DeleteUser(q) \/ Accounts!Boot(q)
    PROVE  Accounts!AccountsInv' /\ Accounts!LockHoldsStep
<1>1. ASSUME NEW op \in {"customer", "manager", "admin", "owner", "activate", "deactivate",
                        "password", "delete"}, Accounts!Authorize(q, op)
      PROVE  Accounts!AccountsInv' /\ Accounts!LockHoldsStep
    <2>1. UNCHANGED <<users, outbox, born, decided, streak, overlapped>>
        BY <1>1 DEF Accounts!Authorize, Accounts!history
    <2>2. PICK i \in Accounts!Taken, caller \in Accounts!Manager..Accounts!Owner :
              /\ IF op \in DOMAIN Accounts!SetClass THEN Accounts!CanAssignPermissions(caller, users[i], op)
                 ELSE Accounts!CanManageUser(caller, users[i])
              /\ Accounts!Step(q, [Accounts!Idle EXCEPT !.op = op, !.id = i, !.pc = "find"])
        BY <1>1 DEF Accounts!Authorize
    <2>3. op # "owner"
        <3> SUFFICES ASSUME op = "owner" PROVE FALSE
            OBVIOUS
        <3>1. Accounts!CanManage(caller, 3) /\ caller \in 1..3
            BY <2>2, AccountsOps DEF Accounts!CanAssignPermissions, Accounts!Manager, Accounts!Owner
        <3> QED BY <3>1 DEF Accounts!CanManage
    <2>4. op \in Accounts!SavedOp
        BY <2>3 DEF Accounts!SavedOp
    <2> QED BY <2>1, <2>2, <2>4, AccountsAsked
<1>2. CASE Accounts!SetUserPermissions(q)
    BY <1>1, <1>2, AccountsOps DEF Accounts!SetUserPermissions
<1>3. CASE Accounts!SetUserStatus(q)
    BY <1>1, <1>3, AccountsOps DEF Accounts!SetUserStatus
<1>4. CASE Accounts!UpdateUserPassword(q) \/ Accounts!DeleteUser(q)
    BY <1>1, <1>4 DEF Accounts!UpdateUserPassword, Accounts!DeleteUser
<1>5. CASE Accounts!Boot(q)
    <2>1. UNCHANGED <<users, outbox, born, decided, streak, overlapped>>
        BY <1>5 DEF Accounts!Boot, Accounts!history
    <2>2. PICK i \in Accounts!Taken, op \in {"sync", "reset"} :
              Accounts!Step(q, [Accounts!Idle EXCEPT !.op = op, !.id = i, !.pc = "find"])
        BY <1>5 DEF Accounts!Boot
    <2>3. op \in Accounts!SavedOp
        BY DEF Accounts!SavedOp
    <2> QED BY <2>1, <2>2, <2>3, AccountsAsked
<1> QED BY <1>2, <1>3, <1>4, <1>5

LEMMA AccountsFinds ==
    ASSUME Accounts!AccountsInv, NEW q \in Request, Accounts!FindByID(q) \/ Accounts!Crash(q)
    PROVE  Accounts!AccountsInv' /\ Accounts!LockHoldsStep
<1> DEFINE x == staffReq[q]
           u == users[x.id]
           step == IF x.op = "delete" THEN "delete" ELSE "save"
           r == [pc |-> step, op |-> x.op, id |-> x.id, read |-> u]
<1>1. /\ UNCHANGED <<users, outbox, born, decided, streak, overlapped>>
      /\ \/ staffReq' = [staffReq EXCEPT ![q] = Accounts!Idle]
         \/ /\ x.pc = "find" /\ u # Accounts!Gone
            /\ staffReq' = [staffReq EXCEPT ![q] = [x EXCEPT !.read = u, !.pc = step]]
    BY DEF Accounts!FindByID, Accounts!Crash, Accounts!history, Accounts!Step, Accounts!Done
<1>2. CASE staffReq' = [staffReq EXCEPT ![q] = Accounts!Idle]
    BY <1>1, <1>2, AccountsGone, AccountsGoes DEF Accounts!RequestOK
<1>3. CASE /\ x.pc = "find" /\ u # Accounts!Gone
           /\ staffReq' = [staffReq EXCEPT ![q] = [x EXCEPT !.read = u, !.pc = step]]
    <2>1. x \in StaffRequest /\ Accounts!RequestOK(x) /\ x # Accounts!Idle
        BY <1>3, AccountsFacts, AccountsGone DEF RequestsOK
    <2>2. x.id \in 1..born /\ x.id \in Accounts!Id /\ x.op \in Accounts!SavedOp
        BY <1>3, <2>1 DEF Accounts!RequestOK
    <2>3. Accounts!RowOK(u) /\ u \in Accounts!Row /\ step \in {"save", "delete"}
        BY <1>3, <2>2, AccountsFacts, AccountsRow
    <2> HIDE DEF u, step, x
    <2>8. [x EXCEPT !.read = u, !.pc = step] = r
        <3> DEFINE a == [x EXCEPT !.read = u]
        <3>1. a = [pc |-> x.pc, op |-> x.op, id |-> x.id, read |-> u]
            BY <2>1 DEF StaffRequest
        <3>2. [x EXCEPT !.read = u, !.pc = step] = [a EXCEPT !.pc = step]
            OBVIOUS
        <3> HIDE DEF a
        <3>3. [a EXCEPT !.pc = step] = r
            BY <3>1
        <3> QED BY <3>2, <3>3 DEF a
    <2>4. r \in StaffRequest /\ r.pc = step /\ r.op = x.op /\ r.id = x.id /\ r.read = u
        BY <2>1, <2>3 DEF StaffRequest
    <2>9. staffReq' = [staffReq EXCEPT ![q] = r]
        BY <1>3, <2>8 DEF x, u, step
    <2>5. x.op \notin Accounts!LoginOp /\ x.op # "wrong"
        BY <2>2 DEF Accounts!LoginOp, Accounts!SavedOp
    <2>6. step = "delete" => x.op \in Accounts!SavedOp
        BY <2>2
    <2> HIDE DEF r
    <2>7. Accounts!RequestOK(r)
        BY <2>2, <2>3, <2>4, <2>5 DEF Accounts!RequestOK
    <2> QED BY <1>1, <2>4, <2>7, <2>9, AccountsGoes
<1> QED BY <1>1, <1>2, <1>3

\* The row of the one id that has the email is written.
LEMMA AccountsSaved ==
    ASSUME Accounts!AccountsInv, NEW i \in Accounts!Id, NEW v, Accounts!RowOK(v), Accounts!Saves(i, v)
    PROVE  /\ users' \in [Accounts!Id -> Accounts!Row \cup {Accounts!Gone}] /\ users'[i] = v
           /\ \A j \in Accounts!Id : j # i => users[j] = Accounts!Gone /\ users'[j] = Accounts!Gone
           /\ Accounts!Taken' = {i} /\ Accounts!Taken \subseteq {i}
<1>1. Accounts!Taken \ {i} = {} /\ users' = [users EXCEPT ![i] = v]
    BY DEF Accounts!Saves
<1>2. users \in [Accounts!Id -> Accounts!Row \cup {Accounts!Gone}]
    BY AccountsFacts
<1>3. v \in Accounts!Row /\ v # Accounts!Gone
    BY AccountsRow, AccountsGone
<1>4. /\ users' \in [Accounts!Id -> Accounts!Row \cup {Accounts!Gone}] /\ users'[i] = v
      /\ \A j \in Accounts!Id : j # i => users'[j] = users[j]
    BY <1>1, <1>2, <1>3
<1>5. \A j \in Accounts!Id : j # i => users[j] = Accounts!Gone
    BY <1>1 DEF Accounts!Taken, Accounts!Exists
<1>6. Accounts!Taken' = {i}
    BY <1>3, <1>4, <1>5 DEF Accounts!Taken, Accounts!Exists
<1> QED BY <1>1, <1>4, <1>5, <1>6

LEMMA AccountsRegisters ==
    ASSUME Accounts!AccountsInv, NEW c \in {Accounts!Customer, Accounts!Manager}, Accounts!Register(c)
    PROVE  Accounts!AccountsInv' /\ Accounts!LockHoldsStep
<1>1. /\ born < MaxUser /\ born' = born + 1 /\ Accounts!Saves(born', Accounts!NewUser(c))
      /\ decided' = Accounts!NewUser(c) /\ streak' = 0 /\ overlapped' = FALSE
      /\ UNCHANGED <<staffReq, outbox>>
    BY DEF Accounts!Register
<1>2. /\ RequestsOK /\ Accounts!GoneIsAnnounced /\ born \in 0..MaxUser /\ outbox \subseteq 1..born
      /\ \A i \in Accounts!Id : users[i] # Accounts!Gone => i \in 1..born
    BY AccountsFacts
<1>3. MaxUser \in Nat
    BY AccountsLimit
<1> DEFINE n == born'
<1>4. n \in Accounts!Id /\ n \in 0..MaxUser /\ n \notin 1..born /\ 1..n = 1..born \cup {n}
    BY <1>1, <1>2, <1>3 DEF Accounts!Id
<1>5. c \in 0..2
    BY DEF Accounts!Customer, Accounts!Manager
<1>6. /\ Accounts!RowOK(Accounts!NewUser(c))
      /\ Agrees(Accounts!NewUser(c), Accounts!NewUser(c).class, Accounts!NewUser(c).active, 0)
    BY <1>5, AccountsNewUser
<1>7. /\ users' \in [Accounts!Id -> Accounts!Row \cup {Accounts!Gone}]
      /\ users'[n] = Accounts!NewUser(c) /\ Accounts!Taken' = {n}
      /\ \A j \in Accounts!Id : j # n => users[j] = Accounts!Gone /\ users'[j] = Accounts!Gone
    BY <1>1, <1>4, <1>6, AccountsSaved
<1>8. users[n] = Accounts!Gone
    BY <1>2, <1>4
<1>9. Accounts!TablesInv'
    BY <1>1, <1>2, <1>4, <1>6, <1>7 DEF Accounts!TablesInv
<1>10. RequestsOK'
    <2>1. \A q \in Request : Accounts!RequestOK(staffReq[q])'
        BY <1>1, <1>2, <1>4 DEF RequestsOK, Accounts!RequestOK
    <2> QED BY <1>1, <1>2, <2>1 DEF RequestsOK
<1>11. HistoryOK'
    BY <1>1, <1>6, <1>7 DEF HistoryOK
<1>12. Accounts!GoneIsAnnounced'
    <2> SUFFICES ASSUME NEW i \in 1..n
                 PROVE  IF Accounts!Exists(i)' THEN i \in outbox' => overlapped' ELSE i \in outbox'
        BY DEF Accounts!GoneIsAnnounced
    <2>1. CASE i = n
        <3>1. i \notin outbox'
            BY <1>1, <1>2, <1>4, <2>1
        <3>2. users'[i] # Accounts!Gone
            BY <1>6, <1>7, <2>1, AccountsGone
        <3> QED BY <3>1, <3>2 DEF Accounts!Exists
    <2>2. CASE i # n
        <3>1. i \in 1..born /\ i \in Accounts!Id
            BY <1>2, <1>3, <1>4, <2>2 DEF Accounts!Id
        <3>2. users[i] = Accounts!Gone /\ users'[i] = Accounts!Gone
            BY <1>7, <2>2, <3>1
        <3>3. i \in outbox
            BY <1>2, <3>1, <3>2 DEF Accounts!GoneIsAnnounced, Accounts!Exists
        <3> QED BY <1>1, <3>2, <3>3 DEF Accounts!Exists
    <2> QED BY <2>1, <2>2
<1>13. Accounts!LockHoldsStep
    BY <1>7, <1>8, AccountsGone DEF Accounts!LockHoldsStep
<1> QED BY <1>9, <1>10, <1>11, <1>12, <1>13, AccountsPartsNext

LEMMA AccountsExpires ==
    ASSUME Accounts!AccountsInv, Accounts!LockExpires
    PROVE  Accounts!AccountsInv' /\ Accounts!LockHoldsStep
<1>1. PICK i \in Accounts!Taken : /\ users[i].lock = "locked"
                                  /\ users' = [users EXCEPT ![i].lock = "expired"]
    BY DEF Accounts!LockExpires
<1>2. UNCHANGED <<staffReq, outbox, born, decided, streak, overlapped>>
    BY DEF Accounts!LockExpires, Accounts!history
<1>3. /\ RequestsOK /\ HistoryOK /\ Accounts!GoneIsAnnounced /\ Accounts!TablesInv
      /\ users \in [Accounts!Id -> Accounts!Row \cup {Accounts!Gone}]
    BY AccountsFacts, AccountsParts
<1> DEFINE u == users[i]
           v == [u EXCEPT !.lock = "expired"]
<1>4. i \in Accounts!Id /\ u # Accounts!Gone /\ Accounts!RowOK(u)
    BY AccountsFacts DEF Accounts!Taken, Accounts!Exists
<1>5. v = [class |-> u.class, active |-> u.active, lock |-> "expired", failed |-> u.failed]
    BY <1>4 DEF Accounts!RowOK, Accounts!Row
<1>6. Accounts!RowOK(v) /\ v.lock = "expired" /\ Agrees(v, u.class, u.active, u.failed)
    <2>1. Accounts!RowOK([class |-> u.class, active |-> u.active, lock |-> "expired", failed |-> u.failed])
        BY <1>4, AccountsRow, AccountsRowMade
    <2> QED BY <1>5, <2>1 DEF Agrees
<1>7. users' = [users EXCEPT ![i] = v]
    BY <1>1
<1> HIDE DEF v
<1>8. v \in Accounts!Row /\ v # Accounts!Gone
    BY <1>6, AccountsRow, AccountsGone
<1>9. /\ users' \in [Accounts!Id -> Accounts!Row \cup {Accounts!Gone}] /\ users'[i] = v
      /\ \A j \in Accounts!Id : j # i => users'[j] = users[j]
    BY <1>3, <1>4, <1>7, <1>8
<1>10. Accounts!Taken' = Accounts!Taken /\ \A j \in Accounts!Id : Accounts!Exists(j)' <=> Accounts!Exists(j)
    BY <1>4, <1>8, <1>9 DEF Accounts!Taken, Accounts!Exists
<1>11. Accounts!TablesInv'
    <2>1. \A j \in Accounts!Taken : Accounts!RowOK(users'[j]) /\ j <= born
        BY <1>3, <1>6, <1>9 DEF Accounts!TablesInv, Accounts!Taken
    <2> QED BY <1>2, <1>3, <1>9, <1>10, <2>1 DEF Accounts!TablesInv
<1>12. RequestsOK'
    BY <1>2, <1>3 DEF RequestsOK, Accounts!RequestOK
<1>13. HistoryOK'
    BY <1>2, <1>3, <1>6, <1>9, <1>10 DEF HistoryOK, Agrees, Accounts!Taken
<1>14. Accounts!GoneIsAnnounced'
    <2>1. 1..born \subseteq Accounts!Id
        BY AccountsFacts, AccountsLimit DEF Accounts!Id
    <2> QED BY <1>2, <1>3, <1>10, <2>1 DEF Accounts!GoneIsAnnounced
<1>15. Accounts!LockHoldsStep
    BY <1>6, <1>9 DEF Accounts!LockHoldsStep, Accounts!IsLocked
<1> QED BY <1>11, <1>12, <1>13, <1>14, <1>15, AccountsPartsNext

LEMMA AccountsDeletes ==
    ASSUME Accounts!AccountsInv, NEW q \in Request, Accounts!DeleteAndEnqueue(q)
    PROVE  Accounts!AccountsInv' /\ Accounts!LockHoldsStep
<1> DEFINE x == staffReq[q]
           i == x.id
<1>1. /\ x.pc = "delete" /\ staffReq' = [staffReq EXCEPT ![q] = Accounts!Idle]
      /\ UNCHANGED <<born, decided, streak, overlapped>>
      /\ \/ users' = [users EXCEPT ![i] = Accounts!Gone] /\ outbox' = outbox \cup {i}
         \/ UNCHANGED <<users, outbox>>
    BY DEF Accounts!DeleteAndEnqueue, Accounts!Done, Accounts!Step, Accounts!history
<1>2. CASE UNCHANGED <<users, outbox>>
    BY <1>1, <1>2, AccountsGone, AccountsGoes DEF Accounts!RequestOK
<1>3. CASE users' = [users EXCEPT ![i] = Accounts!Gone] /\ outbox' = outbox \cup {i}
    <2>1. /\ RequestsOK /\ HistoryOK /\ Accounts!GoneIsAnnounced /\ Accounts!TablesInv
          /\ users \in [Accounts!Id -> Accounts!Row \cup {Accounts!Gone}]
        BY AccountsFacts, AccountsParts
    <2>2. i \in 1..born /\ i \in Accounts!Id
        BY <1>1, <2>1, AccountsGone DEF RequestsOK, Accounts!RequestOK
    <2> HIDE DEF i
    <2>3. /\ users' \in [Accounts!Id -> Accounts!Row \cup {Accounts!Gone}] /\ users'[i] = Accounts!Gone
          /\ \A j \in Accounts!Id : j # i => users'[j] = users[j]
        BY <1>3, <2>1, <2>2
    <2>4. Accounts!Taken' = Accounts!Taken \ {i}
        BY <2>2, <2>3 DEF Accounts!Taken, Accounts!Exists
    <2>5. Accounts!TablesInv'
        <3>1. \A j \in Accounts!Taken' : j \in Accounts!Taken /\ users'[j] = users[j]
            BY <2>3, <2>4 DEF Accounts!Taken
        <3> QED BY <1>1, <1>3, <2>1, <2>2, <2>3, <2>4, <3>1 DEF Accounts!TablesInv
    <2>6. RequestsOK'
        <3>1. staffReq' \in [Request -> StaffRequest]
            BY <1>1, <2>1, AccountsGone DEF RequestsOK
        <3>2. \A p \in Request : staffReq'[p] = staffReq[p] \/ staffReq'[p] = Accounts!Idle
            BY <1>1, <2>1 DEF RequestsOK
        <3> QED BY <1>1, <2>1, <3>1, <3>2 DEF RequestsOK, Accounts!RequestOK
    <2>7. HistoryOK'
        <3>1. \A j \in Accounts!Taken' : j \in Accounts!Taken /\ users'[j] = users[j]
            BY <2>3, <2>4 DEF Accounts!Taken
        <3> QED BY <1>1, <2>1, <3>1 DEF HistoryOK
    <2>8. Accounts!GoneIsAnnounced'
        <3>1. 1..born \subseteq Accounts!Id
            BY AccountsFacts, AccountsLimit DEF Accounts!Id
        <3> SUFFICES ASSUME NEW j \in 1..born
                     PROVE  IF Accounts!Exists(j)' THEN j \in outbox' => overlapped' ELSE j \in outbox'
            BY <1>1 DEF Accounts!GoneIsAnnounced
        <3>2. CASE j = i
            BY <1>3, <2>3, <3>2 DEF Accounts!Exists
        <3>3. CASE j # i
            <4>1. users'[j] = users[j] /\ (j \in outbox' <=> j \in outbox)
                BY <1>3, <2>3, <3>1, <3>3
            <4> QED BY <1>1, <2>1, <4>1 DEF Accounts!GoneIsAnnounced, Accounts!Exists
        <3> QED BY <3>2, <3>3
    <2>9. Accounts!LockHoldsStep
        BY <2>3, AccountsGone DEF Accounts!LockHoldsStep, Accounts!IsLocked
    <2> QED BY <2>5, <2>6, <2>7, <2>8, <2>9, AccountsPartsNext
<1> QED BY <1>1, <1>2, <1>3

LEMMA AccountsSaves ==
    ASSUME Accounts!AccountsInv, NEW q \in Request, Accounts!Save(q)
    PROVE  Accounts!AccountsInv' /\ Accounts!LockHoldsStep
<1> DEFINE x == staffReq[q]
           i == x.id
           u == x.read
           op == IF x.pc = "clear" THEN "unlock" ELSE x.op
           next(r) == staffReq' = [staffReq EXCEPT ![q] = IF x.pc = "clear"
                                     THEN [x EXCEPT !.read = r, !.pc = "check"] ELSE Accounts!Idle]
           v == Accounts!Change(op, u)
<1>1. /\ x.pc \in {"clear", "save"} /\ UNCHANGED <<outbox, born>>
      /\ \/ /\ Accounts!Saves(i, v) /\ next(Accounts!Unlock(u))
            /\ overlapped' = (overlapped \/ users[i] # u)
            /\ IF overlapped' THEN Accounts!Forget
               ELSE /\ decided' = IF Accounts!Decides(op) THEN Accounts!Change(op, decided) ELSE decided
                    /\ streak' = Accounts!Count(op, u)
         \/ UNCHANGED <<users, decided, streak, overlapped>> /\ next(u)
    BY DEF Accounts!Save, Accounts!Step, Accounts!Done, Accounts!history
<1>2. /\ RequestsOK /\ HistoryOK /\ Accounts!GoneIsAnnounced /\ Accounts!TablesInv
      /\ users \in [Accounts!Id -> Accounts!Row \cup {Accounts!Gone}] /\ overlapped \in BOOLEAN
    BY AccountsFacts, AccountsParts DEF HistoryOK
<1>3. x \in StaffRequest /\ Accounts!RequestOK(x) /\ x # Accounts!Idle
    BY <1>1, <1>2, AccountsGone DEF RequestsOK
<1>4. /\ i \in 1..born /\ i \in Accounts!Id /\ Accounts!RowOK(u)
      /\ x.pc = "clear" => x.op \in Accounts!LoginOp
      /\ x.pc = "save" => x.op \in Accounts!LoginOp \cup Accounts!SavedOp
      /\ x.op \in Accounts!LoginOp => ~Accounts!IsLocked(u)
      /\ x.pc = "save" /\ x.op = "wrong" => ~Accounts!IsLockExempt(u)
    BY <1>1, <1>3 DEF Accounts!RequestOK
<1>5. /\ op \in AccountOp /\ (op = "wrong" => ~Accounts!IsLockExempt(u))
    BY <1>1, <1>4 DEF AccountOp
<1>6. Accounts!RowOK(v)
    BY <1>4, <1>5, AccountsMade
<1>7. ASSUME NEW r, Accounts!RowOK(r), x.op \in Accounts!LoginOp => ~Accounts!IsLocked(r), next(r)
      PROVE  \E y \in StaffRequest : Accounts!RequestOK(y) /\ staffReq' = [staffReq EXCEPT ![q] = y]
    <2>1. CASE x.pc = "clear"
        <3> DEFINE a == [x EXCEPT !.read = r]
                   y == [pc |-> "check", op |-> x.op, id |-> i, read |-> r]
        <3>1. a = [pc |-> x.pc, op |-> x.op, id |-> x.id, read |-> r]
            BY <1>3 DEF StaffRequest
        <3>2. [x EXCEPT !.read = r, !.pc = "check"] = [a EXCEPT !.pc = "check"]
            OBVIOUS
        <3> HIDE DEF a
        <3>3. [a EXCEPT !.pc = "check"] = y
            BY <3>1
        <3>4. staffReq' = [staffReq EXCEPT ![q] = [a EXCEPT !.pc = "check"]]
            BY <1>7, <2>1, <3>2
        <3>5. y \in StaffRequest /\ y.pc = "check" /\ y.op = x.op /\ y.id = i /\ y.read = r
            BY <1>3, <1>4, <1>7, AccountsRow DEF StaffRequest
        <3> HIDE DEF x, y, i
        <3>6. Accounts!RequestOK(y)
            BY <1>4, <1>7, <2>1, <3>5 DEF Accounts!RequestOK
        <3> QED BY <3>3, <3>4, <3>5, <3>6
    <2>2. CASE x.pc # "clear"
        BY <1>7, <2>2, AccountsGone DEF Accounts!RequestOK
    <2> QED BY <2>1, <2>2
<1>8. CASE UNCHANGED <<users, decided, streak, overlapped>> /\ next(u)
    <2>1. \E y \in StaffRequest : Accounts!RequestOK(y) /\ staffReq' = [staffReq EXCEPT ![q] = y]
        BY <1>4, <1>7, <1>8
    <2> QED BY <1>1, <1>8, <2>1, AccountsGoes
<1>9. CASE /\ Accounts!Saves(i, v) /\ next(Accounts!Unlock(u))
           /\ overlapped' = (overlapped \/ users[i] # u)
           /\ IF overlapped' THEN Accounts!Forget
              ELSE /\ decided' = IF Accounts!Decides(op) THEN Accounts!Change(op, decided) ELSE decided
                   /\ streak' = Accounts!Count(op, u)
    <2>1. \E y \in StaffRequest : Accounts!RequestOK(y) /\ staffReq' = [staffReq EXCEPT ![q] = y]
        BY <1>4, <1>7, <1>9, AccountsUnlock
    <2>2. x.pc = "save" => staffReq'[q] = Accounts!Idle
        BY <1>2, <1>9 DEF RequestsOK
    <2>3. x.pc = "save" => op = x.op
        OBVIOUS
    <2> HIDE DEF next, v, op, u, i, x
    <2>4. /\ users' \in [Accounts!Id -> Accounts!Row \cup {Accounts!Gone}] /\ users'[i] = v
          /\ \A j \in Accounts!Id : j # i => users[j] = Accounts!Gone /\ users'[j] = Accounts!Gone
          /\ Accounts!Taken' = {i} /\ Accounts!Taken \subseteq {i}
        BY <1>4, <1>6, <1>9, AccountsSaved
    <2>5. Accounts!TablesInv'
        BY <1>1, <1>2, <1>4, <1>6, <2>4 DEF Accounts!TablesInv
    <2>6. RequestsOK'
        <3>1. \A y : Accounts!RequestOK(y)' <=> Accounts!RequestOK(y)
            BY <1>1 DEF Accounts!RequestOK
        <3> QED BY <1>2, <2>1, <3>1 DEF RequestsOK
    <2>7. overlapped' \in BOOLEAN /\ (~overlapped' => ~overlapped /\ users[i] = u)
        BY <1>2, <1>9
    <2>8. ~overlapped' => Agrees(u, decided.class, decided.active, streak)
        <3>1. users[i] = u => i \in Accounts!Taken
            BY <1>4, AccountsGone DEF Accounts!Taken, Accounts!Exists
        <3> QED BY <1>2, <2>7, <3>1 DEF HistoryOK
    <2>9. HistoryOK'
        <3>1. CASE overlapped'
            <4>1. decided' = Accounts!NewUser(Accounts!Customer) /\ streak' = 0
                BY <1>9, <3>1 DEF Accounts!Forget
            <4>2. Accounts!Customer \in 0..2
                BY DEF Accounts!Customer
            <4>3. Accounts!RowOK(decided') /\ streak' \in Nat
                BY <4>1, <4>2, AccountsNewUser
            <4> QED BY <2>7, <3>1, <4>3 DEF HistoryOK
        <3>2. CASE ~overlapped'
            <4>1. /\ decided' = (IF Accounts!Decides(op) THEN Accounts!Change(op, decided) ELSE decided)
                  /\ streak' = Accounts!Count(op, u) /\ v = Accounts!Change(op, u)
                BY <1>9, <3>2 DEF v
            <4>2. /\ Accounts!RowOK(decided) /\ streak \in Nat
                BY <1>2 DEF HistoryOK
            <4>3. /\ Accounts!RowOK(decided')
                  /\ Agrees(v, decided'.class, decided'.active, streak')
                BY <1>4, <1>5, <2>8, <3>2, <4>1, <4>2, AccountsHistory
            <4>4. streak' \in Nat
                BY <1>6, <4>3, AccountsRow, AccountsLimit DEF Agrees
            <4> QED BY <2>4, <2>7, <4>3, <4>4 DEF HistoryOK
        <3> QED BY <3>1, <3>2
    <2>10. Accounts!GoneIsAnnounced'
        <3>1. 1..born \subseteq Accounts!Id
            BY AccountsFacts, AccountsLimit DEF Accounts!Id
        <3> SUFFICES ASSUME NEW j \in 1..born
                     PROVE  IF Accounts!Exists(j)' THEN j \in outbox' => overlapped' ELSE j \in outbox'
            BY <1>1 DEF Accounts!GoneIsAnnounced
        <3>2. CASE j = i
            <4>1. Accounts!Exists(j)'
                BY <1>6, <2>4, <3>2, AccountsGone DEF Accounts!Exists
            <4>2. ~overlapped' => j \notin outbox
                <5>1. users[i] = u => Accounts!Exists(i)
                    BY <1>4, AccountsGone DEF Accounts!Exists
                <5> QED BY <1>2, <1>4, <2>7, <3>2, <5>1 DEF Accounts!GoneIsAnnounced
            <4> QED BY <1>1, <4>1, <4>2
        <3>3. CASE j # i
            <4>1. users[j] = Accounts!Gone /\ users'[j] = Accounts!Gone
                BY <2>4, <3>1, <3>3
            <4>2. j \in outbox
                BY <1>2, <4>1 DEF Accounts!GoneIsAnnounced, Accounts!Exists
            <4> QED BY <1>1, <4>1, <4>2 DEF Accounts!Exists
        <3> QED BY <3>2, <3>3
    <2>11. Accounts!LockHoldsStep
        <3> SUFFICES ASSUME NEW j \in Accounts!Id, Accounts!IsLocked(users[j]), users'[j].lock = "none",
                            ~overlapped'
                     PROVE  \E p \in Request : staffReq[p].op = "sync" /\ staffReq'[p] = Accounts!Idle
            BY DEF Accounts!LockHoldsStep
        <3>1. j = i /\ users[i] = u /\ v.lock = "none" /\ Accounts!IsLocked(u)
            BY <2>4, <2>7, AccountsGone
        <3>2. x.pc = "save" /\ x.op \notin Accounts!LoginOp /\ u.lock # "none"
            BY <1>1, <1>4, <3>1 DEF Accounts!IsLocked
        <3>3. op = "sync"
            <4>1. op \notin {"unlock", "right", "wrong"}
                BY <1>4, <2>3, <3>2 DEF Accounts!LoginOp, Accounts!SavedOp
            <4>2. op \notin {"unlock", "right", "wrong", "sync"} => v.lock = u.lock
                BY <1>4, <1>5, AccountsMade DEF v
            <4> QED BY <3>1, <3>2, <4>1, <4>2
        <3> QED BY <2>2, <2>3, <3>2, <3>3 DEF x
    <2> QED BY <2>5, <2>6, <2>9, <2>10, <2>11, AccountsPartsNext
<1> QED BY <1>1, <1>8, <1>9

LEMMA AccountsStep ==
    ASSUME Accounts!AccountsInv, Accounts!Next
    PROVE  Accounts!AccountsInv' /\ Accounts!LockHoldsStep
<1>1. CASE Accounts!Register(Accounts!Customer) \/ Accounts!Register(Accounts!Manager)
    BY <1>1, AccountsRegisters
<1>2. CASE Accounts!LockExpires
    BY <1>2, AccountsExpires
<1>3. ASSUME NEW q \in Request,
             \/ Accounts!Login(q) \/ Accounts!CheckStatus(q) \/ Accounts!Boot(q) \/ Accounts!FindByID(q)
             \/ Accounts!SetUserPermissions(q) \/ Accounts!SetUserStatus(q)
             \/ Accounts!UpdateUserPassword(q) \/ Accounts!DeleteUser(q)
             \/ Accounts!Save(q) \/ Accounts!DeleteAndEnqueue(q) \/ Accounts!Crash(q)
      PROVE  Accounts!AccountsInv' /\ Accounts!LockHoldsStep
    BY <1>3, AccountsLogins, AccountsChecks, AccountsStaff, AccountsFinds, AccountsSaves, AccountsDeletes
<1> QED BY <1>1, <1>2, <1>3 DEF Accounts!Next

LEMMA AccountsTypes ==
    ASSUME Accounts!AccountsInv
    PROVE  Accounts!TypeOK /\ Accounts!RowFollowsHistory /\ Accounts!GoneIsAnnounced
<1>1. \A i \in Accounts!Taken : users[i] \in Accounts!Row
    BY AccountsFacts, AccountsRow DEF Accounts!Taken, Accounts!Exists
<1>2. Accounts!Cardinality(Accounts!Taken) <= 1
    <2>1. CASE Accounts!Taken = {}
        <3>1. Cardinality({}) = 0
            BY FS_EmptySet
        <3> QED BY <2>1, <3>1 DEF Accounts!Cardinality, Cardinality
    <2>2. ASSUME NEW i \in Accounts!Taken
          PROVE  Accounts!Cardinality(Accounts!Taken) <= 1
        <3>1. Accounts!Taken = {i}
            BY <2>2, AccountsFacts
        <3>2. Cardinality({i}) = 1
            BY FS_Singleton
        <3> QED BY <3>1, <3>2 DEF Accounts!Cardinality, Cardinality
    <2> QED BY <2>1, <2>2
<1> QED BY <1>1, <1>2 DEF Accounts!TypeOK, Accounts!AccountsInv

LEMMA BotTable == TelegramBot!TableOK <=> ChatTable(botSubs)
BY DEF TelegramBot!TableOK, ChatTable, TelegramBot!Row, ChatRow

LEMMA BotRows ==
    ASSUME ChatTable(botSubs)
    PROVE  /\ Len(botSubs) \in Nat /\ \A i \in 1..Len(botSubs) : botSubs[i] \in ChatRow
           /\ TelegramBot!Rows = {botSubs[i] : i \in 1..Len(botSubs)}
BY DEF ChatTable, TelegramBot!Rows, TelegramBot!Range

LEMMA BotInsert ==
    ASSUME ChatTable(botSubs), NEW c \in Chat, TelegramBot!Insert(c)
    PROVE  ChatTable(botSubs') /\ TelegramBot!Accepted' = TelegramBot!Accepted
<1> DEFINE row == [chat |-> c, user |-> SentBy[c], status |-> "pending", alertOrder |-> FALSE]
<1>1. row \in ChatRow /\ row.chat = c /\ row.user = SentBy[c] /\ row.status = "pending"
    BY Assumptions DEF TelegramBot!SubscriptionsAssumption, ChatRow
<1>2. botSubs' = <<row>> \o botSubs /\ TelegramBot!ByChat(c) = {} /\ TelegramBot!ByUser(SentBy[c]) = {}
    BY DEF TelegramBot!Insert, TelegramBot!Sub
<1> HIDE DEF row
<1>3. \A i \in 1..Len(botSubs) : botSubs[i].chat # c /\ botSubs[i].user # SentBy[c]
    BY <1>2, BotRows DEF TelegramBot!ByChat, TelegramBot!ByUser
<1>4. /\ ChatTable(botSubs') /\ Len(botSubs') = Len(botSubs) + 1 /\ botSubs'[1] = row
      /\ \A i \in 1..Len(botSubs) : botSubs'[i + 1] = botSubs[i]
    BY <1>1, <1>2, <1>3, ChatAdded
<1>5. Len(botSubs) \in Nat
    BY DEF ChatTable
<1>6. TelegramBot!Rows' = {botSubs'[i] : i \in 1..Len(botSubs')}
    <2>1. DOMAIN botSubs' = 1..Len(botSubs')
        BY <1>4 DEF ChatTable
    <2> QED BY <2>1 DEF TelegramBot!Rows, TelegramBot!Range
<1>7. TelegramBot!Rows' = TelegramBot!Rows \cup {row}
    <2>1. \A i \in 1..Len(botSubs) : i + 1 \in 1..Len(botSubs')
        BY <1>4, <1>5
    <2>2. \A i \in 1..Len(botSubs') : i = 1 \/ (i - 1 \in 1..Len(botSubs) /\ (i - 1) + 1 = i)
        BY <1>4, <1>5
    <2>3. TelegramBot!Rows \cup {row} \subseteq TelegramBot!Rows'
        <3>1. 1 \in 1..Len(botSubs')
            BY <1>4, <1>5
        <3> QED BY <1>4, <1>6, <2>1, <3>1, BotRows
    <2>4. ASSUME NEW i \in 1..Len(botSubs')
          PROVE  botSubs'[i] \in TelegramBot!Rows \cup {row}
        <3>1. CASE i = 1
            BY <1>4, <3>1
        <3>2. CASE i # 1
            <4> DEFINE j == i - 1
            <4>1. j \in 1..Len(botSubs) /\ j + 1 = i
                BY <2>2, <2>4, <3>2
            <4> HIDE DEF j
            <4>2. botSubs'[j + 1] = botSubs[j]
                BY <1>4, <4>1
            <4> QED BY <4>1, <4>2, BotRows
        <3> QED BY <3>1, <3>2
    <2> QED BY <1>6, <2>3, <2>4
<1> QED BY <1>1, <1>4, <1>7 DEF TelegramBot!Accepted

LEMMA BotManage ==
    ASSUME ChatTable(botSubs), TelegramBot!Manage
    PROVE  ChatTable(botSubs')
<1>0. /\ Len(botSubs) \in Nat /\ \A i \in 1..Len(botSubs) : botSubs[i] \in ChatRow
      /\ TelegramBot!Rows = {botSubs[i] : i \in 1..Len(botSubs)}
    BY BotRows
<1>1. ASSUME NEW c \in Chat, TelegramBot!ByChat(c) # {}
      PROVE  \E i \in 1..Len(botSubs) : TelegramBot!RowOf(c) = botSubs[i] /\ botSubs[i].chat = c
    <2>1. TelegramBot!RowOf(c) \in TelegramBot!ByChat(c)
        BY <1>1 DEF TelegramBot!RowOf
    <2> QED BY <1>0, <2>1 DEF TelegramBot!ByChat
\* A row that keeps the user of its chat.
<1>2. ASSUME NEW c \in Chat, NEW status \in {"pending", "accepted", "rejected"}, NEW a \in BOOLEAN,
             TelegramBot!ByChat(c) # {},
             botSubs' = TelegramBot!Edit(c, TelegramBot!Sub(c, TelegramBot!RowOf(c).user, status, a))
      PROVE  ChatTable(botSubs')
    <2> DEFINE row == TelegramBot!Sub(c, TelegramBot!RowOf(c).user, status, a)
    <2>1. PICK n \in 1..Len(botSubs) : TelegramBot!RowOf(c) = botSubs[n] /\ botSubs[n].chat = c
        BY <1>1, <1>2
    <2>2. row \in ChatRow /\ row.chat = c /\ row.user = botSubs[n].user
        BY <1>0, <2>1 DEF TelegramBot!Sub, ChatRow
    <2> HIDE DEF row
    <2>3. botSubs' = [i \in 1..Len(botSubs) |-> IF botSubs[i].chat = row.chat THEN row ELSE botSubs[i]]
        BY <1>2, <2>2 DEF row, TelegramBot!Edit
    <2>4. row.user = "unknown" \/ \A i \in 1..Len(botSubs) : botSubs[i].user = row.user => botSubs[i].chat = row.chat
        BY <2>1, <2>2 DEF ChatTable
    <2> QED BY <2>2, <2>3, <2>4, ChatEdited
<1>3. ASSUME NEW c \in Chat, NEW a \in BOOLEAN, NEW u \in {"unknown", SentBy[c]}, TelegramBot!CreateAccepted(c, u, a)
      PROVE  ChatTable(botSubs')
    <2>1. CASE TelegramBot!ByChat(c) = {}
        <3> DEFINE row == TelegramBot!Sub(c, u, "accepted", a)
        <3>1. row \in ChatRow /\ row.chat = c /\ row.user = u
            BY <1>3, Assumptions DEF TelegramBot!SubscriptionsAssumption, ChatRow, TelegramBot!Sub
        <3>2. botSubs' = <<row>> \o botSubs
            BY <1>3, <2>1 DEF TelegramBot!CreateAccepted
        <3> HIDE DEF row
        <3>3. \A i \in 1..Len(botSubs) : botSubs[i].chat # c
            BY <1>0, <2>1 DEF TelegramBot!ByChat
        <3>4. \A i \in 1..Len(botSubs) : botSubs[i].user = u => botSubs[i].user = "unknown"
            BY <1>0, <1>3, <3>3 DEF TelegramBot!CreateAccepted, TelegramBot!ByUser
        <3> QED BY <3>1, <3>2, <3>3, <3>4, ChatAdded
    <2>2. CASE TelegramBot!ByChat(c) # {} /\ u = "unknown"
        <3>1. botSubs' = TelegramBot!Edit(c, TelegramBot!Sub(c, TelegramBot!RowOf(c).user, "accepted", a))
            BY <1>3, <2>2 DEF TelegramBot!CreateAccepted
        <3> QED BY <1>2, <2>2, <3>1
    <2>3. CASE TelegramBot!ByChat(c) # {} /\ u # "unknown"
        <3> DEFINE row == TelegramBot!Sub(c, u, "accepted", a)
        <3>1. row \in ChatRow /\ row.chat = c /\ row.user = u
            BY <1>3, Assumptions DEF TelegramBot!SubscriptionsAssumption, ChatRow, TelegramBot!Sub
        <3>2. botSubs' = [i \in 1..Len(botSubs) |-> IF botSubs[i].chat = c THEN row ELSE botSubs[i]]
            BY <1>3, <2>3 DEF TelegramBot!CreateAccepted, TelegramBot!Edit
        <3> HIDE DEF row
        <3>3. \A i \in 1..Len(botSubs) : botSubs[i].user = u => botSubs[i].chat = c
            BY <1>0, <1>3, <2>3 DEF TelegramBot!CreateAccepted, TelegramBot!ByUser
        <3> QED BY <3>1, <3>2, <3>3, ChatEdited
    <2> QED BY <2>1, <2>2, <2>3
<1>4. ASSUME NEW c \in Chat, NEW a \in BOOLEAN, TelegramBot!Accept(c, a)
      PROVE  ChatTable(botSubs')
    <2>1. TelegramBot!ByChat(c) # {} /\ botSubs' = TelegramBot!Edit(c, TelegramBot!Sub(c, TelegramBot!RowOf(c).user, "accepted", a))
        BY <1>4 DEF TelegramBot!Accept, TelegramBot!HasStatus
    <2> QED BY <1>2, <2>1
<1>5. ASSUME NEW c \in Chat, TelegramBot!Reject(c)
      PROVE  ChatTable(botSubs')
    <2> DEFINE a == TelegramBot!RowOf(c).alertOrder
    <2>1. TelegramBot!ByChat(c) # {} /\ botSubs' = TelegramBot!Edit(c, TelegramBot!Sub(c, TelegramBot!RowOf(c).user, "rejected", a))
        BY <1>5 DEF TelegramBot!Reject, TelegramBot!HasStatus
    <2>2. a \in BOOLEAN
        BY <1>0, <1>1, <2>1 DEF ChatRow
    <2> HIDE DEF a
    <2> QED BY <1>2, <2>1, <2>2
<1>6. ASSUME NEW c \in Chat, TelegramBot!Delete(c)
      PROVE  ChatTable(botSubs')
    BY <1>6, ChatRemoved DEF TelegramBot!Delete
<1> QED BY <1>3, <1>4, <1>5, <1>6 DEF TelegramBot!Manage

LEMMA BotStart ==
    ASSUME TelegramBot!TelegramBotAssumption, TelegramBot!Init
    PROVE  TelegramBot!BotInv
<1>1. ChatTable(botSubs)
    BY DEF TelegramBot!Init, ChatTable
<1>2. TelegramBot!TableOK
    BY <1>1, BotTable
<1>3. 1 \in 1..(MaxUpdate + 1) /\ 0 \in 0..MaxUpdate /\ 1..0 = {}
    BY DEF TelegramBot!TelegramBotAssumption
<1> QED BY <1>2, <1>3 DEF TelegramBot!Init, TelegramBot!BotInv, TelegramBot!UpdatesAreNotLost

\* A step of the processor on its update, or the end of it, leaves what was begun.
LEMMA BotHandles ==
    ASSUME TelegramBot!BotInv, UNCHANGED <<botOffset, batch, confirmed>>, ChatTable(botSubs'),
           \/ /\ bot # TelegramBot!NoUpdate /\ handled' = handled
              /\ \E to \in {"find user", "insert", "reply"} : \E f :
                    bot' = [bot EXCEPT !.pc = to, !.found = f] \/ bot' = [bot EXCEPT !.pc = to]
           \/ TelegramBot!Done
           \/ bot' = bot /\ handled' = handled
    PROVE  TelegramBot!BotInv'
<1>1. TelegramBot!TableOK'
    <2>1. (TelegramBot!TableOK <=> ChatTable(botSubs))'
        BY BotTable, PTL
    <2> QED BY <2>1
<1>2. /\ bot' = TelegramBot!NoUpdate
           \/ /\ bot' = [pc |-> bot'.pc, id |-> bot'.id, chat |-> bot'.chat, found |-> bot'.found]
              /\ bot'.pc # "idle" /\ bot'.id \in 1..MaxUpdate /\ bot'.chat \in Chat
      /\ handled \subseteq handled'
      /\ bot.id \in handled' \/ bot'.id = bot.id
    <2>1. CASE TelegramBot!Done
        BY <2>1 DEF TelegramBot!Done
    <2>2. CASE bot' = bot /\ handled' = handled
        BY <2>2 DEF TelegramBot!BotInv
    <2>3. ASSUME bot # TelegramBot!NoUpdate, handled' = handled,
                 NEW to \in {"find user", "insert", "reply"}, NEW f,
                 bot' = [bot EXCEPT !.pc = to, !.found = f] \/ bot' = [bot EXCEPT !.pc = to]
          PROVE  /\ bot' = [pc |-> bot'.pc, id |-> bot'.id, chat |-> bot'.chat, found |-> bot'.found]
                 /\ bot'.pc # "idle" /\ bot'.id = bot.id /\ bot'.chat = bot.chat
        <3>1. bot = [pc |-> bot.pc, id |-> bot.id, chat |-> bot.chat, found |-> bot.found]
            BY <2>3 DEF TelegramBot!BotInv
        <3>2. bot' = [pc |-> to, id |-> bot.id, chat |-> bot.chat, found |-> f]
                \/ bot' = [pc |-> to, id |-> bot.id, chat |-> bot.chat, found |-> bot.found]
            BY <2>3, <3>1
        <3> QED BY <2>3, <3>2
    <2>4. CASE bot # TelegramBot!NoUpdate /\ bot'.id = bot.id /\ handled' = handled /\ bot'.pc # "idle"
                 /\ bot'.chat = bot.chat
                 /\ bot' = [pc |-> bot'.pc, id |-> bot'.id, chat |-> bot'.chat, found |-> bot'.found]
        BY <2>4 DEF TelegramBot!BotInv
    <2> QED BY <2>1, <2>2, <2>3, <2>4
<1>3. \A n : TelegramBot!Begun(n) => TelegramBot!Begun(n)'
    BY <1>2 DEF TelegramBot!Begun
<1>4. TelegramBot!UpdatesAreNotLost'
    BY <1>2 DEF TelegramBot!BotInv, TelegramBot!UpdatesAreNotLost
<1>5. \A n \in 1..(botOffset - 1) : TelegramBot!Begun(n)'
    BY <1>3 DEF TelegramBot!BotInv
<1>6. PICK first \in 1..(MaxUpdate + 1), last \in 0..MaxUpdate :
          batch = first..last /\ \A n \in 1..(first - 1) : TelegramBot!Begun(n)
    BY DEF TelegramBot!BotInv
<1>7. batch' = first..last /\ \A n \in 1..(first - 1) : TelegramBot!Begun(n)'
    BY <1>3, <1>6
<1> QED BY <1>1, <1>2, <1>4, <1>5, <1>7 DEF TelegramBot!BotInv

\* Asking confirms what is below the offset, all of which is handled by then.
LEMMA BotAsks ==
    ASSUME TelegramBot!TelegramBotAssumption, TelegramBot!BotInv, TelegramBot!GetUpdates
    PROVE  TelegramBot!BotInv'
<1>1. /\ bot = TelegramBot!NoUpdate /\ bot' = bot
      /\ UNCHANGED <<botSubs, botOffset, handled>>
      /\ confirmed' = IF confirmed > botOffset THEN confirmed ELSE botOffset
    BY DEF TelegramBot!GetUpdates, TelegramBot!Ask, TelegramBot!Larger
<1>2. PICK last \in (confirmed' - 1)..MaxUpdate : batch' = confirmed'..last
    BY DEF TelegramBot!GetUpdates, TelegramBot!Ask
<1>3. confirmed \in Nat \ {0} /\ botOffset \in Nat /\ bot.id = 0
    BY <1>1 DEF TelegramBot!BotInv, TelegramBot!NoUpdate
<1>4. \A n \in 1..(confirmed' - 1) : n \in handled
    <2>1. \A n \in 1..(confirmed - 1) : n \in handled
        BY DEF TelegramBot!BotInv, TelegramBot!UpdatesAreNotLost
    <2>2. \A n \in 1..(botOffset - 1) : n \in handled
        BY <1>3 DEF TelegramBot!BotInv, TelegramBot!Begun
    <2> QED BY <1>1, <1>3, <2>1, <2>2
<1>5. confirmed' \in 1..(MaxUpdate + 1) /\ last \in 0..MaxUpdate
    BY <1>1, <1>2, <1>3 DEF TelegramBot!TelegramBotAssumption
<1>6. TelegramBot!TableOK'
    BY <1>1 DEF TelegramBot!BotInv, TelegramBot!TableOK
<1>7. \A n \in 1..(botOffset - 1) : TelegramBot!Begun(n)'
    BY <1>1 DEF TelegramBot!BotInv, TelegramBot!Begun
<1>8. \A n \in 1..(confirmed' - 1) : TelegramBot!Begun(n)'
    BY <1>1, <1>4 DEF TelegramBot!Begun
<1>9. TelegramBot!UpdatesAreNotLost'
    BY <1>1, <1>4 DEF TelegramBot!UpdatesAreNotLost
<1> QED BY <1>1, <1>2, <1>3, <1>5, <1>6, <1>7, <1>8, <1>9 DEF TelegramBot!BotInv

\* The first update of the batch is begun, and nothing below it is left.
LEMMA BotBegins ==
    ASSUME TelegramBot!TelegramBotAssumption, TelegramBot!BotInv, NEW c \in Chat, TelegramBot!Handle(c)
    PROVE  TelegramBot!BotInv'
<1>1. PICK first \in 1..(MaxUpdate + 1), last \in 0..MaxUpdate :
          batch = first..last /\ \A k \in 1..(first - 1) : TelegramBot!Begun(k)
    BY DEF TelegramBot!BotInv
<1> DEFINE n == CHOOSE n \in batch : \A k \in batch : n <= k
<1>2. /\ bot = TelegramBot!NoUpdate /\ batch # {} /\ UNCHANGED <<botSubs, confirmed, handled>>
      /\ batch' = batch \ {n}
      /\ botOffset' = IF botOffset > n + 1 THEN botOffset ELSE n + 1
      /\ bot' = [pc |-> "find", id |-> n, chat |-> c, found |-> "none"]
    BY DEF TelegramBot!Handle, TelegramBot!Larger
<1>3. n = first
    <2>1. first \in batch /\ \A k \in batch : first <= k
        BY <1>1, <1>2
    <2>2. \A x \in batch : (\A k \in batch : x <= k) => x = first
        BY <1>1, <2>1
    <2>3. n \in batch /\ \A k \in batch : n <= k
        BY <2>1
    <2> QED BY <2>2, <2>3
<1> HIDE DEF n
<1>4. n \in 1..MaxUpdate /\ n + 1 \in 1..(MaxUpdate + 1) /\ botOffset \in Nat
    BY <1>1, <1>2, <1>3 DEF TelegramBot!BotInv, TelegramBot!TelegramBotAssumption
<1>5. batch' = (n + 1)..last
    BY <1>1, <1>2, <1>3
<1>6. \A k \in Int : (TelegramBot!Begun(k) /\ 1 <= k) => k \in handled
    BY <1>2 DEF TelegramBot!Begun, TelegramBot!NoUpdate
<1>7. \A k \in 1..n : TelegramBot!Begun(k)'
    BY <1>1, <1>2, <1>3, <1>6 DEF TelegramBot!Begun
<1>8. \A k \in 1..(botOffset - 1) : TelegramBot!Begun(k)'
    BY <1>2, <1>6 DEF TelegramBot!BotInv, TelegramBot!Begun
<1>9. botOffset' \in Nat /\ \A k \in 1..(botOffset' - 1) : TelegramBot!Begun(k)'
    BY <1>2, <1>4, <1>7, <1>8
<1>10. TelegramBot!TableOK' /\ TelegramBot!UpdatesAreNotLost'
    BY <1>2 DEF TelegramBot!BotInv, TelegramBot!TableOK, TelegramBot!UpdatesAreNotLost
<1>11. \A k \in 1..((n + 1) - 1) : TelegramBot!Begun(k)'
    BY <1>4, <1>7
<1>12. /\ bot' = [pc |-> bot'.pc, id |-> bot'.id, chat |-> bot'.chat, found |-> bot'.found]
       /\ bot'.pc # "idle" /\ bot'.id \in 1..MaxUpdate /\ bot'.chat \in Chat
    BY <1>2, <1>4
<1>13. confirmed' \in Nat \ {0}
    BY <1>2 DEF TelegramBot!BotInv
<1> QED BY <1>4, <1>5, <1>9, <1>10, <1>11, <1>12, <1>13 DEF TelegramBot!BotInv

LEMMA BotStep ==
    ASSUME TelegramBot!TelegramBotAssumption, TelegramBot!BotInv, TelegramBot!Next
    PROVE  TelegramBot!BotInv'
<1>1. ChatTable(botSubs)
    BY BotTable DEF TelegramBot!BotInv
<1>2. CASE TelegramBot!GetUpdates
    BY <1>2, BotAsks
<1>3. ASSUME NEW c \in Chat, TelegramBot!Handle(c)
      PROVE  TelegramBot!BotInv'
    BY <1>3, BotBegins
<1>4. CASE TelegramBot!Find
    <2>1. /\ bot.pc \in {"find", "find user"}
          /\ UNCHANGED <<botSubs, botOffset, batch, confirmed, handled>>
          /\ \E to \in {"find user", "insert", "reply"} : \E f :
                    bot' = [bot EXCEPT !.pc = to, !.found = f] \/ bot' = [bot EXCEPT !.pc = to]
        BY <1>4 DEF TelegramBot!Find
    <2>2. bot # TelegramBot!NoUpdate
        <3>1. bot.pc # "idle"
            BY <2>1
        <3> QED BY <3>1 DEF TelegramBot!NoUpdate
    <2>3. ChatTable(botSubs')
        BY <1>1, <2>1
    <2> QED BY <2>1, <2>2, <2>3, BotHandles
<1>5. CASE TelegramBot!UpsertPending
    <2>1. /\ bot.pc = "insert" /\ TelegramBot!Insert(bot.chat)
          /\ UNCHANGED <<botOffset, batch, confirmed, handled>>
          /\ bot' = [bot EXCEPT !.pc = "reply", !.found = "pending"]
        BY <1>5 DEF TelegramBot!UpsertPending
    <2>2. bot # TelegramBot!NoUpdate
        BY <2>1 DEF TelegramBot!NoUpdate
    <2>3. bot.chat \in Chat
        BY <2>2 DEF TelegramBot!BotInv
    <2>4. ChatTable(botSubs')
        BY <1>1, <2>1, <2>3, BotInsert
    <2> QED BY <2>1, <2>2, <2>4, BotHandles
<1>6. CASE TelegramBot!Refused \/ TelegramBot!replyStart
    <2>1. TelegramBot!Done /\ UNCHANGED <<botSubs, botOffset, batch, confirmed>>
        BY <1>6 DEF TelegramBot!Refused, TelegramBot!replyStart
    <2>2. ChatTable(botSubs')
        BY <1>1, <2>1
    <2> QED BY <2>1, <2>2, BotHandles
<1>7. CASE TelegramBot!Manage /\ UNCHANGED TelegramBot!botVars
    <2>1. UNCHANGED <<bot, botOffset, batch, confirmed, handled>>
        BY <1>7 DEF TelegramBot!botVars
    <2>2. ChatTable(botSubs')
        BY <1>1, <1>7, BotManage
    <2> QED BY <2>1, <2>2, BotHandles
<1>8. CASE TelegramBot!Restart
    <2>1. /\ bot' = TelegramBot!NoUpdate /\ botOffset' = 0 /\ batch' = {}
          /\ UNCHANGED <<botSubs, confirmed, handled>>
        BY <1>8 DEF TelegramBot!Restart
    <2>2. 1 \in 1..(MaxUpdate + 1) /\ 0 \in 0..MaxUpdate /\ 1..0 = {}
        BY DEF TelegramBot!TelegramBotAssumption
    <2>3. TelegramBot!TableOK' /\ TelegramBot!UpdatesAreNotLost' /\ confirmed' \in Nat \ {0}
        BY <2>1 DEF TelegramBot!BotInv, TelegramBot!TableOK, TelegramBot!UpdatesAreNotLost
    <2> QED BY <2>1, <2>2, <2>3 DEF TelegramBot!BotInv
<1> QED BY <1>2, <1>3, <1>4, <1>5, <1>6, <1>7, <1>8 DEF TelegramBot!Next

-----------------------------------------------------------------------------
(* Coupons *)

\* A row of the table can be told from the absence of one, and a patched row is a row.
LEMMA CouponRows ==
    /\ \A row \in Coupons!Row : row # Coupons!None
    /\ \A row \in Coupons!Row, patch \in Coupons!Patch : Coupons!Merge(row, patch) \in Coupons!Row
    /\ \A x \in [code : Code, patch : Coupons!Patch, read : Coupons!Row] : x # Coupons!Idle
<1>1. ASSUME NEW row \in Coupons!Row
      PROVE  row # Coupons!None /\ DOMAIN row = {"discount", "active"}
             /\ row.discount \in Discount /\ row.active \in BOOLEAN
    <2>1. "discount" \in DOMAIN row /\ "discount" \notin DOMAIN Coupons!None
        BY DEF Coupons!Row, Coupons!None
    <2> QED BY <2>1 DEF Coupons!Row
<1>2. ASSUME NEW row \in Coupons!Row, NEW patch \in Coupons!Patch
      PROVE  Coupons!Merge(row, patch) \in Coupons!Row
    <2> DEFINE d == IF "discount" \in DOMAIN patch THEN patch.discount ELSE row.discount
               a == IF "active" \in DOMAIN patch THEN patch.active ELSE row.active
    <2>1. d \in Discount /\ a \in BOOLEAN
        BY <1>1 DEF Coupons!Patch
    <2>2. Coupons!Merge(row, patch) = [discount |-> d, active |-> a]
        BY <1>1 DEF Coupons!Merge
    <2> HIDE DEF d, a
    <2> QED BY <2>1, <2>2 DEF Coupons!Row
<1>3. ASSUME NEW x \in [code : Code, patch : Coupons!Patch, read : Coupons!Row]
      PROVE  x # Coupons!Idle
    BY <1>1 DEF Coupons!Idle
<1> QED BY <1>1, <1>2, <1>3

LEMMA CouponsStart ==
    ASSUME Coupons!Init
    PROVE  Coupons!CouponsInv
<1>1. coupons \in [Code -> {Coupons!None} \cup Coupons!Row]
    BY DEF Coupons!Init
<1> QED BY <1>1 DEF Coupons!Init, Coupons!CouponsInv, Coupons!DeletedStaysDeleted

\* A step that writes one coupon, and what staff say of it.
LEMMA CouponsWrite ==
    ASSUME Coupons!CouponsInv, NEW c \in Code, NEW row \in {Coupons!None} \cup Coupons!Row,
           NEW said \in {Coupons!None} \cup Coupons!Row,
           coupons' = [coupons EXCEPT ![c] = row], offered' = [offered EXCEPT ![c] = said],
           stale \subseteq stale', c \in stale' \/ row = said,
           row = Coupons!None <=> said = Coupons!None,
           couponReq' \in [Request -> {Coupons!Idle}
                               \cup [code : Code, patch : Coupons!Patch, read : Coupons!Row]]
    PROVE  Coupons!CouponsInv'
<1>1. /\ coupons' \in [Code -> {Coupons!None} \cup Coupons!Row]
      /\ offered' \in [Code -> {Coupons!None} \cup Coupons!Row]
    BY DEF Coupons!CouponsInv
<1>2. \A d \in Code : /\ coupons'[d] = (IF d = c THEN row ELSE coupons[d])
                      /\ offered'[d] = (IF d = c THEN said ELSE offered[d])
    BY DEF Coupons!CouponsInv
<1>3. \A d \in Code \ stale' : coupons'[d] = offered'[d]
    BY <1>2 DEF Coupons!CouponsInv
<1>4. Coupons!DeletedStaysDeleted'
    BY <1>2 DEF Coupons!CouponsInv, Coupons!DeletedStaysDeleted
<1> QED BY <1>1, <1>3, <1>4 DEF Coupons!CouponsInv

LEMMA CouponsStep ==
    ASSUME Coupons!CouponsInv, Coupons!Next
    PROVE  Coupons!CouponsInv'
<1>0. /\ coupons \in [Code -> {Coupons!None} \cup Coupons!Row]
      /\ offered \in [Code -> {Coupons!None} \cup Coupons!Row]
      /\ couponReq \in [Request -> {Coupons!Idle}
                           \cup [code : Code, patch : Coupons!Patch, read : Coupons!Row]]
      /\ \A c \in Code \ stale : coupons[c] = offered[c]
      /\ \A c \in Code : offered[c] = Coupons!None <=> coupons[c] = Coupons!None
    BY DEF Coupons!CouponsInv, Coupons!DeletedStaysDeleted
<1>1. ASSUME NEW c \in Code, NEW row \in Coupons!Row, Coupons!Create(c, row)
      PROVE  Coupons!CouponsInv'
    <2>1. /\ coupons' = [coupons EXCEPT ![c] = row] /\ offered' = [offered EXCEPT ![c] = row]
          /\ UNCHANGED <<couponReq, stale>>
        BY <1>1 DEF Coupons!Create
    <2> QED BY <1>0, <2>1, CouponsWrite
<1>2. ASSUME NEW c \in Code, Coupons!Delete(c)
      PROVE  Coupons!CouponsInv'
    <2>1. /\ coupons' = [coupons EXCEPT ![c] = Coupons!None]
          /\ offered' = [offered EXCEPT ![c] = Coupons!None]
          /\ UNCHANGED <<couponReq, stale>>
        BY <1>2 DEF Coupons!Delete
    <2> QED BY <1>0, <2>1, CouponsWrite
<1>3. ASSUME UNCHANGED <<coupons, offered, stale>>,
             couponReq' \in [Request -> {Coupons!Idle}
                                 \cup [code : Code, patch : Coupons!Patch, read : Coupons!Row]]
      PROVE  Coupons!CouponsInv'
    BY <1>0, <1>3 DEF Coupons!CouponsInv, Coupons!DeletedStaysDeleted
<1>4. ASSUME NEW q \in Request, NEW c \in Code, Coupons!Read(q, c)
      PROVE  Coupons!CouponsInv'
    <2>1. PICK patch \in Coupons!Patch :
              couponReq' = [couponReq EXCEPT ![q] = [code |-> c, patch |-> patch, read |-> coupons[c]]]
        BY <1>4 DEF Coupons!Read
    <2>2. coupons[c] \in Coupons!Row /\ UNCHANGED <<coupons, offered, stale>>
        BY <1>0, <1>4 DEF Coupons!Read
    <2>3. [code |-> c, patch |-> patch, read |-> coupons[c]]
              \in [code : Code, patch : Coupons!Patch, read : Coupons!Row]
        BY <2>2
    <2> QED BY <1>0, <1>3, <2>1, <2>2, <2>3
<1>5. ASSUME NEW q \in Request, Coupons!Fail(q)
      PROVE  Coupons!CouponsInv'
    <2>1. couponReq' = [couponReq EXCEPT ![q] = Coupons!Idle] /\ UNCHANGED <<coupons, offered, stale>>
        BY <1>5 DEF Coupons!Fail
    <2> QED BY <1>0, <1>3, <2>1
<1>6. ASSUME NEW q \in Request, Coupons!Save(q)
      PROVE  Coupons!CouponsInv'
    <2> DEFINE c == couponReq[q].code
               patch == couponReq[q].patch
               read == couponReq[q].read
               row == IF coupons[c] = Coupons!None THEN Coupons!None ELSE Coupons!Merge(read, patch)
               said == IF offered[c] = Coupons!None THEN Coupons!None
                       ELSE Coupons!Merge(offered[c], patch)
    <2>1. couponReq[q] \in [code : Code, patch : Coupons!Patch, read : Coupons!Row]
        BY <1>0, <1>6 DEF Coupons!Save
    <2>2. c \in Code /\ patch \in Coupons!Patch /\ read \in Coupons!Row
        BY <2>1
    <2>3. /\ coupons' = IF coupons[c] = Coupons!None THEN coupons
                        ELSE [coupons EXCEPT ![c] = Coupons!Merge(read, patch)]
          /\ offered' = [offered EXCEPT ![c] = IF @ = Coupons!None THEN @ ELSE Coupons!Merge(@, patch)]
          /\ stale' = IF coupons[c] # read THEN stale \cup {c} ELSE stale
          /\ couponReq' = [couponReq EXCEPT ![q] = Coupons!Idle]
        BY <1>6 DEF Coupons!Save
    <2> HIDE DEF c, patch, read
    <2>4. coupons' = [coupons EXCEPT ![c] = row] /\ offered' = [offered EXCEPT ![c] = said]
        BY <1>0, <2>2, <2>3
    <2>5. row \in {Coupons!None} \cup Coupons!Row /\ said \in {Coupons!None} \cup Coupons!Row
        BY <1>0, <2>2, CouponRows
    <2>6. row = Coupons!None <=> said = Coupons!None
        BY <1>0, <2>2, CouponRows
    <2>7. c \in stale' \/ row = said
        BY <1>0, <2>2, <2>3, CouponRows
    <2>8. couponReq' \in [Request -> {Coupons!Idle}
                             \cup [code : Code, patch : Coupons!Patch, read : Coupons!Row]]
        BY <1>0, <2>3
    <2>9. stale \subseteq stale'
        BY <2>3
    <2> HIDE DEF row, said
    <2> QED BY <2>2, <2>4, <2>5, <2>6, <2>7, <2>8, <2>9, CouponsWrite
<1> QED BY <1>1, <1>2, <1>4, <1>5, <1>6 DEF Coupons!Next

LEMMA CouponsSay ==
    ASSUME Coupons!CouponsInv
    PROVE  Coupons!RedeemedAsOffered /\ Coupons!DeletedStaysDeleted
BY DEF Coupons!CouponsInv, Coupons!RedeemedAsOffered, Coupons!Redeemable

LEMMA CouponsStay ==
    ASSUME Coupons!CouponsInv, UNCHANGED couponVars
    PROVE  Coupons!CouponsInv'
BY DEF couponVars, Coupons!CouponsInv, Coupons!DeletedStaysDeleted

-----------------------------------------------------------------------------
(* The two stores of the order service *)

LEMMA StoresRow ==
    ASSUME NEW row
    PROVE  row \in OrderStores!Row <=>
             /\ row = [status |-> row.status, payment |-> row.payment,
                       reservation |-> row.reservation, due |-> row.due]
             /\ row.status \in OrderStores!Status /\ row.payment \in Thing \cup {NoPayment}
             /\ row.reservation \in 0..MaxReservation /\ row.due \in 0..MaxClock
BY DEF OrderStores!Row

LEMMA StoresNoRow ==
    ASSUME OrderStores!OrderStoresAssumption
    PROVE  /\ OrderStores!NoRow \in OrderStores!Row /\ OrderStores!NoRow.status = "none"
           /\ OrderStores!NamesItsPayment(OrderStores!NoRow)
           /\ OrderStores!NewOrder \in OrderStores!Row => OrderStores!NewOrder.status = "pending"
BY DEF OrderStores!OrderStoresAssumption, OrderStores!NoRow, OrderStores!Row, OrderStores!Status,
       OrderStores!NamesItsPayment, OrderStores!NewOrder

\* A caller that has read an order holds it, with the row of each store.
LEMMA StoresCopies ==
    ASSUME OrderStores!OrdersInv, NEW c \in Request, copy[c] # OrderStores!Nothing
    PROVE  /\ copy[c].order \in Order /\ copy[c] \in OrderStores!Copy
           /\ \A s \in OrderStores!Store : copy[c].row[s] \in OrderStores!Row
           /\ OrderStores!CopyOK(copy[c])
<1>1. copy[c] \in [order : Order, row : [OrderStores!Store -> OrderStores!Row]]
    BY DEF OrderStores!OrdersInv, OrderStores!TypeOK, OrderStores!Copy
<1> QED BY <1>1 DEF OrderStores!OrdersInv, OrderStores!Copy

LEMMA StoresStart ==
    ASSUME OrderStores!OrderStoresAssumption, OrderStores!Init
    PROVE  OrderStores!StoresInv
<1>1. /\ rows = [s \in OrderStores!Store |-> [o \in Order |-> OrderStores!NoRow]]
      /\ told = [s \in OrderStores!Store |-> [o \in Order |-> "none"]]
      /\ keys = [s \in OrderStores!Store |-> [k \in OrderKey |-> NoOrder]]
      /\ session = [s \in OrderStores!Store |-> OrderStores!OpenSession]
      /\ copy = [c \in Request |-> OrderStores!Nothing]
      /\ draft = [c \in Request |-> OrderStores!Nothing]
      /\ clock = 0
    BY DEF OrderStores!Init
<1>2. OrderStores!TypeOK
    BY <1>1, StoresNoRow DEF OrderStores!TypeOK, OrderStores!OrderStoresAssumption, OrderStores!OpenSession,
       OrderStores!Session, OrderStores!Copy, OrderStores!Draft, OrderStores!Status
<1>3. OrderStores!OrdersAgree /\ OrderStores!EventsTellTheRow
    BY <1>1, StoresNoRow DEF OrderStores!OrdersAgree, OrderStores!SameOrder, OrderStores!EventsTellTheRow,
       OrderStores!Store
<1>4. \A c \in Request : OrderStores!CopyOK(copy[c])
    BY <1>1 DEF OrderStores!CopyOK
<1>5. keys["memory"] = keys["postgres"] /\ session["memory"] = session["postgres"]
    BY <1>1 DEF OrderStores!Store
<1> QED BY <1>1, <1>2, <1>3, <1>4, <1>5 DEF OrderStores!StoresInv, OrderStores!OrdersInv,
           OrderStores!SessionsInv

\* What a call may make of the rows of one order, if both stores have them: the same, a
\* pending one as it was, and of a status that its event tells.
Written(o, pg, mem, status) ==
    /\ OrderStores!SameOrder(pg, mem)
    /\ \A s \in OrderStores!Store :
          LET new == IF s = "postgres" THEN pg ELSE mem IN
          /\ new \in OrderStores!Row /\ OrderStores!NamesItsPayment(new)
          /\ new = rows[s][o] \/ (new.status = status /\ status \notin {"none", "pending"})
    /\ rows["postgres"][o].status = "paid" /\ pg.status = "in_transit" =>
          pg = [rows["postgres"][o] EXCEPT !.status = "in_transit"]

LEMMA StoresWrite ==
    ASSUME OrderStores!OrdersInv, NEW o \in Order, NEW pg, NEW mem,
           NEW status \in OrderStores!Status,
           OrderStores!Write(o, pg, mem, status), Written(o, pg, mem, status),
           copy' = copy \/ \E c \in Request : copy' = [copy EXCEPT ![c] = OrderStores!Nothing]
    PROVE  /\ OrderStores!OrdersInv' /\ OrderStores!ShipKeepsPaymentStep
           /\ OrderStores!OneOrderPerKeyStep
<1> DEFINE new == [postgres |-> pg, memory |-> mem]
<1>1. /\ rows' = [s \in OrderStores!Store |-> [rows[s] EXCEPT ![o] = new[s]]]
      /\ told' = [s \in OrderStores!Store |-> [told[s] EXCEPT
                    ![o] = IF new[s] = rows[s][o] THEN @ ELSE status]]
      /\ UNCHANGED <<keys, clock, session, draft>>
    BY DEF OrderStores!Write, OrderStores!SessionsUnchanged
<1>2. /\ rows \in [OrderStores!Store -> [Order -> OrderStores!Row]]
      /\ told \in [OrderStores!Store -> [Order -> OrderStores!Status]]
      /\ keys \in [OrderStores!Store -> [OrderKey -> Order \cup {NoOrder}]]
      /\ session \in [OrderStores!Store -> OrderStores!Session]
      /\ copy \in [Request -> OrderStores!Copy] /\ draft \in [Request -> OrderStores!Draft]
      /\ clock \in 0..MaxClock
      /\ \A s \in OrderStores!Store, p \in Order :
            /\ OrderStores!NamesItsPayment(rows[s][p]) /\ told[s][p] = rows[s][p].status
            /\ rows[s][p].status = "none" => rows[s][p] = OrderStores!NoRow
      /\ \A p \in Order : OrderStores!SameOrder(rows["postgres"][p], rows["memory"][p])
      /\ \A c \in Request : OrderStores!CopyOK(copy[c])
      /\ keys["memory"] = keys["postgres"]
    BY DEF OrderStores!OrdersInv, OrderStores!TypeOK, OrderStores!EventsTellTheRow, OrderStores!OrdersAgree
<1>3. \A s \in OrderStores!Store : new[s] = (IF s = "postgres" THEN pg ELSE mem)
    BY DEF OrderStores!Store
<1>4. \A s \in OrderStores!Store :
          /\ new[s] \in OrderStores!Row /\ OrderStores!NamesItsPayment(new[s])
          /\ new[s] = rows[s][o] \/ (new[s].status = status /\ status \notin {"none", "pending"})
    BY <1>3 DEF Written
<1>5. OrderStores!SameOrder(new["postgres"], new["memory"])
    BY DEF Written
<1>6. "postgres" \in OrderStores!Store /\ "memory" \in OrderStores!Store
    BY DEF OrderStores!Store
<1>7. rows["postgres"][o].status = "paid" /\ new["postgres"].status = "in_transit" =>
          new["postgres"] = [rows["postgres"][o] EXCEPT !.status = "in_transit"]
    BY DEF Written
<1> HIDE DEF new
<1>8. \A s \in OrderStores!Store, p \in Order :
          /\ rows'[s][p] = (IF p = o THEN new[s] ELSE rows[s][p])
          /\ told'[s][p] = (IF p # o \/ new[s] = rows[s][o] THEN told[s][p] ELSE status)
    BY <1>1, <1>2
<1>9. /\ rows' \in [OrderStores!Store -> [Order -> OrderStores!Row]]
      /\ told' \in [OrderStores!Store -> [Order -> OrderStores!Status]]
    BY <1>1, <1>2, <1>4
<1>10. copy' \in [Request -> OrderStores!Copy]
       /\ \A c \in Request : copy'[c] = copy[c] \/ copy'[c] = OrderStores!Nothing
    BY <1>2 DEF OrderStores!Copy
<1>11. \A s \in OrderStores!Store, p \in Order :
            /\ OrderStores!NamesItsPayment(rows'[s][p]) /\ told'[s][p] = rows'[s][p].status
            /\ rows'[s][p].status = "none" => rows'[s][p] = OrderStores!NoRow
    BY <1>2, <1>4, <1>8
<1>12. \A p \in Order : OrderStores!SameOrder(rows'["postgres"][p], rows'["memory"][p])
    BY <1>2, <1>5, <1>6, <1>8
<1>13. \A c \in Request : OrderStores!CopyOK(copy[c])'
    <2> SUFFICES ASSUME NEW c \in Request, copy'[c] # OrderStores!Nothing
                 PROVE  OrderStores!CopyOK(copy[c])'
        BY DEF OrderStores!CopyOK
    <2>1. copy'[c] = copy[c]
        BY <1>10
    <2>2. copy[c].order \in Order /\ OrderStores!CopyOK(copy[c])
        BY <2>1, StoresCopies
    <2> DEFINE x == copy[c]
    <2>3. /\ OrderStores!SameOrder(x.row["postgres"], x.row["memory"])
          /\ \A s \in OrderStores!Store :
                /\ OrderStores!NamesItsPayment(x.row[s]) /\ x.row[s].status # "none"
                /\ rows[s][x.order] # OrderStores!NoRow
                /\ rows[s][x.order].status = "pending" => x.row[s] = rows[s][x.order]
        BY <2>1, <2>2 DEF OrderStores!CopyOK
    <2> HIDE DEF x
    <2>4. \A s \in OrderStores!Store :
                /\ rows'[s][x.order] # OrderStores!NoRow
                /\ rows'[s][x.order].status = "pending" => x.row[s] = rows'[s][x.order]
        <3> SUFFICES ASSUME NEW s \in OrderStores!Store
                     PROVE  /\ rows'[s][x.order] # OrderStores!NoRow
                            /\ rows'[s][x.order].status = "pending" => x.row[s] = rows'[s][x.order]
            OBVIOUS
        <3>1. CASE rows'[s][x.order] = rows[s][x.order]
            BY <2>3, <3>1
        <3>2. CASE rows'[s][x.order] # rows[s][x.order]
            <4>1. rows'[s][x.order].status = status /\ status \notin {"none", "pending"}
                BY <1>4, <1>8, <2>2, <3>2 DEF x
            <4>2. OrderStores!NoRow.status = "none"
                BY DEF OrderStores!NoRow
            <4> QED BY <4>1, <4>2
        <3> QED BY <3>1, <3>2
    <2> QED BY <2>1, <2>3, <2>4 DEF OrderStores!CopyOK, x
<1>14. OrderStores!TypeOK'
    BY <1>1, <1>2, <1>9, <1>10, <1>11 DEF OrderStores!TypeOK
<1>15. OrderStores!OrdersInv'
    BY <1>1, <1>2, <1>11, <1>12, <1>13, <1>14 DEF OrderStores!OrdersInv, OrderStores!OrdersAgree,
       OrderStores!EventsTellTheRow
<1>16. OrderStores!ShipKeepsPaymentStep
    BY <1>6, <1>7, <1>8 DEF OrderStores!ShipKeepsPaymentStep
<1>17. OrderStores!OneOrderPerKeyStep
    BY <1>1, <1>2 DEF OrderStores!OneOrderPerKeyStep
<1> QED BY <1>15, <1>16, <1>17

\* The rows as they are, and one row for both.
LEMMA StoresKeep ==
    ASSUME OrderStores!OrdersInv, NEW o \in Order, NEW status
    PROVE  Written(o, rows["postgres"][o], rows["memory"][o], status)
<1>1. /\ OrderStores!SameOrder(rows["postgres"][o], rows["memory"][o])
      /\ rows \in [OrderStores!Store -> [Order -> OrderStores!Row]]
      /\ \A s \in OrderStores!Store : OrderStores!NamesItsPayment(rows[s][o])
    BY DEF OrderStores!OrdersInv, OrderStores!TypeOK, OrderStores!OrdersAgree
<1> QED BY <1>1 DEF Written, OrderStores!Store

LEMMA StoresTwice ==
    ASSUME NEW o, NEW row \in OrderStores!Row, OrderStores!NamesItsPayment(row),
           row.status \notin {"none", "pending", "in_transit"}
    PROVE  Written(o, row, row, row.status)
BY DEF Written, OrderStores!SameOrder, OrderStores!Store

\* The two rows of an order, and the one that they are until it is shipped.
LEMMA StoresRows ==
    ASSUME OrderStores!OrdersInv, NEW o \in Order
    PROVE  /\ rows["postgres"][o] \in OrderStores!Row /\ rows["memory"][o] \in OrderStores!Row
           /\ rows["memory"][o].status = rows["postgres"][o].status
           /\ rows["memory"][o].status \notin {"in_transit", "fulfilled"} =>
                    rows["memory"][o] = rows["postgres"][o]
           /\ OrderStores!NamesItsPayment(rows["postgres"][o])
           /\ OrderStores!NamesItsPayment(rows["memory"][o])
BY DEF OrderStores!OrdersInv, OrderStores!TypeOK, OrderStores!OrdersAgree, OrderStores!SameOrder,
       OrderStores!Store

\* What the fields of a row are once it is paid, and once it has a new reservation.
LEMMA StoresMarkPaid ==
    ASSUME NEW x, NEW st, NEW pay, NEW res, NEW due,
           x = [status |-> st, payment |-> pay, reservation |-> res, due |-> due], NEW m
    PROVE  OrderStores!MarkPaid(x, m) =
                [status |-> "paid", payment |-> m, reservation |-> res, due |-> due]
<1> DEFINE a == [x EXCEPT !.status = "paid"]
<1>1. a = [status |-> "paid", payment |-> pay, reservation |-> res, due |-> due]
    OBVIOUS
<1>2. OrderStores!MarkPaid(x, m) = [a EXCEPT !.payment = m]
    BY DEF OrderStores!MarkPaid
<1> HIDE DEF a
<1>3. [a EXCEPT !.payment = m] = [status |-> "paid", payment |-> m, reservation |-> res, due |-> due]
    BY <1>1
<1> QED BY <1>2, <1>3

LEMMA StoresReinstate ==
    ASSUME NEW x, NEW st, NEW pay, NEW res, NEW due,
           x = [status |-> st, payment |-> pay, reservation |-> res, due |-> due], NEW r
    PROVE  OrderStores!ReinstateForLatePayment(x, r) =
                [status |-> st, payment |-> pay, reservation |-> r, due |-> clock]
<1> DEFINE a == [x EXCEPT !.reservation = r]
<1>1. a = [status |-> st, payment |-> pay, reservation |-> r, due |-> due]
    OBVIOUS
<1>2. OrderStores!ReinstateForLatePayment(x, r) = [a EXCEPT !.due = clock]
    BY DEF OrderStores!ReinstateForLatePayment
<1> HIDE DEF a
<1>3. [a EXCEPT !.due = clock] = [status |-> st, payment |-> pay, reservation |-> r, due |-> clock]
    BY <1>1
<1> QED BY <1>2, <1>3

LEMMA StoresPays ==
    ASSUME OrderStores!OrderStoresAssumption, OrderStores!OrdersInv, NEW c \in Request,
           NEW m \in Thing,
           OrderStores!PayPending(c, m)
             \/ \E r \in 1..MaxReservation : OrderStores!PayCanceled(c, m, r)
    PROVE  /\ OrderStores!OrdersInv' /\ OrderStores!ShipKeepsPaymentStep
           /\ OrderStores!OneOrderPerKeyStep
<1> DEFINE o == copy[c].order
           read(s) == copy[c].row[s]
           old(s) == rows[s][o]
<1>1. copy[c] # OrderStores!Nothing /\ copy' = [copy EXCEPT ![c] = OrderStores!Nothing]
    BY DEF OrderStores!PayPending, OrderStores!PayCanceled, OrderStores!Holds, OrderStores!Done
<1>2. /\ o \in Order /\ \A s \in OrderStores!Store : read(s) \in OrderStores!Row
      /\ OrderStores!CopyOK(copy[c])
    BY <1>1, StoresCopies
<1>3. "postgres" \in OrderStores!Store /\ "memory" \in OrderStores!Store /\ m # NoPayment
    BY DEF OrderStores!Store, OrderStores!OrderStoresAssumption
<1>4. /\ OrderStores!SameOrder(read("postgres"), read("memory"))
      /\ \A s \in OrderStores!Store : old(s).status = "pending" => read(s) = old(s)
    BY <1>1, <1>2 DEF OrderStores!CopyOK
<1>5. CASE OrderStores!PayPending(c, m)
    <2> DEFINE new(s) == OrderStores!MarkPaid(read(s), m)
               pg == OrderStores!PgPaidIfPending(old("postgres"), new("postgres"))
               mem == OrderStores!MemoryPaidIfPending(old("memory"), new("memory"))
               row == [status |-> "paid", payment |-> m, reservation |-> old("postgres").reservation,
                       due |-> old("postgres").due]
    <2>1. OrderStores!Write(o, pg, mem, "paid")
        <3>1. [s \in OrderStores!Store |-> new(s)]["postgres"] = new("postgres")
              /\ [s \in OrderStores!Store |-> new(s)]["memory"] = new("memory")
            BY <1>3
        <3> HIDE DEF new
        <3> QED BY <1>5, <3>1 DEF OrderStores!PayPending, new
    <2>2. Written(o, pg, mem, "paid")
        <3>1. CASE old("postgres").status # "pending"
            <4>1. pg = old("postgres") /\ mem = old("memory")
                BY <1>2, <3>1, StoresRows DEF OrderStores!PgPaidIfPending, OrderStores!MemoryPaidIfPending
            <4> HIDE DEF pg, mem
            <4> QED BY <1>2, <4>1, StoresKeep
        <3>2. CASE old("postgres").status = "pending"
            <4>1. old("memory") = old("postgres") /\ old("postgres") \in OrderStores!Row
                BY <1>2, <3>2, StoresRows
            <4>2. read("postgres") = old("postgres") /\ read("memory") = old("postgres")
                BY <1>3, <1>4, <3>2, <4>1
            <4>3. old("postgres") = [status |-> old("postgres").status, payment |-> old("postgres").payment,
                                     reservation |-> old("postgres").reservation,
                                     due |-> old("postgres").due]
                BY <4>1 DEF OrderStores!Row
            <4>4. new("postgres") = row /\ new("memory") = row
                BY <4>2, <4>3, StoresMarkPaid
            <4>5. pg = row /\ mem = row
                <5> DEFINE a == [old("postgres") EXCEPT !.status = "paid"]
                           b == [a EXCEPT !.payment = row.payment]
                <5>1. a = [status |-> "paid", payment |-> old("postgres").payment,
                           reservation |-> old("postgres").reservation, due |-> old("postgres").due]
                    BY <4>3
                <5>2. pg = [b EXCEPT !.reservation = row.reservation]
                    BY <3>2, <4>4 DEF OrderStores!PgPaidIfPending
                <5>3. row.payment = m /\ row.reservation = old("postgres").reservation
                    OBVIOUS
                <5> HIDE DEF a
                <5>4. b = [status |-> "paid", payment |-> m,
                           reservation |-> old("postgres").reservation, due |-> old("postgres").due]
                    BY <5>1, <5>3
                <5> HIDE DEF b
                <5>5. pg = row
                    BY <5>2, <5>3, <5>4
                <5>6. mem = row
                    BY <3>2, <4>1, <4>4 DEF OrderStores!MemoryPaidIfPending
                <5> QED BY <5>5, <5>6
            <4>6. row \in OrderStores!Row /\ OrderStores!NamesItsPayment(row) /\ row.status = "paid"
                BY <1>3, <4>1 DEF OrderStores!Row, OrderStores!NamesItsPayment, OrderStores!Status
            <4> HIDE DEF pg, mem, row
            <4> QED BY <4>5, <4>6, StoresTwice
        <3> QED BY <3>1, <3>2
    <2> HIDE DEF pg, mem
    <2>3. "paid" \in OrderStores!Status
        BY DEF OrderStores!Status
    <2> QED BY <1>1, <1>2, <2>1, <2>2, <2>3, StoresWrite
<1>6. ASSUME NEW r \in 1..MaxReservation, OrderStores!PayCanceled(c, m, r)
      PROVE  /\ OrderStores!OrdersInv' /\ OrderStores!ShipKeepsPaymentStep
             /\ OrderStores!OneOrderPerKeyStep
    <2> DEFINE new(s) == OrderStores!MarkPaid(OrderStores!ReinstateForLatePayment(read(s), r), m)
               pg == OrderStores!PgPaidIfCanceled(old("postgres"), new("postgres"))
               mem == OrderStores!MemoryPaidIfCanceled(old("memory"), new("memory"))
               row == [status |-> "paid", payment |-> m, reservation |-> r, due |-> clock]
    <2>1. OrderStores!Write(o, pg, mem, "paid")
        <3>1. [s \in OrderStores!Store |-> new(s)]["postgres"] = new("postgres")
              /\ [s \in OrderStores!Store |-> new(s)]["memory"] = new("memory")
            BY <1>3
        <3> HIDE DEF new
        <3> QED BY <1>6, <3>1 DEF OrderStores!PayCanceled, new
    <2>2. Written(o, pg, mem, "paid")
        <3>1. CASE old("postgres").status # "canceled"
            <4>1. pg = old("postgres") /\ mem = old("memory")
                BY <1>2, <3>1, StoresRows DEF OrderStores!PgPaidIfCanceled, OrderStores!MemoryPaidIfCanceled
            <4> HIDE DEF pg, mem
            <4> QED BY <1>2, <4>1, StoresKeep
        <3>2. CASE old("postgres").status = "canceled"
            <4>1. old("memory").status = "canceled" /\ old("postgres") \in OrderStores!Row
                BY <1>2, <3>2, StoresRows
            <4>2. \A x \in OrderStores!Row :
                    OrderStores!MarkPaid(OrderStores!ReinstateForLatePayment(x, r), m) = row
                <5> TAKE x \in OrderStores!Row
                <5> DEFINE y == OrderStores!ReinstateForLatePayment(x, r)
                <5>1. x = [status |-> x.status, payment |-> x.payment, reservation |-> x.reservation,
                           due |-> x.due]
                    BY DEF OrderStores!Row
                <5>2. y = [status |-> x.status, payment |-> x.payment, reservation |-> r, due |-> clock]
                    BY <5>1, StoresReinstate
                <5> HIDE DEF y
                <5>3. OrderStores!MarkPaid(y, m) = row
                    BY <5>2, StoresMarkPaid
                <5> QED BY <5>3 DEF y
            <4>3. new("postgres") = row /\ new("memory") = row
                BY <1>2, <1>3, <4>2
            <4>4. mem = row
                BY <4>1, <4>3 DEF OrderStores!MemoryPaidIfCanceled
            <4>5. pg = row
                <5>1. pg = [old("postgres") EXCEPT !.status = "paid", !.payment = row.payment,
                             !.reservation = row.reservation, !.due = row.due]
                    BY <3>2, <4>3 DEF OrderStores!PgPaidIfCanceled
                <5> QED BY <4>1, <5>1 DEF OrderStores!Row
            <4>6. row \in OrderStores!Row /\ OrderStores!NamesItsPayment(row) /\ row.status = "paid"
                <5>1. clock \in 0..MaxClock /\ r \in 0..MaxReservation
                    BY DEF OrderStores!OrdersInv, OrderStores!TypeOK, OrderStores!OrderStoresAssumption
                <5> QED BY <1>3, <5>1 DEF OrderStores!Row, OrderStores!NamesItsPayment, OrderStores!Status
            <4> HIDE DEF pg, mem, row
            <4> QED BY <4>4, <4>5, <4>6, StoresTwice
        <3> QED BY <3>1, <3>2
    <2> HIDE DEF pg, mem
    <2>3. "paid" \in OrderStores!Status
        BY DEF OrderStores!Status
    <2> QED BY <1>1, <1>2, <2>1, <2>2, <2>3, StoresWrite
<1> QED BY <1>5, <1>6

LEMMA StoresShips ==
    ASSUME OrderStores!OrdersInv, NEW c \in Request, OrderStores!Ship(c)
    PROVE  /\ OrderStores!OrdersInv' /\ OrderStores!ShipKeepsPaymentStep
           /\ OrderStores!OneOrderPerKeyStep
<1> DEFINE o == copy[c].order
           read(s) == copy[c].row[s]
           old(s) == rows[s][o]
           pg == OrderStores!PgShipIfPaid(old("postgres"), OrderStores!Shipped(read("postgres")))
           mem == OrderStores!MemoryShipIfPaid(old("memory"), OrderStores!Shipped(read("memory")))
<1>1. copy[c] # OrderStores!Nothing /\ copy' = [copy EXCEPT ![c] = OrderStores!Nothing]
      /\ OrderStores!Write(o, pg, mem, "in_transit")
      /\ \A s \in OrderStores!Store : read(s).status = "paid"
    BY DEF OrderStores!Ship, OrderStores!Holds, OrderStores!Done
<1>2. o \in Order /\ read("memory") \in OrderStores!Row /\ read("memory").status = "paid"
      /\ OrderStores!NamesItsPayment(read("memory"))
    BY <1>1, StoresCopies DEF OrderStores!Store, OrderStores!CopyOK
<1>3. \A x \in OrderStores!Row : x.status = "paid" /\ OrderStores!NamesItsPayment(x) =>
          LET y == [x EXCEPT !.status = "in_transit"]
          IN  y \in OrderStores!Row /\ y.status = "in_transit" /\ OrderStores!NamesItsPayment(y)
    BY DEF OrderStores!Row, OrderStores!Status, OrderStores!NamesItsPayment
<1>4. Written(o, pg, mem, "in_transit")
    <2>1. /\ old("postgres") \in OrderStores!Row /\ old("memory").status = old("postgres").status
          /\ OrderStores!NamesItsPayment(old("postgres"))
        BY <1>2, StoresRows
    <2>2. CASE old("postgres").status # "paid"
        <3>1. pg = old("postgres") /\ mem = old("memory")
            BY <2>1, <2>2 DEF OrderStores!PgShipIfPaid, OrderStores!MemoryShipIfPaid
        <3> HIDE DEF pg, mem
        <3> QED BY <1>2, <3>1, StoresKeep
    <2>3. CASE old("postgres").status = "paid"
        <3>1. /\ pg = [old("postgres") EXCEPT !.status = "in_transit"]
              /\ mem = [read("memory") EXCEPT !.status = "in_transit"]
            BY <2>1, <2>3 DEF OrderStores!PgShipIfPaid, OrderStores!MemoryShipIfPaid, OrderStores!Shipped
        <3>2. /\ pg \in OrderStores!Row /\ pg.status = "in_transit" /\ OrderStores!NamesItsPayment(pg)
              /\ mem \in OrderStores!Row /\ mem.status = "in_transit" /\ OrderStores!NamesItsPayment(mem)
            BY <1>2, <1>3, <2>1, <2>3, <3>1
        <3> HIDE DEF pg, mem
        <3> QED BY <3>1, <3>2 DEF Written, OrderStores!SameOrder
    <2> QED BY <2>2, <2>3
<1> HIDE DEF pg, mem
<1>5. "in_transit" \in OrderStores!Status
    BY DEF OrderStores!Status
<1> QED BY <1>1, <1>2, <1>4, <1>5, StoresWrite

LEMMA StoresSaves ==
    ASSUME OrderStores!OrdersInv, NEW c \in Request, OrderStores!Cancel(c) \/ OrderStores!Fulfil(c)
    PROVE  /\ OrderStores!OrdersInv' /\ OrderStores!ShipKeepsPaymentStep
           /\ OrderStores!OneOrderPerKeyStep
<1> DEFINE o == copy[c].order
           read(s) == copy[c].row[s]
<1>1. PICK status \in {"canceled", "fulfilled"} :
          /\ OrderStores!SaveStatus(c, status)
          /\ \/ status = "canceled" /\ \A s \in OrderStores!Store : read(s).status \in {"pending", "paid"}
             \/ status = "fulfilled" /\ \A s \in OrderStores!Store : read(s).status = "in_transit"
          /\ copy[c] # OrderStores!Nothing
    BY DEF OrderStores!Cancel, OrderStores!Fulfil, OrderStores!Holds
<1> DEFINE new(s) == [read(s) EXCEPT !.status = status]
           pg == new("postgres")
           mem == new("memory")
<1>2. /\ OrderStores!Write(o, pg, mem, status)
      /\ copy' = [copy EXCEPT ![c] = OrderStores!Nothing]
    <2>1. [s \in OrderStores!Store |-> new(s)]["postgres"] = pg
          /\ [s \in OrderStores!Store |-> new(s)]["memory"] = mem
        BY DEF OrderStores!Store
    <2> HIDE DEF pg, mem
    <2>2. /\ OrderStores!Write(o, [s \in OrderStores!Store |-> new(s)]["postgres"],
                               [s \in OrderStores!Store |-> new(s)]["memory"], status)
          /\ copy' = [copy EXCEPT ![c] = OrderStores!Nothing]
        BY <1>1 DEF OrderStores!SaveStatus, OrderStores!Done
    <2> QED BY <2>1, <2>2
<1>3. /\ o \in Order /\ OrderStores!SameOrder(read("postgres"), read("memory"))
      /\ \A s \in OrderStores!Store : /\ read(s) \in OrderStores!Row
                                      /\ OrderStores!NamesItsPayment(read(s))
    BY <1>1, StoresCopies DEF OrderStores!CopyOK
<1>4. \A s \in OrderStores!Store : /\ new(s) \in OrderStores!Row /\ new(s).status = status
                                   /\ OrderStores!NamesItsPayment(new(s))
    <2> TAKE s \in OrderStores!Store
    <2> DEFINE x == read(s)
    <2>1. x \in OrderStores!Row /\ OrderStores!NamesItsPayment(x)
          /\ (status = "fulfilled" => x.status = "in_transit")
        BY <1>1, <1>3
    <2> HIDE DEF x
    <2>2. [x EXCEPT !.status = status] \in OrderStores!Row /\ [x EXCEPT !.status = status].status = status
          /\ [x EXCEPT !.status = status].payment = x.payment
        BY <2>1 DEF OrderStores!Row, OrderStores!Status
    <2>3. OrderStores!NamesItsPayment([x EXCEPT !.status = status])
        BY <2>1, <2>2 DEF OrderStores!NamesItsPayment
    <2> QED BY <2>2, <2>3 DEF x
<1>5. /\ pg \in OrderStores!Row /\ pg.status = status /\ OrderStores!NamesItsPayment(pg)
      /\ mem \in OrderStores!Row /\ mem.status = status /\ OrderStores!NamesItsPayment(mem)
    BY <1>4 DEF OrderStores!Store
<1>6. status = "canceled" => mem = pg
    BY <1>1, <1>3 DEF OrderStores!SameOrder, OrderStores!Store
<1> HIDE DEF pg, mem
<1>7. Written(o, pg, mem, status)
    BY <1>5, <1>6 DEF Written, OrderStores!SameOrder
<1>8. status \in OrderStores!Status
    BY DEF OrderStores!Status
<1> QED BY <1>2, <1>3, <1>7, <1>8, StoresWrite

\* The worker and a refund look at the row that is there.
LEMMA StoresCancels ==
    ASSUME OrderStores!OrdersInv, NEW o \in Order,
           OrderStores!Expire(o) \/ \E m \in Thing : OrderStores!Refund(o, m)
    PROVE  /\ OrderStores!OrdersInv' /\ OrderStores!ShipKeepsPaymentStep
           /\ OrderStores!OneOrderPerKeyStep
<1> DEFINE pgOld == rows["postgres"][o]
           memOld == rows["memory"][o]
           gone == [pgOld EXCEPT !.status = "canceled"]
<1>1. /\ pgOld \in OrderStores!Row /\ memOld \in OrderStores!Row
      /\ memOld.status = pgOld.status
      /\ memOld.status \notin {"in_transit", "fulfilled"} => memOld = pgOld
      /\ clock \in 0..MaxClock
    BY StoresRows DEF OrderStores!OrdersInv, OrderStores!TypeOK
<1>2. gone \in OrderStores!Row /\ gone.status = "canceled" /\ OrderStores!NamesItsPayment(gone)
    <2>1. gone \in OrderStores!Row /\ gone.status = "canceled"
        BY <1>1 DEF OrderStores!Row, OrderStores!Status
    <2> QED BY <2>1 DEF OrderStores!NamesItsPayment
<1>3. ASSUME NEW pg, NEW mem, OrderStores!Write(o, pg, mem, "canceled"), copy' = copy,
             \/ pg = pgOld /\ mem = memOld
             \/ pg = gone /\ mem = gone
      PROVE  /\ OrderStores!OrdersInv' /\ OrderStores!ShipKeepsPaymentStep
             /\ OrderStores!OneOrderPerKeyStep
    <2>1. Written(o, pg, mem, "canceled")
        <3>1. CASE pg = pgOld /\ mem = memOld
            BY <3>1, StoresKeep
        <3>2. CASE pg = gone /\ mem = gone
            <4> HIDE DEF gone
            <4> QED BY <1>2, <3>2, StoresTwice
        <3> QED BY <1>3, <3>1, <3>2
    <2>2. "canceled" \in OrderStores!Status
        BY DEF OrderStores!Status
    <2> QED BY <1>3, <2>1, <2>2, StoresWrite
<1>4. CASE OrderStores!Expire(o)
    <2> DEFINE pg == OrderStores!PgCancelExpired(pgOld)
               mem == OrderStores!MemoryCancelExpired(memOld)
    <2>1. OrderStores!Write(o, pg, mem, "canceled") /\ copy' = copy
        BY <1>4 DEF OrderStores!Expire
    <2>2. (pg = pgOld /\ mem = memOld) \/ (pg = gone /\ mem = gone)
        <3>1. pgOld.due \in Int /\ clock \in Int
            BY <1>1 DEF OrderStores!Row
        <3>2. clock > pgOld.due <=> ~(clock <= pgOld.due)
            BY <3>1
        <3> QED BY <1>1, <3>2 DEF OrderStores!PgCancelExpired, OrderStores!MemoryCancelExpired,
                                OrderStores!IsPaymentExpired
    <2> HIDE DEF pg, mem
    <2> QED BY <1>3, <2>1, <2>2
<1>5. ASSUME NEW m \in Thing, OrderStores!Refund(o, m)
      PROVE  /\ OrderStores!OrdersInv' /\ OrderStores!ShipKeepsPaymentStep
             /\ OrderStores!OneOrderPerKeyStep
    <2> DEFINE pg == OrderStores!PgCancelForRefund(pgOld, m)
               mem == OrderStores!MemoryCancelForRefund(memOld, m)
    <2>1. OrderStores!Write(o, pg, mem, "canceled") /\ copy' = copy
        BY <1>5 DEF OrderStores!Refund
    <2>2. (pg = pgOld /\ mem = memOld) \/ (pg = gone /\ mem = gone)
        BY <1>1 DEF OrderStores!PgCancelForRefund, OrderStores!MemoryCancelForRefund
    <2> HIDE DEF pg, mem
    <2> QED BY <1>3, <2>1, <2>2
<1> QED BY <1>4, <1>5

LEMMA StoresCreates ==
    ASSUME OrderStores!OrderStoresAssumption, OrderStores!OrdersInv, NEW o \in Order,
           NEW k \in OrderKey \cup {NoKey}, OrderStores!Create(o, k)
    PROVE  /\ OrderStores!OrdersInv' /\ OrderStores!ShipKeepsPaymentStep
           /\ OrderStores!OneOrderPerKeyStep
<1> DEFINE saved == {s \in OrderStores!Store : OrderStores!KeyFree(s, k)}
           row == [status |-> "pending", payment |-> NoPayment, reservation |-> 0, due |-> clock]
<1>1. /\ rows \in [OrderStores!Store -> [Order -> OrderStores!Row]]
      /\ told \in [OrderStores!Store -> [Order -> OrderStores!Status]]
      /\ keys \in [OrderStores!Store -> [OrderKey -> Order \cup {NoOrder}]]
      /\ session \in [OrderStores!Store -> OrderStores!Session]
      /\ copy \in [Request -> OrderStores!Copy] /\ draft \in [Request -> OrderStores!Draft]
      /\ clock \in 0..MaxClock
      /\ \A s \in OrderStores!Store, p \in Order :
            /\ OrderStores!NamesItsPayment(rows[s][p]) /\ told[s][p] = rows[s][p].status
            /\ rows[s][p].status = "none" => rows[s][p] = OrderStores!NoRow
      /\ \A p \in Order : OrderStores!SameOrder(rows["postgres"][p], rows["memory"][p])
      /\ \A c \in Request : OrderStores!CopyOK(copy[c])
      /\ keys["memory"] = keys["postgres"]
      /\ "postgres" \in OrderStores!Store /\ "memory" \in OrderStores!Store
    BY DEF OrderStores!OrdersInv, OrderStores!TypeOK, OrderStores!EventsTellTheRow, OrderStores!OrdersAgree,
           OrderStores!Store
<1>2. OrderStores!NewOrder = row
    <2> DEFINE a == [OrderStores!NoRow EXCEPT !.status = "pending"]
    <2>1. a = [status |-> "pending", payment |-> NoPayment, reservation |-> 0, due |-> 0]
        BY DEF OrderStores!NoRow
    <2>2. OrderStores!NewOrder = [a EXCEPT !.due = clock]
        BY DEF OrderStores!NewOrder
    <2> HIDE DEF a
    <2> QED BY <2>1, <2>2
<1>3. row \in OrderStores!Row /\ OrderStores!NamesItsPayment(row) /\ row.status = "pending"
    BY <1>1 DEF OrderStores!Row, OrderStores!Status, OrderStores!NamesItsPayment,
                OrderStores!OrderStoresAssumption
<1> HIDE DEF row
<1>4. saved = {} \/ saved = OrderStores!Store
    BY <1>1 DEF OrderStores!KeyFree, OrderStores!Store
<1>5. /\ \A s \in OrderStores!Store : rows[s][o] = OrderStores!NoRow
      /\ rows' = [s \in OrderStores!Store |-> IF s \in saved THEN [rows[s] EXCEPT ![o] = row] ELSE rows[s]]
      /\ told' = [s \in OrderStores!Store |-> IF s \in saved THEN [told[s] EXCEPT ![o] = "pending"]
                                              ELSE told[s]]
      /\ keys' = [s \in OrderStores!Store |-> IF s \in saved /\ k # NoKey THEN [keys[s] EXCEPT ![k] = o]
                                              ELSE keys[s]]
      /\ UNCHANGED <<copy, clock, session, draft>>
    BY <1>2 DEF OrderStores!Create, OrderStores!SessionsUnchanged
<1>6. \A s \in saved, j \in OrderKey : j = k => keys[s][j] = NoOrder
    BY DEF OrderStores!KeyFree, OrderStores!OrderStoresAssumption
<1> HIDE DEF saved
<1>7. \A s \in OrderStores!Store, p \in Order :
          /\ rows'[s][p] = (IF s \in saved /\ p = o THEN row ELSE rows[s][p])
          /\ told'[s][p] = (IF s \in saved /\ p = o THEN "pending" ELSE told[s][p])
    BY <1>1, <1>5
<1>8. /\ rows' \in [OrderStores!Store -> [Order -> OrderStores!Row]]
      /\ told' \in [OrderStores!Store -> [Order -> OrderStores!Status]]
      /\ keys' \in [OrderStores!Store -> [OrderKey -> Order \cup {NoOrder}]]
    <2>1. "pending" \in OrderStores!Status
        BY DEF OrderStores!Status
    <2> QED BY <1>1, <1>3, <1>5, <2>1
<1>9. \A s \in OrderStores!Store, p \in Order :
            /\ OrderStores!NamesItsPayment(rows'[s][p]) /\ told'[s][p] = rows'[s][p].status
            /\ rows'[s][p].status = "none" => rows'[s][p] = OrderStores!NoRow
    <2> SUFFICES ASSUME NEW s \in OrderStores!Store, NEW p \in Order
                 PROVE  /\ OrderStores!NamesItsPayment(rows'[s][p])
                        /\ told'[s][p] = rows'[s][p].status
                        /\ rows'[s][p].status = "none" => rows'[s][p] = OrderStores!NoRow
        OBVIOUS
    <2>1. CASE s \in saved /\ p = o
        <3>1. rows'[s][p] = row /\ told'[s][p] = "pending"
            BY <1>7, <2>1
        <3> QED BY <1>3, <3>1
    <2>2. CASE ~(s \in saved /\ p = o)
        <3>1. rows'[s][p] = rows[s][p] /\ told'[s][p] = told[s][p]
            BY <1>7, <2>2
        <3> QED BY <1>1, <3>1
    <2> QED BY <2>1, <2>2
<1>10. \A p \in Order : OrderStores!SameOrder(rows'["postgres"][p], rows'["memory"][p])
    <2>1. OrderStores!SameOrder(row, row)
        BY DEF OrderStores!SameOrder
    <2> QED BY <1>1, <1>4, <1>7, <2>1
<1>11. \A c \in Request : OrderStores!CopyOK(copy[c])'
    <2> SUFFICES ASSUME NEW c \in Request, copy[c] # OrderStores!Nothing
                 PROVE  OrderStores!CopyOK(copy[c])'
        BY <1>5 DEF OrderStores!CopyOK
    <2> DEFINE x == copy[c]
    <2>1. x.order \in Order
        BY StoresCopies
    <2>2. /\ OrderStores!SameOrder(x.row["postgres"], x.row["memory"])
          /\ \A s \in OrderStores!Store :
                /\ OrderStores!NamesItsPayment(x.row[s]) /\ x.row[s].status # "none"
                /\ rows[s][x.order] # OrderStores!NoRow
                /\ rows[s][x.order].status = "pending" => x.row[s] = rows[s][x.order]
        BY <1>1 DEF OrderStores!CopyOK
    <2>3. x' = x
        BY <1>5
    <2> HIDE DEF x
    <2>4. x.order # o
        BY <1>1, <1>5, <2>2
    <2>5. \A s \in OrderStores!Store : rows'[s][x.order] = rows[s][x.order]
        BY <1>7, <2>1, <2>4
    <2>6. OrderStores!CopyOK(x)'
        BY <2>2, <2>3, <2>5 DEF OrderStores!CopyOK
    <2> QED BY <2>6 DEF x
<1>12. keys'["memory"] = keys'["postgres"]
    BY <1>1, <1>4, <1>5
<1>13. OrderStores!TypeOK'
    BY <1>1, <1>5, <1>8, <1>9 DEF OrderStores!TypeOK
<1>14. OrderStores!OrdersInv'
    BY <1>9, <1>10, <1>11, <1>12, <1>13 DEF OrderStores!OrdersInv, OrderStores!OrdersAgree,
       OrderStores!EventsTellTheRow
<1>15. OrderStores!ShipKeepsPaymentStep
    BY <1>1, <1>3, <1>7 DEF OrderStores!ShipKeepsPaymentStep
<1>16. OrderStores!OneOrderPerKeyStep
    <2> SUFFICES ASSUME NEW s \in OrderStores!Store, NEW j \in OrderKey, keys[s][j] # NoOrder
                 PROVE  keys'[s][j] = keys[s][j]
        BY <1>12 DEF OrderStores!OneOrderPerKeyStep
    <2>1. s \notin saved \/ j # k
        BY <1>6
    <2> QED BY <1>1, <1>5, <2>1
<1> QED BY <1>14, <1>15, <1>16

\* A caller's copy is of rows that agree, and nothing is written.
LEMMA StoresReads ==
    ASSUME OrderStores!OrdersInv, UNCHANGED <<rows, told, keys>>, clock' \in 0..MaxClock,
           session' \in [OrderStores!Store -> OrderStores!Session],
           draft' \in [Request -> OrderStores!Draft],
           \/ copy' = copy
           \/ \E c \in Request, o \in Order : OrderStores!Get(c, o)
    PROVE  /\ OrderStores!OrdersInv' /\ OrderStores!ShipKeepsPaymentStep
           /\ OrderStores!OneOrderPerKeyStep
<1>1. /\ rows \in [OrderStores!Store -> [Order -> OrderStores!Row]]
      /\ copy \in [Request -> OrderStores!Copy]
      /\ \A s \in OrderStores!Store, p \in Order :
            /\ OrderStores!NamesItsPayment(rows[s][p])
            /\ rows[s][p].status = "none" => rows[s][p] = OrderStores!NoRow
      /\ \A p \in Order : OrderStores!SameOrder(rows["postgres"][p], rows["memory"][p])
      /\ \A c \in Request : OrderStores!CopyOK(copy[c])
    BY DEF OrderStores!OrdersInv, OrderStores!TypeOK, OrderStores!OrdersAgree
<1>2. /\ copy' \in [Request -> OrderStores!Copy]
      /\ \A c \in Request : copy'[c] = copy[c]
            \/ \E o \in Order : /\ copy'[c] = [order |-> o, row |-> [s \in OrderStores!Store |-> rows[s][o]]]
                                /\ \A s \in OrderStores!Store : rows[s][o] # OrderStores!NoRow
    <2>1. CASE copy' = copy
        BY <1>1, <2>1
    <2>2. ASSUME NEW c \in Request, NEW o \in Order, OrderStores!Get(c, o)
          PROVE  <1>2!:
        <3> DEFINE x == [order |-> o, row |-> [s \in OrderStores!Store |-> rows[s][o]]]
        <3>1. copy' = [copy EXCEPT ![c] = x] /\ \A s \in OrderStores!Store : rows[s][o] # OrderStores!NoRow
            BY <2>2 DEF OrderStores!Get
        <3>2. x \in OrderStores!Copy
            BY <1>1 DEF OrderStores!Copy
        <3> HIDE DEF x
        <3>3. copy' \in [Request -> OrderStores!Copy]
            BY <1>1, <3>1, <3>2
        <3>4. \A d \in Request : copy'[d] = copy[d] \/ copy'[d] = x
            BY <1>1, <3>1
        <3> QED BY <3>1, <3>3, <3>4 DEF x
    <2> QED BY <2>1, <2>2
<1>3. ASSUME NEW o \in Order, \A s \in OrderStores!Store : rows[s][o] # OrderStores!NoRow
      PROVE  OrderStores!CopyOK([order |-> o, row |-> [s \in OrderStores!Store |-> rows[s][o]]])
    BY <1>1, <1>3 DEF OrderStores!CopyOK, OrderStores!Store
<1>4. \A c \in Request : OrderStores!CopyOK(copy'[c])
    BY <1>1, <1>2, <1>3
<1>5. \A c \in Request : OrderStores!CopyOK(copy[c])'
    BY <1>4 DEF OrderStores!CopyOK
<1>6. OrderStores!TypeOK'
    BY <1>2 DEF OrderStores!OrdersInv, OrderStores!TypeOK
<1>7. OrderStores!OrdersAgree' /\ OrderStores!EventsTellTheRow'
    BY DEF OrderStores!OrdersInv, OrderStores!OrdersAgree, OrderStores!EventsTellTheRow
<1>8. OrderStores!OrdersInv'
    BY <1>5, <1>6, <1>7 DEF OrderStores!OrdersInv
<1> QED BY <1>8 DEF OrderStores!ShipKeepsPaymentStep, OrderStores!OneOrderPerKeyStep, OrderStores!OrdersInv

\* The calls on orders leave the sessions alone.
LEMMA SessionsKeep ==
    ASSUME OrderStores!SessionsInv, UNCHANGED <<session, draft, clock>>
    PROVE  OrderStores!SessionsInv'
BY DEF OrderStores!SessionsInv, OrderStores!SessionOver

LEMMA SessionsGet ==
    ASSUME OrderStores!OrdersInv, OrderStores!SessionsInv, NEW c \in Request,
           OrderStores!GetSession(c)
    PROVE  /\ draft' \in [Request -> OrderStores!Draft] /\ OrderStores!SessionsInv'
<1>1. /\ draft \in [Request -> OrderStores!Draft] /\ session \in OrderStores!Draft
    BY DEF OrderStores!OrdersInv, OrderStores!TypeOK, OrderStores!Draft
<1>2. draft' = [draft EXCEPT ![c] = session] /\ UNCHANGED <<session, clock>>
    BY DEF OrderStores!GetSession
<1>3. draft' \in [Request -> OrderStores!Draft]
    BY <1>1, <1>2
<1>4. \A d \in Request : draft'[d] = draft[d] \/ draft'[d] = session
    BY <1>1, <1>2
<1>5. OrderStores!SessionsInv'
    BY <1>2, <1>4 DEF OrderStores!SessionsInv, OrderStores!SessionOver
<1> QED BY <1>3, <1>5

LEMMA SessionsSave ==
    ASSUME OrderStores!OrdersInv, OrderStores!SessionsInv, NEW c \in Request,
           OrderStores!SaveCheckoutSession(c)
    PROVE  /\ session' \in [OrderStores!Store -> OrderStores!Session]
           /\ draft' \in [Request -> OrderStores!Draft] /\ OrderStores!SessionsInv'
<1> DEFINE x == draft[c]
           saved(s) == IF OrderStores!SessionOver THEN [x[s] EXCEPT !.status = "expired"] ELSE x[s]
<1>1. /\ draft \in [Request -> OrderStores!Draft] /\ OrderStores!Nothing \in OrderStores!Draft
      /\ "postgres" \in OrderStores!Store /\ "memory" \in OrderStores!Store
    BY DEF OrderStores!OrdersInv, OrderStores!TypeOK, OrderStores!Draft, OrderStores!Store
<1>2. x # OrderStores!Nothing /\ x \in OrderStores!Draft
    BY <1>1 DEF OrderStores!SaveCheckoutSession
<1>3. x \in [OrderStores!Store -> OrderStores!Session]
    BY <1>2 DEF OrderStores!Draft
<1>4. /\ session' = [s \in OrderStores!Store |-> saved(s)]
      /\ draft' = [draft EXCEPT ![c] = OrderStores!Nothing] /\ UNCHANGED clock
    BY DEF OrderStores!SaveCheckoutSession
<1>5. \A s \in OrderStores!Store : saved(s) \in OrderStores!Session
    BY <1>3 DEF OrderStores!Session
<1>6. session' \in [OrderStores!Store -> OrderStores!Session]
    BY <1>4, <1>5
<1>7. /\ draft' \in [Request -> OrderStores!Draft]
      /\ \A d \in Request : draft'[d] = draft[d] \/ draft'[d] = OrderStores!Nothing
    BY <1>1, <1>4
<1>8. OrderStores!SessionOver \/ session'["memory"] = session'["postgres"]
    <2> SUFFICES ASSUME ~OrderStores!SessionOver PROVE session'["memory"] = session'["postgres"]
        OBVIOUS
    <2>1. x["memory"] = x["postgres"]
        BY <1>2 DEF OrderStores!SessionsInv
    <2> QED BY <1>1, <1>4, <2>1
<1>9. OrderStores!SessionsInv'
    BY <1>4, <1>7, <1>8 DEF OrderStores!SessionsInv, OrderStores!SessionOver
<1> QED BY <1>6, <1>7, <1>9

LEMMA SessionsComplete ==
    ASSUME OrderStores!OrdersInv, OrderStores!SessionsInv, NEW o \in Order,
           OrderStores!CompleteCheckoutSessionIfOpen(o)
    PROVE  /\ session' \in [OrderStores!Store -> OrderStores!Session]
           /\ OrderStores!SessionsInv'
<1> DEFINE pg == session["postgres"]
           mem == session["memory"]
<1>1. /\ pg \in OrderStores!Session /\ mem \in OrderStores!Session
    BY DEF OrderStores!OrdersInv, OrderStores!TypeOK, OrderStores!Store
<1>2. /\ session' = [postgres |-> OrderStores!PgComplete(pg, o), memory |-> OrderStores!MemoryComplete(mem, o)]
      /\ UNCHANGED <<draft, clock>>
    BY DEF OrderStores!CompleteCheckoutSessionIfOpen
<1> HIDE DEF pg, mem
<1>3. /\ OrderStores!PgComplete(pg, o) \in OrderStores!Session
      /\ OrderStores!MemoryComplete(mem, o) \in OrderStores!Session
    BY <1>1 DEF OrderStores!PgComplete, OrderStores!MemoryComplete, OrderStores!Session
<1>4. session' \in [OrderStores!Store -> OrderStores!Session]
    BY <1>2, <1>3 DEF OrderStores!Store
<1>5. OrderStores!SessionOver \/ session'["memory"] = session'["postgres"]
    <2>1. OrderStores!SessionOver \/ mem = pg
        BY DEF OrderStores!SessionsInv, pg, mem
    <2> QED BY <1>2, <2>1 DEF OrderStores!PgComplete, OrderStores!MemoryComplete
<1>6. OrderStores!SessionsInv'
    BY <1>2, <1>5 DEF OrderStores!SessionsInv, OrderStores!SessionOver
<1> QED BY <1>4, <1>6

LEMMA StoresStep ==
    ASSUME OrderStores!OrderStoresAssumption, OrderStores!StoresInv, OrderStores!Next
    PROVE  /\ OrderStores!StoresInv' /\ OrderStores!ShipKeepsPaymentStep
           /\ OrderStores!OneOrderPerKeyStep
<1> DEFINE Kept == UNCHANGED <<session, draft, clock>>
           Goal == /\ OrderStores!StoresInv' /\ OrderStores!ShipKeepsPaymentStep
                   /\ OrderStores!OneOrderPerKeyStep
<1>1. /\ OrderStores!OrdersInv /\ OrderStores!SessionsInv
      /\ session \in [OrderStores!Store -> OrderStores!Session]
      /\ draft \in [Request -> OrderStores!Draft] /\ clock \in 0..MaxClock
    BY DEF OrderStores!StoresInv, OrderStores!OrdersInv, OrderStores!TypeOK
<1>2. ASSUME OrderStores!OrdersInv', OrderStores!ShipKeepsPaymentStep,
             OrderStores!OneOrderPerKeyStep, Kept
      PROVE  Goal
    BY <1>1, <1>2, SessionsKeep DEF OrderStores!StoresInv
<1>3. ASSUME NEW o \in Order, NEW k \in OrderKey \cup {NoKey}, OrderStores!Create(o, k)
      PROVE  Goal
    <2>1. Kept
        BY <1>3 DEF OrderStores!Create, OrderStores!SessionsUnchanged
    <2> QED BY ONLY <1>1, <1>2, <1>3, <2>1, StoresCreates, OrderStores!OrderStoresAssumption
<1>4. ASSUME NEW o \in Order, OrderStores!CompleteCheckoutSessionIfOpen(o)
      PROVE  Goal
    <2>1. /\ UNCHANGED <<rows, told, keys>> /\ copy' = copy /\ clock' = clock /\ draft' = draft
        BY <1>4 DEF OrderStores!CompleteCheckoutSessionIfOpen, OrderStores!OrdersUnchanged
    <2>2. session' \in [OrderStores!Store -> OrderStores!Session] /\ OrderStores!SessionsInv'
        BY <1>1, <1>4, SessionsComplete
    <2>3. clock' \in 0..MaxClock /\ draft' \in [Request -> OrderStores!Draft]
        BY <1>1, <2>1
    <2> QED BY <1>1, <2>1, <2>2, <2>3, StoresReads DEF OrderStores!StoresInv
<1>5. ASSUME NEW o \in Order, OrderStores!Expire(o) \/ \E m \in Thing : OrderStores!Refund(o, m)
      PROVE  Goal
    <2>1. Kept
        BY <1>5 DEF OrderStores!Expire, OrderStores!Refund, OrderStores!Write, OrderStores!SessionsUnchanged
    <2> QED BY <1>1, <1>2, <1>5, <2>1, StoresCancels
<1>6. ASSUME NEW o \in Order, NEW c \in Request, OrderStores!Get(c, o)
      PROVE  Goal
    <2>1. /\ UNCHANGED <<rows, told, keys>> /\ Kept
        BY <1>6 DEF OrderStores!Get, OrderStores!SessionsUnchanged
    <2>2. /\ clock' \in 0..MaxClock /\ draft' \in [Request -> OrderStores!Draft]
          /\ session' \in [OrderStores!Store -> OrderStores!Session]
        BY <1>1, <2>1
    <2>3. OrderStores!OrdersInv' /\ OrderStores!ShipKeepsPaymentStep /\ OrderStores!OneOrderPerKeyStep
        BY <1>1, <1>6, <2>1, <2>2, StoresReads
    <2> QED BY <1>2, <2>1, <2>3
<1>7. ASSUME NEW c \in Request, NEW m \in Thing,
             OrderStores!PayPending(c, m)
               \/ \E r \in 1..MaxReservation : OrderStores!PayCanceled(c, m, r)
      PROVE  Goal
    <2>1. Kept
        BY <1>7 DEF OrderStores!PayPending, OrderStores!PayCanceled, OrderStores!Write,
                    OrderStores!SessionsUnchanged
    <2> QED BY <1>1, <1>2, <1>7, <2>1, StoresPays
<1>8. ASSUME NEW c \in Request, OrderStores!Ship(c)
      PROVE  Goal
    <2>1. Kept
        BY <1>8 DEF OrderStores!Ship, OrderStores!Write, OrderStores!SessionsUnchanged
    <2> QED BY <1>1, <1>2, <1>8, <2>1, StoresShips
<1>9. ASSUME NEW c \in Request, OrderStores!Cancel(c) \/ OrderStores!Fulfil(c)
      PROVE  Goal
    <2>1. Kept
        BY <1>9 DEF OrderStores!Cancel, OrderStores!Fulfil, OrderStores!SaveStatus, OrderStores!Write,
                    OrderStores!SessionsUnchanged
    <2> QED BY <1>1, <1>2, <1>9, <2>1, StoresSaves
<1>10. ASSUME NEW c \in Request, OrderStores!GetSession(c) \/ OrderStores!SaveCheckoutSession(c)
       PROVE  Goal
    <2>1. /\ UNCHANGED <<rows, told, keys>> /\ copy' = copy /\ clock' = clock
        BY <1>10 DEF OrderStores!GetSession, OrderStores!SaveCheckoutSession, OrderStores!OrdersUnchanged
    <2>2. /\ session' \in [OrderStores!Store -> OrderStores!Session]
          /\ draft' \in [Request -> OrderStores!Draft] /\ OrderStores!SessionsInv'
        <3>1. CASE OrderStores!GetSession(c)
            <4>1. session' = session
                BY <3>1 DEF OrderStores!GetSession
            <4> QED BY <1>1, <3>1, <4>1, SessionsGet
        <3>2. CASE OrderStores!SaveCheckoutSession(c)
            BY <1>1, <3>2, SessionsSave
        <3> QED BY <1>10, <3>1, <3>2
    <2>3. clock' \in 0..MaxClock
        BY <1>1, <2>1
    <2> QED BY <1>1, <2>1, <2>2, <2>3, StoresReads DEF OrderStores!StoresInv
<1>11. CASE OrderStores!TimePasses
    <2>1. /\ UNCHANGED <<rows, told, keys>> /\ copy' = copy
          /\ clock < MaxClock /\ clock' = clock + 1 /\ UNCHANGED <<session, draft>>
        BY <1>11 DEF OrderStores!TimePasses, OrderStores!OrdersUnchanged, OrderStores!SessionsUnchanged
    <2>2. clock' \in 0..MaxClock /\ clock' > 0
        BY <1>1, <2>1 DEF OrderStores!OrderStoresAssumption
    <2>3. OrderStores!SessionsInv'
        BY <2>2 DEF OrderStores!SessionsInv, OrderStores!SessionOver
    <2>4. /\ draft' \in [Request -> OrderStores!Draft]
          /\ session' \in [OrderStores!Store -> OrderStores!Session]
        BY <1>1, <2>1
    <2> QED BY <1>1, <2>1, <2>2, <2>3, <2>4, StoresReads DEF OrderStores!StoresInv
<1>12. Moved \subseteq Order
    BY DEF OrderStores!OrderStoresAssumption
<1> HIDE DEF Kept
<1>13. CASE \E o \in Order : \/ \E k \in OrderKey \cup {NoKey} : OrderStores!Create(o, k)
                             \/ OrderStores!CompleteCheckoutSessionIfOpen(o)
    BY ONLY <1>13, <1>3, <1>4
<1>14. CASE \E o \in Moved : \/ OrderStores!Expire(o)
                             \/ \E m \in Thing : OrderStores!Refund(o, m)
                             \/ \E c \in Request : OrderStores!Get(c, o)
    BY ONLY <1>14, <1>12, <1>5, <1>6
<1>15. CASE \E c \in Request :
                \/ \E m \in Thing : OrderStores!PayPending(c, m)
                \/ \E m \in Thing, r \in 1..MaxReservation : OrderStores!PayCanceled(c, m, r)
                \/ OrderStores!Ship(c) \/ OrderStores!Cancel(c) \/ OrderStores!Fulfil(c)
                \/ OrderStores!GetSession(c) \/ OrderStores!SaveCheckoutSession(c)
    BY ONLY <1>15, <1>7, <1>8, <1>9, <1>10
<1> QED BY <1>11, <1>13, <1>14, <1>15 DEF OrderStores!Next

LEMMA StoresSay ==
    ASSUME OrderStores!StoresInv
    PROVE  /\ OrderStores!TypeOK /\ OrderStores!OrdersAgree /\ OrderStores!EventsTellTheRow
           /\ OrderStores!SessionsAgree
BY DEF OrderStores!StoresInv, OrderStores!OrdersInv, OrderStores!SessionsInv, OrderStores!SessionsAgree

LEMMA StoresStays ==
    ASSUME OrderStores!StoresInv, UNCHANGED storeVars
    PROVE  OrderStores!StoresInv'
<1>1. UNCHANGED <<rows, told, keys, session, copy, draft, clock>>
    BY DEF storeVars
<1>2. OrderStores!TypeOK' /\ OrderStores!OrdersAgree' /\ OrderStores!EventsTellTheRow'
    BY <1>1 DEF OrderStores!StoresInv, OrderStores!OrdersInv, OrderStores!TypeOK, OrderStores!OrdersAgree,
                OrderStores!EventsTellTheRow
<1>3. \A c \in Request : OrderStores!CopyOK(copy[c])'
    BY <1>1 DEF OrderStores!StoresInv, OrderStores!OrdersInv, OrderStores!CopyOK
<1>4. OrderStores!OrdersInv'
    BY <1>1, <1>2, <1>3 DEF OrderStores!StoresInv, OrderStores!OrdersInv
<1>5. OrderStores!SessionsInv'
    BY <1>1, SessionsKeep DEF OrderStores!StoresInv
<1> QED BY <1>4, <1>5 DEF OrderStores!StoresInv

-----------------------------------------------------------------------------
(* Profile *)

LEMMA ProfileIds ==
    ASSUME MaxAddress \in Nat
    PROVE  /\ 0 \in 0..MaxAddress /\ \A n : n \in 0..MaxAddress => n \in Nat
           /\ \A i \in Profile!Id : i \in Nat /\ 1 <= i /\ i \in 0..MaxAddress
           /\ \A i \in Profile!Id, n \in Nat : i <= n => i \in 1..n
BY DEF Profile!Id

LEMMA ProfileCounts ==
    ASSUME NEW S
    PROVE  Profile!Cardinality(S) = Cardinality(S)
BY DEF Profile!Cardinality, Cardinality

\* The addresses there are, and the default, read off the rows.
LEMMA ProfileTable ==
    ASSUME MaxAddress \in Nat, Profile!BookOK
    PROVE  /\ Profile!Present = {i \in Profile!Id : book[i].text # ""}
           /\ Profile!Defaults = {i \in Profile!Id : book[i].def}
           /\ IsFiniteSet(Profile!Present) /\ Cardinality(Profile!Present) \in Nat
           /\ Profile!Cardinality(Profile!Defaults) <= 1
<1>1. \A i \in Profile!Id : /\ book[i] = [text |-> book[i].text, def |-> book[i].def]
                            /\ book[i].text = "" => book[i].def = FALSE
    BY DEF Profile!BookOK, Profile!Row
<1>2. Profile!Present = {i \in Profile!Id : book[i].text # ""}
    <2>1. \A i \in Profile!Id : book[i] # Profile!None <=> book[i].text # ""
        <3> SUFFICES ASSUME NEW i \in Profile!Id
                     PROVE  book[i] # Profile!None <=> book[i].text # ""
            OBVIOUS
        <3>1. /\ book[i] = [text |-> book[i].text, def |-> book[i].def]
              /\ book[i].text = "" => book[i].def = FALSE
            BY <1>1
        <3>2. Profile!None.text = ""
            BY DEF Profile!None
        <3>3. book[i].text = "" => book[i] = Profile!None
            BY <3>1 DEF Profile!None
        <3> QED BY <3>2, <3>3
    <2> QED BY <2>1 DEF Profile!Present
<1>3. Profile!Defaults = {i \in Profile!Id : book[i].def}
    BY <1>1, <1>2 DEF Profile!Defaults
<1>4. IsFiniteSet(Profile!Present) /\ Cardinality(Profile!Present) \in Nat
    <2>1. IsFiniteSet(1..MaxAddress)
        BY FS_Interval
    <2>2. Profile!Present \subseteq 1..MaxAddress
        BY <1>2 DEF Profile!Id
    <2> QED BY <2>1, <2>2, FS_Subset, FS_CardinalityType
<1>5. Profile!Cardinality(Profile!Defaults) <= 1
    <2>1. CASE Profile!Defaults = {}
        <3>1. Cardinality({}) = 0
            BY FS_EmptySet
        <3> QED BY <2>1, <3>1, ProfileCounts
    <2>2. ASSUME NEW i \in Profile!Defaults
          PROVE  Profile!Cardinality(Profile!Defaults) <= 1
        <3>1. Profile!Defaults = {i}
            BY <1>3, <2>2 DEF Profile!BookOK
        <3>2. Cardinality({i}) = 1
            BY FS_Singleton
        <3> QED BY <3>1, <3>2, ProfileCounts
    <2> QED BY <2>1, <2>2
<1> QED BY <1>2, <1>3, <1>4, <1>5

LEMMA ProfileSay ==
    ASSUME Profile!ProfileAssumption, Profile!ProfileInv
    PROVE  Profile!TypeOK /\ Profile!BookFollowsRequests /\ Profile!LimitHolds
<1>1. /\ Profile!BookOK /\ MaxAddress \in Nat /\ seq \in 0..MaxAddress
      /\ \A i \in Profile!Id : book[i].text # "" => i <= seq
    BY DEF Profile!ProfileInv, Profile!ProfileAssumption, Profile!BookOK
<1>2. Profile!TypeOK
    <2>1. /\ Profile!Present = {i \in Profile!Id : book[i].text # ""}
          /\ Profile!Cardinality(Profile!Defaults) <= 1
        BY <1>1, ProfileTable
    <2>2. \A i \in Profile!Id : i <= seq => i \in 1..seq
        <3>1. seq \in Nat
            BY <1>1, ProfileIds
        <3> QED BY <1>1, <3>1, ProfileIds
    <2>3. Profile!Present \subseteq 1..seq
        BY <1>1, <2>1, <2>2
    <2> QED BY <2>1, <2>3 DEF Profile!TypeOK
<1>3. ASSUME Profile!PickOK
      PROVE  Profile!DefaultAddressID = pick
    <2>1. Profile!Defaults = IF pick = 0 THEN {} ELSE {pick}
        BY <1>1, <1>3, ProfileTable DEF Profile!PickOK
    <2>2. pick # 0 => (CHOOSE i \in {pick} : TRUE) = pick
        OBVIOUS
    <2> QED BY <2>1, <2>2 DEF Profile!DefaultAddressID
<1>4. Profile!BookFollowsRequests
    BY <1>3 DEF Profile!BookFollowsRequests, Profile!ProfileInv
<1> QED BY <1>2, <1>4 DEF Profile!ProfileInv

LEMMA ProfileStart ==
    ASSUME Profile!ProfileAssumption, Profile!Init
    PROVE  Profile!ProfileInv
<1>1. /\ book = [i \in Profile!Id |-> [text |-> "", def |-> FALSE]]
      /\ fields = [f \in Profile!Field |-> ""] /\ seq = 0 /\ pick = 0
      /\ bookReq = [q \in Request |-> Profile!Idle]
      /\ excused = FALSE /\ crowded = FALSE
      /\ wanted = [book |-> [i \in Profile!Id |-> ""], profile |-> [f \in Profile!Field |-> ""]]
    BY DEF Profile!Init, Profile!Nothing, Profile!Blank, Profile!None
<1>2. Profile!BookOK
    BY <1>1 DEF Profile!BookOK, Profile!Row
<1>3. Profile!PickOK
    BY <1>1 DEF Profile!PickOK
<1>4. \A q \in Request : Profile!RequestOK(Profile!Idle, seq)
    <2>1. Profile!Idle.pc = "idle"
        BY DEF Profile!Idle
    <2> QED BY <2>1 DEF Profile!RequestOK
<1>5. Profile!LimitHolds
    <2>1. Profile!Present = {}
        BY <1>1, <1>2, ProfileTable DEF Profile!ProfileAssumption
    <2>2. Cardinality({}) = 0
        BY FS_EmptySet
    <2>3. Profile!Cardinality(Profile!Present) = 0
        BY <2>1, <2>2, ProfileCounts
    <2>4. MaxAddressesPerUser \in Nat
        BY DEF Profile!ProfileAssumption
    <2> QED BY <2>3, <2>4 DEF Profile!LimitHolds
<1>6. wanted \in [book : [Profile!Id -> Text \cup {""}], profile : Profile!Fields]
      /\ fields \in Profile!Fields
    BY <1>1 DEF Profile!Fields
<1>7. seq \in 0..MaxAddress
    <2>1. MaxAddress \in Nat
        BY DEF Profile!ProfileAssumption
    <2> QED BY <1>1, <2>1, ProfileIds
<1>8. \A i \in Profile!Id : book[i].text = wanted.book[i]
    BY <1>1
<1>9. fields = wanted.profile
    BY <1>1
<1>10. bookReq = [q \in Request |-> bookReq[q]] /\ \A q \in Request : bookReq[q] = Profile!Idle
    BY <1>1
<1>11. excused \in BOOLEAN /\ crowded \in BOOLEAN
    BY <1>1
<1> QED BY <1>2, <1>3, <1>4, <1>5, <1>6, <1>7, <1>8, <1>9, <1>10, <1>11 DEF Profile!ProfileInv

\* One request moves on.
LEMMA ProfileMoves ==
    ASSUME MaxAddress \in Nat, Profile!ProfileInv, NEW q \in Request, NEW x, bookReq' = [bookReq EXCEPT ![q] = x],
           seq' \in Nat, seq <= seq', Profile!RequestOK(x, seq')
    PROVE  /\ bookReq' = [p \in Request |-> bookReq'[p]]
           /\ \A p \in Request : Profile!RequestOK(bookReq'[p], seq')
           /\ bookReq'[q] = x /\ \A p \in Request : p # q => bookReq'[p] = bookReq[p]
<1>1. bookReq = [p \in Request |-> bookReq[p]]
    BY DEF Profile!ProfileInv
<1>2. /\ bookReq' = [p \in Request |-> bookReq'[p]]
      /\ bookReq'[q] = x /\ \A p \in Request : p # q => bookReq'[p] = bookReq[p]
    BY <1>1
<1>3. ASSUME NEW p \in Request, p # q
      PROVE  Profile!RequestOK(bookReq[p], seq')
    <2>0. seq \in 0..MaxAddress /\ \A d \in Request : Profile!RequestOK(bookReq[d], seq)
        BY DEF Profile!ProfileInv
    <2>1. Profile!RequestOK(bookReq[p], seq) /\ seq \in Nat
        BY <2>0
    <2>2. \A i : i \in 1..seq => i \in 1..seq'
        BY <2>1
    <2> QED BY <2>1, <2>2 DEF Profile!RequestOK
<1> QED BY <1>2, <1>3

LEMMA ProfileAsks ==
    ASSUME MaxAddress \in Nat, Profile!ProfileInv, NEW q \in Request, NEW x, bookReq' = [bookReq EXCEPT ![q] = x],
           seq' \in 0..MaxAddress, seq <= seq', Profile!RequestOK(x, seq'),
           UNCHANGED <<book, fields, wanted, pick, excused, crowded>>,
           bookReq[q].pc # "save default"
    PROVE  Profile!ProfileInv'
<1>1. /\ bookReq' = [p \in Request |-> bookReq'[p]]
      /\ \A p \in Request : Profile!RequestOK(bookReq'[p], seq')
      /\ \A p \in Request : p # q => bookReq'[p] = bookReq[p]
    <2>1. seq' \in Nat
        BY ProfileIds
    <2> QED BY <2>1, ProfileMoves
<1>2. Profile!BookOK'
    <2>0. /\ seq \in Nat /\ seq' \in Nat /\ seq <= seq' /\ \A i \in Profile!Id : i \in Nat
          /\ \A i \in Profile!Id : book[i].text # "" => i <= seq
        BY ProfileIds DEF Profile!ProfileInv, Profile!BookOK
    <2>1. ASSUME NEW i \in Profile!Id, book[i].text # ""
          PROVE  i <= seq'
        <3>1. i \in Nat /\ i <= seq /\ seq \in Nat /\ seq' \in Nat /\ seq <= seq'
            BY <2>0, <2>1
        <3> QED BY ONLY <3>1
    <2> QED BY <2>1 DEF Profile!ProfileInv, Profile!BookOK
<1>3. Profile!PickOK' <=> Profile!PickOK
    BY DEF Profile!PickOK
<1>4. Profile!LimitHolds'
    <2>1. Profile!Present' = Profile!Present
        BY DEF Profile!Present
    <2> QED BY <2>1 DEF Profile!ProfileInv, Profile!LimitHolds
<1>5. (\E p \in Request : bookReq[p].pc = "save default")
          => \E p \in Request : bookReq'[p].pc = "save default"
    BY <1>1
<1> QED BY <1>1, <1>2, <1>3, <1>4, <1>5 DEF Profile!ProfileInv

LEMMA ProfileFewer ==
    ASSUME NEW S, NEW U, IsFiniteSet(S), Cardinality(S) \in Nat, U \subseteq S,
           Profile!Cardinality(S) <= MaxAddressesPerUser, MaxAddressesPerUser \in Nat
    PROVE  Profile!Cardinality(U) <= MaxAddressesPerUser
<1>1. Cardinality(U) <= Cardinality(S) /\ Cardinality(U) \in Nat
    BY FS_Subset, FS_CardinalityType
<1>2. Profile!Cardinality(S) = Cardinality(S) /\ Profile!Cardinality(U) = Cardinality(U)
    BY ProfileCounts
<1> QED BY <1>1, <1>2

\* A request that begins, or is given the id of its address.
LEMMA ProfileBegins ==
    ASSUME Profile!ProfileAssumption, Profile!ProfileInv, NEW q \in Request,
           \/ Profile!CreateAddress(q) \/ Profile!NextAddressID(q) \/ Profile!PatchAddress(q)
           \/ Profile!SetDefaultAddress(q) \/ Profile!PatchProfile(q)
    PROVE  Profile!ProfileInv'
<1>1. /\ MaxAddress \in Nat /\ seq \in 0..MaxAddress /\ Profile!RequestOK(bookReq[q], seq)
      /\ \A i \in Profile!Id : book[i] \in Profile!Row
      /\ MaxAddressesPerUser \in Nat /\ Profile!BookOK
    BY DEF Profile!ProfileInv, Profile!ProfileAssumption, Profile!BookOK
<1>0. MaxAddress \in Nat
    BY <1>1
<1>2. seq \in Nat /\ seq <= seq
    BY <1>1, ProfileIds
<1>3. ASSUME NEW x, bookReq' = [bookReq EXCEPT ![q] = x], Profile!RequestOK(x, seq),
             UNCHANGED <<book, fields, seq, wanted, pick, excused, crowded>>, bookReq[q].pc = "idle"
      PROVE  Profile!ProfileInv'
    BY <1>1, <1>2, <1>3, ProfileAsks
<1>4. ASSUME NEW i \in Profile!Present
      PROVE  /\ i \in Profile!Id /\ i \in 1..seq /\ book[i].text \in Text /\ book[i].text # ""
             /\ book[i] \in Profile!Row /\ book[i].def \in BOOLEAN /\ i \in 0..MaxAddress
    <2>1. i \in Profile!Id /\ book[i].text # "" /\ book[i] \in Profile!Row
        BY <1>1, ProfileTable
    <2>2. book[i].text \in Text /\ book[i].def \in BOOLEAN
        BY <2>1 DEF Profile!Row
    <2>3. i <= seq
        BY <1>1, <2>1 DEF Profile!BookOK
    <2>4. i \in 1..seq /\ i \in 0..MaxAddress
        <3>1. i \in 0..MaxAddress
            BY <1>0, <2>1, ProfileIds
        <3> QED BY <1>0, <1>2, <2>1, <2>3, <3>1, ProfileIds
    <2> QED BY <2>1, <2>2, <2>4
<1>5. CASE Profile!CreateAddress(q)
    <2> DEFINE n == Cardinality(Profile!Present)
    <2>1. n \in Nat /\ Profile!Cardinality(Profile!Present) = n
        BY <1>1, ProfileTable, ProfileCounts
    <2>2. PICK t \in Text, d \in {"yes", "no", "unsaid"} :
              bookReq' = [bookReq EXCEPT ![q] =
                  [Profile!Idle EXCEPT !.pc = "id", !.op = "create", !.text = t, !.count = n,
                      !.def = d = "yes" \/ (d = "unsaid" /\ n = 0)]]
        BY <1>5, <2>1 DEF Profile!CreateAddress, Profile!Step
    <2> DEFINE def == d = "yes" \/ (d = "unsaid" /\ n = 0)
               x == [Profile!Idle EXCEPT !.pc = "id", !.op = "create", !.text = t, !.count = n,
                                         !.def = def]
    <2>3. /\ n < MaxAddressesPerUser /\ bookReq[q].pc = "idle"
          /\ UNCHANGED <<book, fields, seq, wanted, pick, excused, crowded>>
        BY <1>5, <2>1 DEF Profile!CreateAddress, Profile!history
    <2>4. def \in BOOLEAN
        OBVIOUS
    <2>5. bookReq' = [bookReq EXCEPT ![q] = x]
        BY <2>2
    <2> HIDE DEF def, n
    <2>6. /\ DOMAIN x = DOMAIN Profile!Idle
          /\ x.pc = "id" /\ x.op = "create" /\ x.text = t /\ x.def = def /\ x.read = Profile!None /\ x.count = n
        BY ONLY <2>1 DEF Profile!Idle
    <2> HIDE DEF x
    <2>7. Profile!RequestOK(x, seq)
        <3>1. Profile!None \in Profile!Row
            BY DEF Profile!None, Profile!Row
        <3> QED BY <2>1, <2>3, <2>4, <2>6, <3>1 DEF Profile!RequestOK
    <2> QED BY <1>3, <2>3, <2>5, <2>7
<1>6. CASE Profile!NextAddressID(q)
    <2> DEFINE r == bookReq[q]
               to == IF r.def THEN "clear" ELSE "save"
               x == [r EXCEPT !.id = seq + 1, !.pc = to]
    <2>1. /\ r.pc = "id" /\ seq < MaxAddress /\ seq' = seq + 1
          /\ UNCHANGED <<book, fields, wanted, pick, excused, crowded>>
          /\ bookReq' = [bookReq EXCEPT ![q] = x]
        BY <1>6 DEF Profile!NextAddressID, Profile!Step, Profile!history
    <2>2. seq' \in 0..MaxAddress /\ seq <= seq' /\ seq + 1 \in 1..seq' /\ seq + 1 \in 0..MaxAddress
        BY ONLY <1>1, <1>2, <2>1
    <2>3. Profile!RequestOK(r, seq)
        BY <1>1
    <2> HIDE DEF r
    <2>4. /\ DOMAIN r = DOMAIN Profile!Idle
          /\ r.op = "create" /\ r.text \in Text /\ r.def \in BOOLEAN /\ r.read = Profile!None
          /\ r.read \in Profile!Row /\ r.count \in Nat /\ r.count < MaxAddressesPerUser
        BY <2>1, <2>3 DEF Profile!RequestOK
    <2>5. /\ to \in {"clear", "save"} /\ (to = "save" => r.def = FALSE) /\ (to = "clear" => r.def)
        BY <2>4
    <2> DEFINE id == seq + 1
    <2> HIDE DEF id, to
    <2>6. /\ DOMAIN x = DOMAIN Profile!Idle
          /\ x.pc = to /\ x.op = r.op /\ x.id = id /\ x.text = r.text /\ x.def = r.def
          /\ x.read = r.read /\ x.count = r.count
        <3>1. {"pc", "id", "op", "text", "def", "read", "count"} = DOMAIN r
            BY <2>4 DEF Profile!Idle
        <3>2. x = [r EXCEPT !.id = id, !.pc = to]
            BY DEF id
        <3> HIDE DEF x
        <3>3. DOMAIN x = DOMAIN r
            BY ONLY <3>2
        <3>4. /\ x.pc = to /\ x.op = r.op /\ x.id = id /\ x.text = r.text /\ x.def = r.def
              /\ x.read = r.read /\ x.count = r.count
            BY ONLY <3>1, <3>2
        <3> QED BY <2>4, <3>3, <3>4
    <2> HIDE DEF x
    <2>7. Profile!RequestOK(x, seq')
        <3>1. id \in 1..seq'
            BY <2>2 DEF id
        <3>2. Profile!None.def = FALSE
            BY DEF Profile!None
        <3> QED BY <2>4, <2>5, <2>6, <3>1, <3>2 DEF Profile!RequestOK
    <2>8. r.pc # "save default"
        BY <2>1
    <2> QED BY <1>1, <2>1, <2>2, <2>7, <2>8, ProfileAsks DEF r, x
<1>7. ASSUME NEW i \in Profile!Present, NEW to \in {"clear", "save"}, NEW op \in {"patch", "default"},
             NEW t \in Text, NEW d \in BOOLEAN,
             to = "save" => d = book[i].def, to = "clear" => d,
             bookReq[q].pc = "idle",
             UNCHANGED <<book, fields, seq, wanted, pick, excused, crowded>>,
             bookReq' = [bookReq EXCEPT ![q] =
                 [Profile!Idle EXCEPT !.pc = to, !.op = op, !.id = i, !.text = t, !.def = d, !.read = book[i]]]
      PROVE  Profile!ProfileInv'
    <2> DEFINE row == book[i]
               x == [Profile!Idle EXCEPT !.pc = to, !.op = op, !.id = i, !.text = t, !.def = d, !.read = row]
    <2>1. /\ i \in 1..seq /\ row \in Profile!Row /\ row.text # "" /\ t \in Text /\ d \in BOOLEAN
          /\ to \in {"clear", "save"} /\ op \in {"patch", "default"}
          /\ (to = "save" => d = row.def) /\ (to = "clear" => d)
        BY <1>4, <1>7
    <2>2. bookReq' = [bookReq EXCEPT ![q] = x]
        BY <1>7
    <2> HIDE DEF row
    <2>3. /\ DOMAIN x = DOMAIN Profile!Idle
          /\ x.pc = to /\ x.op = op /\ x.id = i /\ x.text = t /\ x.def = d /\ x.read = row /\ x.count = 0
        BY ONLY <2>1 DEF Profile!Idle
    <2> HIDE DEF x
    <2>4. Profile!RequestOK(x, seq)
        <3>1. x.pc = "save" => x.def = x.read.def
            BY ONLY <2>1, <2>3
        <3>2. x.pc \in {"clear", "save default"} => x.def
            BY ONLY <2>1, <2>3, Zenon
        <3>3. x.op # "create" /\ x.pc \in {"clear", "save"} /\ x.op \in {"patch", "default"}
            BY ONLY <2>1, <2>3
        <3>4. x.id \in 1..seq /\ x.text \in Text /\ x.def \in BOOLEAN /\ x.read \in Profile!Row
              /\ x.read.text # "" /\ x.count \in Nat /\ DOMAIN x = DOMAIN Profile!Idle
            <4>1. x.id = i /\ x.text = t /\ x.def = d /\ x.read = row /\ x.count = 0
                BY ONLY <2>3
            <4>2. x.count \in Nat
                BY ONLY <4>1
            <4> QED BY ONLY <2>1, <2>3, <4>1, <4>2, Zenon
        <3>5. /\ x.pc \in {"idle", "id", "clear", "save", "save default", "upsert"}
              /\ x.pc # "id" /\ x.pc # "upsert" /\ x.op \in {"create", "patch", "default"}
            BY ONLY <3>3
        <3> QED BY ONLY <3>1, <3>2, <3>3, <3>4, <3>5, Zenon DEF Profile!RequestOK
    <2> QED BY <1>3, <1>7, <2>2, <2>4
<1>8. CASE Profile!PatchAddress(q)
    <2>1. PICK i \in Profile!Present, t \in Text \cup {""}, d \in BOOLEAN :
              bookReq' = [bookReq EXCEPT ![q] =
                  [Profile!Idle EXCEPT !.pc = IF d THEN "clear" ELSE "save", !.op = "patch", !.id = i,
                               !.text = IF t = "" THEN book[i].text ELSE t,
                               !.def = d \/ book[i].def, !.read = book[i]]]
        BY <1>8 DEF Profile!PatchAddress, Profile!Step
    <2>2. bookReq[q].pc = "idle" /\ UNCHANGED <<book, fields, seq, wanted, pick, excused, crowded>>
        BY <1>8 DEF Profile!PatchAddress, Profile!history
    <2> DEFINE to == IF d THEN "clear" ELSE "save"
               text == IF t = "" THEN book[i].text ELSE t
               def == d \/ book[i].def
    <2>3. to \in {"clear", "save"} /\ text \in Text /\ def \in BOOLEAN
          /\ (to = "save" => def = book[i].def) /\ (to = "clear" => def)
        BY <1>4
    <2>4. bookReq' = [bookReq EXCEPT ![q] =
                  [Profile!Idle EXCEPT !.pc = to, !.op = "patch", !.id = i,
                               !.text = text, !.def = def, !.read = book[i]]]
        BY <2>1
    <2> HIDE DEF to, text, def
    <2> QED BY ONLY <1>7, <2>2, <2>3, <2>4
<1>9. CASE Profile!SetDefaultAddress(q)
    <2>1. PICK i \in Profile!Present :
              bookReq' = [bookReq EXCEPT ![q] =
                  [Profile!Idle EXCEPT !.pc = "clear", !.op = "default", !.id = i,
                               !.text = book[i].text, !.def = TRUE, !.read = book[i]]]
        BY <1>9 DEF Profile!SetDefaultAddress, Profile!Step
    <2>2. bookReq[q].pc = "idle" /\ UNCHANGED <<book, fields, seq, wanted, pick, excused, crowded>>
        BY <1>9 DEF Profile!SetDefaultAddress, Profile!history
    <2>3. book[i].text \in Text
        BY <1>4
    <2> QED BY ONLY <1>7, <2>1, <2>2, <2>3
<1>10. CASE Profile!PatchProfile(q)
    <2>1. PICK f \in Profile!Field, t \in Text :
              bookReq' = [bookReq EXCEPT ![q] =
                  [Profile!Idle EXCEPT !.pc = "upsert", !.op = f, !.text = t, !.read = fields]]
        BY <1>10 DEF Profile!PatchProfile, Profile!Step
    <2>2. bookReq[q].pc = "idle" /\ UNCHANGED <<book, fields, seq, wanted, pick, excused, crowded>>
        BY <1>10 DEF Profile!PatchProfile, Profile!history
    <2> DEFINE x == [Profile!Idle EXCEPT !.pc = "upsert", !.op = f, !.text = t, !.read = fields]
    <2>3. /\ DOMAIN x = DOMAIN Profile!Idle /\ x.pc = "upsert" /\ x.op = f /\ x.text = t
          /\ x.read = fields
        BY ONLY <2>1 DEF Profile!Idle
    <2>4. fields \in Profile!Fields
        BY DEF Profile!ProfileInv
    <2> HIDE DEF x
    <2>5. Profile!RequestOK(x, seq)
        BY <2>3, <2>4 DEF Profile!RequestOK
    <2> QED BY <1>3, <2>1, <2>2, <2>5 DEF x
<1> QED BY <1>5, <1>6, <1>8, <1>9, <1>10

\* What an update of the rows must leave for the invariant to go on.
LEMMA ProfileWrites ==
    ASSUME MaxAddress \in Nat, Profile!ProfileInv, Profile!BookOK',
           fields' \in Profile!Fields, seq' = seq,
           bookReq' = [q \in Request |-> bookReq'[q]], 
           \A q \in Request : Profile!RequestOK(bookReq'[q], seq),
           wanted' \in [book : [Profile!Id -> Text \cup {""}], profile : Profile!Fields],
           excused' \in BOOLEAN, crowded' \in BOOLEAN,
           excused' \/ /\ \A i \in Profile!Id : book'[i].text = wanted'.book[i]
                       /\ fields' = wanted'.profile
                       /\ Profile!PickOK' \/ \E q \in Request : bookReq'[q].pc = "save default",
           Profile!LimitHolds'
    PROVE  Profile!ProfileInv'
<1>1. seq' \in 0..MaxAddress
    BY DEF Profile!ProfileInv
<1> QED BY <1>1 DEF Profile!ProfileInv

LEMMA ProfilePresent ==
    Profile!BookOK => Profile!Present = {i \in Profile!Id : book[i].text # ""}
BY Assumptions, ProfileTable DEF Profile!ProfileAssumption

\* The addresses after a step that adds none.
LEMMA ProfileKeepsLimit ==
    ASSUME Profile!ProfileAssumption, Profile!ProfileInv, Profile!BookOK',
           \A i \in Profile!Id : book'[i].text # "" => book[i].text # "",
           excused => excused', crowded => crowded'
    PROVE  Profile!LimitHolds'
<1>1. /\ MaxAddress \in Nat /\ MaxAddressesPerUser \in Nat /\ Profile!BookOK /\ Profile!LimitHolds
    BY DEF Profile!ProfileAssumption, Profile!ProfileInv
<1>2. /\ Profile!Present = {i \in Profile!Id : book[i].text # ""}
      /\ IsFiniteSet(Profile!Present) /\ Cardinality(Profile!Present) \in Nat
    BY <1>1, ProfileTable
<1>4. Profile!BookOK' => Profile!Present' = {i \in Profile!Id : book'[i].text # ""}
    <2>1. (Profile!BookOK => Profile!Present = {i \in Profile!Id : book[i].text # ""})'
        BY ProfilePresent, PTL
    <2> QED BY <2>1 DEF Profile!Id
<1>5. Profile!Present' \subseteq Profile!Present
    BY <1>1, <1>2, <1>4
<1>6. Profile!Cardinality(Profile!Present) <= MaxAddressesPerUser
          => Profile!Cardinality(Profile!Present') <= MaxAddressesPerUser
    BY <1>1, <1>2, <1>5, ProfileFewer
<1> QED BY <1>1, <1>6 DEF Profile!LimitHolds

\* What is known of a request that is at an address.
LEMMA ProfileEdits ==
    ASSUME Profile!ProfileAssumption, Profile!ProfileInv, NEW q \in Request,
           bookReq[q].pc \in {"clear", "save", "save default"}
    PROVE  /\ DOMAIN bookReq[q] = DOMAIN Profile!Idle
           /\ bookReq[q].id \in Profile!Id /\ bookReq[q].id <= seq /\ bookReq[q].id \in Nat
           /\ bookReq[q].id \in 1..seq /\ bookReq[q].id # 0
           /\ bookReq[q].op \in {"create", "patch", "default"}
           /\ bookReq[q].text \in Text /\ bookReq[q].text # "" /\ bookReq[q].def \in BOOLEAN
           /\ bookReq[q].read \in Profile!Row /\ bookReq[q].count \in Nat
           /\ IF bookReq[q].op = "create" THEN bookReq[q].count < MaxAddressesPerUser
              ELSE bookReq[q].read.text # ""
           /\ bookReq[q].pc = "save" => bookReq[q].def = bookReq[q].read.def
           /\ bookReq[q].pc \in {"clear", "save default"} => bookReq[q].def
<1>1. Profile!RequestOK(bookReq[q], seq)
    BY DEF Profile!ProfileInv
<1>2. /\ MaxAddress \in Nat /\ seq \in 0..MaxAddress /\ "" \notin Text
    BY DEF Profile!ProfileInv, Profile!ProfileAssumption
<1>3. bookReq[q].id \in 1..seq /\ bookReq[q].text \in Text
    BY <1>1 DEF Profile!RequestOK
<1>4. bookReq[q].id \in 1..MaxAddress /\ bookReq[q].id \in Nat /\ bookReq[q].id <= seq /\ bookReq[q].id # 0
    <2> DEFINE i == bookReq[q].id
    <2>1. MaxAddress \in Nat /\ seq \in 0..MaxAddress /\ i \in 1..seq
        BY <1>2, <1>3
    <2> HIDE DEF i
    <2>2. i \in 1..MaxAddress /\ i \in Nat /\ i <= seq /\ i # 0
        BY ONLY <2>1
    <2> QED BY ONLY <2>2 DEF i
<1>5. bookReq[q].id \in Profile!Id /\ bookReq[q].text # ""
    BY <1>2, <1>3, <1>4 DEF Profile!Id
<1> QED BY <1>1, <1>3, <1>4, <1>5 DEF Profile!RequestOK

LEMMA ProfileClears ==
    ASSUME Profile!ProfileAssumption, Profile!ProfileInv, NEW q \in Request,
           Profile!ClearDefaultAddresses(q)
    PROVE  Profile!ProfileInv'
<1> DEFINE r == bookReq[q]
           v == IF book[r.id] = r.read THEN FALSE ELSE r.read.def
           read == [r.read EXCEPT !.def = v]
           x == [r EXCEPT !.pc = "save default", !.read = read]
<1>1. /\ book' = [i \in Profile!Id |-> [book[i] EXCEPT !.def = FALSE]] /\ r.pc = "clear"
      /\ UNCHANGED <<fields, seq, wanted, pick, excused, crowded>>
    BY DEF Profile!ClearDefaultAddresses, Profile!history
<1>2. bookReq' = [bookReq EXCEPT ![q] = x]
    BY DEF Profile!ClearDefaultAddresses, Profile!Step
<1>3. /\ DOMAIN r = DOMAIN Profile!Idle
      /\ r.id \in 1..seq /\ r.op \in {"create", "patch", "default"}
      /\ r.text \in Text /\ r.def \in BOOLEAN /\ r.read \in Profile!Row /\ r.count \in Nat
      /\ IF r.op = "create" THEN r.count < MaxAddressesPerUser ELSE r.read.text # ""
      /\ r.def
    BY <1>1, ProfileEdits
<1>4. /\ MaxAddress \in Nat /\ seq \in Nat /\ Profile!BookOK /\ seq <= seq
      /\ wanted \in [book : [Profile!Id -> Text \cup {""}], profile : Profile!Fields]
      /\ excused \in BOOLEAN /\ crowded \in BOOLEAN /\ fields \in Profile!Fields
      /\ excused \/ /\ \A i \in Profile!Id : book[i].text = wanted.book[i]
                    /\ fields = wanted.profile
    <2>1. MaxAddress \in Nat /\ seq \in 0..MaxAddress
        BY DEF Profile!ProfileInv, Profile!ProfileAssumption
    <2>2. seq \in Nat /\ seq <= seq
        BY <2>1, ProfileIds
    <2> QED BY <1>1, <2>1, <2>2 DEF Profile!ProfileInv
<1>5. v \in BOOLEAN /\ read \in Profile!Row /\ read.text = r.read.text
    <2>1. v \in BOOLEAN
        BY <1>3 DEF Profile!Row
    <2> HIDE DEF v
    <2> QED BY <1>3, <2>1 DEF Profile!Row
<1>6. /\ DOMAIN x = DOMAIN Profile!Idle
      /\ x.pc = "save default" /\ x.op = r.op /\ x.id = r.id /\ x.text = r.text /\ x.def = r.def
      /\ x.read = read /\ x.count = r.count
    <2>1. {"pc", "id", "op", "text", "def", "read", "count"} = DOMAIN r
        BY <1>3 DEF Profile!Idle
    <2> HIDE DEF read
    <2>2. x = [r EXCEPT !.pc = "save default", !.read = read]
        OBVIOUS
    <2> HIDE DEF x, r
    <2>3. DOMAIN x = DOMAIN r
        BY ONLY <2>2
    <2>4. /\ x.pc = "save default" /\ x.op = r.op /\ x.id = r.id /\ x.text = r.text /\ x.def = r.def
          /\ x.read = read /\ x.count = r.count
        BY ONLY <2>1, <2>2
    <2> QED BY <1>3, <2>3, <2>4
<1>7. Profile!RequestOK(x, seq)
    <2> HIDE DEF x, read, r
    <2>1. x.pc # "save" /\ x.pc # "id" /\ x.pc # "upsert"
          /\ x.pc \in {"idle", "id", "clear", "save", "save default", "upsert"}
        BY ONLY <1>6
    <2>2. /\ x.op \in {"create", "patch", "default"} /\ x.id \in 1..seq /\ x.text \in Text /\ x.def \in BOOLEAN
          /\ x.def /\ x.read \in Profile!Row /\ x.count \in Nat
          /\ IF x.op = "create" THEN x.count < MaxAddressesPerUser ELSE x.read.text # ""
        BY ONLY <1>3, <1>5, <1>6, Zenon
    <2> QED BY ONLY <1>6, <2>1, <2>2, Zenon DEF Profile!RequestOK
<1> HIDE DEF x
<1>8. /\ bookReq' = [p \in Request |-> bookReq'[p]]
      /\ \A p \in Request : Profile!RequestOK(bookReq'[p], seq')
      /\ bookReq'[q] = x
    <2>1. seq' = seq
        BY <1>1
    <2>2. Profile!RequestOK(x, seq') /\ seq' \in Nat /\ seq <= seq'
        BY <1>4, <1>7, <2>1
    <2> QED BY <1>2, <1>4, <2>2, ProfileMoves
<1>9. \A i \in Profile!Id : book'[i] = [text |-> book[i].text, def |-> FALSE]
    BY <1>1, <1>4 DEF Profile!BookOK, Profile!Row
<1>10. Profile!BookOK'
    <2>1. /\ book' = [i \in Profile!Id |-> book'[i]]
          /\ \A i \in Profile!Id : book[i].text \in Text \cup {""} /\ (book[i].text # "" => i <= seq)
        BY <1>1, <1>4 DEF Profile!BookOK, Profile!Row
    <2>2. \A i \in Profile!Id : book'[i].text = book[i].text /\ book'[i].def = FALSE
                                /\ book'[i] \in Profile!Row
        <3> SUFFICES ASSUME NEW i \in Profile!Id
                     PROVE  /\ book'[i].text = book[i].text /\ book'[i].def = FALSE
                            /\ book'[i] \in Profile!Row
            OBVIOUS
        <3> DEFINE t == book[i].text
        <3>1. book'[i] = [text |-> t, def |-> FALSE] /\ t \in Text \cup {""}
            BY <1>9, <2>1
        <3> HIDE DEF t
        <3>2. [text |-> t, def |-> FALSE] \in Profile!Row
            BY <3>1 DEF Profile!Row
        <3>3. [text |-> t, def |-> FALSE].text = t /\ [text |-> t, def |-> FALSE].def = FALSE
            OBVIOUS
        <3> QED BY <3>1, <3>2, <3>3 DEF t
    <2>3. book' \in [Profile!Id -> Profile!Row]
        BY <2>1, <2>2
    <2> QED BY <1>1, <2>1, <2>2, <2>3 DEF Profile!BookOK
<1>11. \A i \in Profile!Id : book'[i].text = book[i].text
    <2> SUFFICES ASSUME NEW i \in Profile!Id
                 PROVE  book'[i].text = book[i].text
        OBVIOUS
    <2>1. book'[i] = [text |-> book[i].text, def |-> FALSE]
        BY <1>9
    <2> QED BY ONLY <2>1
<1>12. Profile!LimitHolds'
    BY <1>1, <1>10, <1>11, ProfileKeepsLimit
<1>13. \E p \in Request : bookReq'[p].pc = "save default"
    BY <1>6, <1>8 DEF x
<1>14. excused' \/ /\ \A i \in Profile!Id : book'[i].text = wanted'.book[i]
                   /\ fields' = wanted'.profile
                   /\ Profile!PickOK' \/ \E p \in Request : bookReq'[p].pc = "save default"
    BY <1>1, <1>4, <1>11, <1>13
<1> QED BY <1>1, <1>4, <1>8, <1>10, <1>12, <1>14, ProfileWrites

LEMMA ProfileSaves ==
    ASSUME Profile!ProfileAssumption, Profile!ProfileInv, NEW q \in Request, Profile!SaveAddress(q)
    PROVE  Profile!ProfileInv'
<1> DEFINE r == bookReq[q]
           id == r.id
           text == r.text
           def == r.def
           row == [text |-> text, def |-> def]
<1>1. /\ r.pc \in {"save", "save default"} /\ Profile!OneDefault(r)
      /\ book' = [book EXCEPT ![id] = row]
      /\ excused' = (excused \/ book[id] # r.read)
      /\ wanted' = IF excused' THEN Profile!Nothing ELSE [wanted EXCEPT !.book[id] = text]
      /\ pick' = CASE excused' -> 0 [] def -> id [] OTHER -> pick
      /\ crowded' = (crowded \/ (r.op = "create" /\ r.count < Profile!Cardinality(Profile!Present)))
      /\ bookReq' = [bookReq EXCEPT ![q] = Profile!Idle]
      /\ UNCHANGED <<fields, seq>>
    BY DEF Profile!SaveAddress, Profile!Done, Profile!Step
<1>2. /\ id \in Profile!Id /\ id <= seq /\ id # 0
      /\ text \in Text /\ text # "" /\ def \in BOOLEAN /\ r.count \in Nat
      /\ IF r.op = "create" THEN r.count < MaxAddressesPerUser ELSE r.read.text # ""
      /\ r.pc = "save" => def = r.read.def
      /\ r.pc = "save default" => def
    BY <1>1, ProfileEdits
<1>3. /\ MaxAddress \in Nat /\ Profile!BookOK /\ fields \in Profile!Fields
      /\ wanted \in [book : [Profile!Id -> Text \cup {""}], profile : Profile!Fields]
      /\ excused \in BOOLEAN /\ crowded \in BOOLEAN
      /\ excused \/ /\ \A i \in Profile!Id : book[i].text = wanted.book[i]
                    /\ fields = wanted.profile
                    /\ Profile!PickOK \/ \E p \in Request : bookReq[p].pc = "save default"
    BY DEF Profile!ProfileInv, Profile!ProfileAssumption
<1>4. seq \in Nat /\ seq <= seq
    <2>1. seq \in 0..MaxAddress
        BY DEF Profile!ProfileInv
    <2>2. MaxAddress \in Nat
        BY <1>3
    <2> QED BY ONLY <2>1, <2>2, ProfileIds
<1>5. /\ bookReq' = [p \in Request |-> bookReq'[p]]
      /\ \A p \in Request : Profile!RequestOK(bookReq'[p], seq)
      /\ \A p \in Request : p # q => bookReq'[p] = bookReq[p]
    <2>1. seq' = seq
        BY <1>1
    <2>2. Profile!RequestOK(Profile!Idle, seq') /\ seq' \in Nat /\ seq <= seq'
        <3>1. Profile!Idle.pc = "idle"
            BY DEF Profile!Idle
        <3> QED BY <1>4, <2>1, <3>1 DEF Profile!RequestOK
    <2>3. /\ bookReq' = [p \in Request |-> bookReq'[p]]
          /\ \A p \in Request : Profile!RequestOK(bookReq'[p], seq')
          /\ \A p \in Request : p # q => bookReq'[p] = bookReq[p]
        BY <1>1, <1>3, <2>2, ProfileMoves
    <2> QED BY <2>1, <2>3
<1>6. /\ Profile!Defaults = {i \in Profile!Id : book[i].def}
      /\ Profile!Present = {i \in Profile!Id : book[i].text # ""}
      /\ IsFiniteSet(Profile!Present) /\ Cardinality(Profile!Present) \in Nat
    BY <1>3, ProfileTable
<1>7. \A i \in Profile!Id : def /\ book[i].def => i = id
    BY <1>1, <1>6 DEF Profile!OneDefault
<1>8. row \in Profile!Row /\ row.text = text /\ row.def = def
    BY <1>2 DEF Profile!Row
<1> HIDE DEF id, text, def, row
<1>9. /\ book \in [Profile!Id -> Profile!Row]
      /\ \A i \in Profile!Id : /\ book[i].text = "" => ~book[i].def
                               /\ book[i].text # "" => i <= seq
      /\ \A i, j \in Profile!Id : book[i].def /\ book[j].def => i = j
    BY <1>3 DEF Profile!BookOK
<1>10. /\ book' \in [Profile!Id -> Profile!Row] /\ book'[id] = row
       /\ \A i \in Profile!Id : i # id => book'[i] = book[i]
    BY <1>1, <1>2, <1>8, <1>9
<1>11. Profile!BookOK'
    <2>1. \A i \in Profile!Id : /\ book'[i].text = "" => ~book'[i].def
                                /\ book'[i].text # "" => i <= seq
        BY <1>2, <1>8, <1>9, <1>10
    <2>2. \A i, j \in Profile!Id : book'[i].def /\ book'[j].def => i = j
        <3>1. \A j \in Profile!Id : row.def /\ book[j].def => j = id
            BY <1>7, <1>8
        <3> QED BY <1>9, <1>10, <3>1
    <2>3. seq' = seq
        BY <1>1
    <2> QED BY <1>10, <2>1, <2>2, <2>3 DEF Profile!BookOK
<1>12. /\ Profile!Nothing \in [book : [Profile!Id -> Text \cup {""}], profile : Profile!Fields]
       /\ Profile!Nothing.profile = Profile!Blank
    BY DEF Profile!Nothing, Profile!Fields, Profile!Blank
<1>13. excused' \in BOOLEAN /\ crowded' \in BOOLEAN
    BY <1>1, <1>3
<1>14. ASSUME ~excused'
       PROVE  /\ ~excused /\ book[id] = r.read
              /\ wanted'.book = [wanted.book EXCEPT ![id] = text] /\ wanted'.profile = wanted.profile
              /\ wanted' \in [book : [Profile!Id -> Text \cup {""}], profile : Profile!Fields]
    <2>1. ~excused /\ book[id] = r.read /\ wanted' = [wanted EXCEPT !.book[id] = text]
        BY <1>1, <1>14
    <2> DEFINE b == [wanted.book EXCEPT ![id] = text]
    <2>2. wanted' = [wanted EXCEPT !.book = b]
        BY <2>1
    <2>3. b \in [Profile!Id -> Text \cup {""}]
        BY <1>2, <1>3 DEF text
    <2> HIDE DEF b
    <2>4. /\ wanted = [book |-> wanted.book, profile |-> wanted.profile]
          /\ wanted.profile \in Profile!Fields
        BY <1>3
    <2>5. wanted' = [book |-> b, profile |-> wanted.profile]
        BY <2>2, <2>4
    <2> QED BY <2>1, <2>3, <2>4, <2>5 DEF b
<1>15. wanted' \in [book : [Profile!Id -> Text \cup {""}], profile : Profile!Fields]
    BY <1>1, <1>12, <1>14
<1>16. excused' \/ /\ \A i \in Profile!Id : book'[i].text = wanted'.book[i]
                   /\ fields' = wanted'.profile
                   /\ Profile!PickOK' \/ \E p \in Request : bookReq'[p].pc = "save default"
    <2> SUFFICES ASSUME ~excused'
                 PROVE  /\ \A i \in Profile!Id : book'[i].text = wanted'.book[i]
                        /\ fields' = wanted'.profile
                        /\ Profile!PickOK' \/ \E p \in Request : bookReq'[p].pc = "save default"
        OBVIOUS
    <2>1. /\ \A i \in Profile!Id : book[i].text = wanted.book[i]
          /\ fields' = wanted'.profile
          /\ Profile!PickOK \/ \E p \in Request : bookReq[p].pc = "save default"
        BY <1>1, <1>3, <1>14
    <2>2. \A i \in Profile!Id : book'[i].text = wanted'.book[i]
        <3>1. wanted.book \in [Profile!Id -> Text \cup {""}]
            BY <1>3
        <3>2. \A i \in Profile!Id : wanted'.book[i] = IF i = id THEN text ELSE wanted.book[i]
            BY <1>14, <3>1
        <3> QED BY <1>8, <1>10, <2>1, <3>2
    <2>3. CASE def
        <3>1. pick' = id
            BY <1>1, <2>3
        <3>2. {i \in Profile!Id : book'[i].def} = {id}
            BY <1>2, <1>7, <1>8, <1>10, <2>3 DEF id
        <3>3. Profile!PickOK'
            BY <1>2, <3>1, <3>2 DEF Profile!PickOK, id
        <3> QED BY <2>1, <2>2, <3>3
    <2>4. CASE ~def
        <3>1. pick' = pick
            BY <1>1, <2>4
        <3>2. r.pc = "save" /\ ~book[id].def
            BY <1>1, <1>2, <1>14, <2>4 DEF def
        <3>3. \A i \in Profile!Id : book'[i].def <=> book[i].def
            BY <1>8, <1>10, <2>4, <3>2
        <3>4. {i \in Profile!Id : book'[i].def} = {i \in Profile!Id : book[i].def}
            BY <3>3
        <3>5. Profile!PickOK' <=> Profile!PickOK
            BY <3>1, <3>4 DEF Profile!PickOK
        <3>6. ASSUME NEW p \in Request, bookReq[p].pc = "save default"
              PROVE  bookReq'[p].pc = "save default"
            <4>1. p # q
                BY <3>2, <3>6
            <4> QED BY <1>5, <3>6, <4>1
        <3> QED BY <2>1, <2>2, <3>5, <3>6
    <2> QED BY <2>3, <2>4
<1>17. Profile!LimitHolds'
    <2> SUFFICES ASSUME ~excused', ~crowded'
                 PROVE  Profile!Cardinality(Profile!Present') <= MaxAddressesPerUser
        BY DEF Profile!LimitHolds
    <2>1. CASE r.op = "create"
        <3>1. r.count \in Nat /\ ~(r.count < Profile!Cardinality(Profile!Present))
              /\ r.count < MaxAddressesPerUser /\ MaxAddressesPerUser \in Nat
            BY <1>1, <1>2, <2>1 DEF Profile!ProfileAssumption
        <3>2. Profile!Cardinality(Profile!Present) = Cardinality(Profile!Present)
            BY ProfileCounts
        <3> DEFINE more == Profile!Present \cup {id}
        <3>3. IsFiniteSet(more) /\ Cardinality(more) <= Cardinality(Profile!Present) + 1
            <4>1. IsFiniteSet(Profile!Present) /\ Cardinality(Profile!Present) \in Nat
                BY <1>6
            <4>2. /\ IsFiniteSet(Profile!Present \cup {id})
                  /\ Cardinality(Profile!Present \cup {id}) =
                        IF id \in Profile!Present THEN Cardinality(Profile!Present)
                        ELSE Cardinality(Profile!Present) + 1
                BY ONLY <4>1, FS_AddElement
            <4> QED BY ONLY <4>1, <4>2
        <3>4. Cardinality(more) \in Nat /\ Profile!Cardinality(more) = Cardinality(more)
            BY <3>3, FS_CardinalityType, ProfileCounts
        <3>5. Profile!Cardinality(more) <= MaxAddressesPerUser
            <4> DEFINE n == r.count
                       few == Cardinality(Profile!Present)
                       many == Cardinality(more)
            <4>1. /\ n \in Nat /\ ~(n < few) /\ n < MaxAddressesPerUser /\ MaxAddressesPerUser \in Nat
                  /\ few \in Nat /\ many \in Nat /\ many <= few + 1 /\ Profile!Cardinality(more) = many
                BY <1>6, <3>1, <3>2, <3>3, <3>4
            <4> HIDE DEF n, few, many
            <4> QED BY ONLY <4>1
        <3>6. Profile!Present' = {i \in Profile!Id : book'[i].text # ""}
            <4>1. (Profile!BookOK => Profile!Present = {i \in Profile!Id : book[i].text # ""})'
                BY ProfilePresent, PTL
            <4> QED BY <1>11, <4>1 DEF Profile!Id
        <3>7. Profile!Present' \subseteq more
            BY <1>6, <1>10, <3>6
        <3> HIDE DEF more
        <3> QED BY <3>1, <3>3, <3>4, <3>5, <3>7, ProfileFewer
    <2>2. CASE r.op # "create"
        <3>1. book[id].text # ""
            BY <1>2, <1>14, <2>2
        <3>2. \A i \in Profile!Id : book'[i].text # "" => book[i].text # ""
            BY <1>10, <3>1
        <3>3. (excused => excused') /\ (crowded => crowded')
            BY <1>1
        <3>4. Profile!LimitHolds'
            BY <1>11, <3>2, <3>3, ProfileKeepsLimit
        <3> QED BY <3>4 DEF Profile!LimitHolds
    <2> QED BY <2>1, <2>2
<1>18. fields' \in Profile!Fields /\ seq' = seq
    BY <1>1, <1>3
<1> QED BY <1>3, <1>5, <1>11, <1>13, <1>15, <1>16, <1>17, <1>18, ProfileWrites

\* Rows that are gone, one of them or all.
LEMMA ProfileDeletes ==
    ASSUME Profile!ProfileAssumption, Profile!ProfileInv, Profile!DeleteAddress
    PROVE  Profile!ProfileInv'
<1>1. PICK d \in Profile!Present :
          /\ book' = [book EXCEPT ![d] = Profile!None]
          /\ wanted' = [wanted EXCEPT !.book[d] = ""]
          /\ pick' = IF pick = d THEN 0 ELSE pick
    BY DEF Profile!DeleteAddress
<1>2. UNCHANGED <<fields, seq, bookReq, excused, crowded>>
    BY DEF Profile!DeleteAddress
<1>3. /\ MaxAddress \in Nat /\ Profile!BookOK /\ fields \in Profile!Fields
      /\ wanted \in [book : [Profile!Id -> Text \cup {""}], profile : Profile!Fields]
      /\ excused \in BOOLEAN /\ crowded \in BOOLEAN
      /\ excused \/ /\ \A i \in Profile!Id : book[i].text = wanted.book[i]
                    /\ fields = wanted.profile
                    /\ Profile!PickOK \/ \E p \in Request : bookReq[p].pc = "save default"
      /\ bookReq = [p \in Request |-> bookReq[p]]
      /\ \A p \in Request : Profile!RequestOK(bookReq[p], seq)
    BY DEF Profile!ProfileInv, Profile!ProfileAssumption
<1>4. d \in Profile!Id /\ d # 0 /\ book[d].text # ""
    <2>1. d \in Profile!Id /\ book[d].text # ""
        BY <1>3, ProfileTable
    <2>2. MaxAddress \in Nat
        BY <1>3
    <2>3. 1 <= d /\ d \in Nat
        BY ONLY <2>1, <2>2, ProfileIds
    <2>4. d # 0
        BY ONLY <2>3
    <2> QED BY <2>1, <2>4
<1>5. /\ book \in [Profile!Id -> Profile!Row]
      /\ \A i \in Profile!Id : /\ book[i].text = "" => ~book[i].def
                               /\ book[i].text # "" => i <= seq
      /\ \A i, j \in Profile!Id : book[i].def /\ book[j].def => i = j
    BY <1>3 DEF Profile!BookOK
<1>6. Profile!None \in Profile!Row /\ Profile!None.text = "" /\ ~Profile!None.def
    BY DEF Profile!None, Profile!Row
<1>7. /\ book' \in [Profile!Id -> Profile!Row] /\ book'[d] = Profile!None
      /\ \A i \in Profile!Id : i # d => book'[i] = book[i]
    BY <1>1, <1>4, <1>5, <1>6
<1>8. Profile!BookOK'
    <2>1. \A i \in Profile!Id : /\ book'[i].text = "" => ~book'[i].def
                                /\ book'[i].text # "" => i <= seq
        BY <1>5, <1>6, <1>7
    <2>2. \A i, j \in Profile!Id : book'[i].def /\ book'[j].def => i = j
        BY <1>5, <1>6, <1>7
    <2> QED BY <1>2, <1>7, <2>1, <2>2 DEF Profile!BookOK
<1> DEFINE b == [wanted.book EXCEPT ![d] = ""]
<1>9. /\ b \in [Profile!Id -> Text \cup {""}]
      /\ \A i \in Profile!Id : b[i] = IF i = d THEN "" ELSE wanted.book[i]
    <2>1. wanted.book \in [Profile!Id -> Text \cup {""}] /\ "" \in Text \cup {""}
        BY <1>3
    <2> QED BY ONLY <1>4, <2>1
<1>10. wanted' = [book |-> b, profile |-> wanted.profile]
    <2>1. wanted' = [wanted EXCEPT !.book = b]
        BY <1>1
    <2> HIDE DEF b
    <2>2. wanted = [book |-> wanted.book, profile |-> wanted.profile]
        BY <1>3
    <2> QED BY ONLY <2>1, <2>2
<1> HIDE DEF b
<1>11. /\ wanted' \in [book : [Profile!Id -> Text \cup {""}], profile : Profile!Fields]
       /\ wanted'.book = b /\ wanted'.profile = wanted.profile
    BY <1>3, <1>9, <1>10
<1>12. ASSUME Profile!PickOK
       PROVE  Profile!PickOK'
    <2>1. {i \in Profile!Id : book[i].def} = IF pick = 0 THEN {} ELSE {pick}
        BY <1>12 DEF Profile!PickOK
    <2>2. {i \in Profile!Id : book'[i].def} = {i \in Profile!Id : book[i].def} \ {d}
        BY <1>6, <1>7
    <2>3. {i \in Profile!Id : book'[i].def} = IF pick' = 0 THEN {} ELSE {pick'}
        BY <1>1, <1>4, <2>1, <2>2
    <2> QED BY <2>3 DEF Profile!PickOK
<1>13. excused' \/ /\ \A i \in Profile!Id : book'[i].text = wanted'.book[i]
                   /\ fields' = wanted'.profile
                   /\ Profile!PickOK' \/ \E p \in Request : bookReq'[p].pc = "save default"
    <2> SUFFICES ASSUME ~excused
                 PROVE  /\ \A i \in Profile!Id : book'[i].text = wanted'.book[i]
                        /\ fields' = wanted'.profile
                        /\ Profile!PickOK' \/ \E p \in Request : bookReq'[p].pc = "save default"
        BY <1>2
    <2>1. \A i \in Profile!Id : book'[i].text = wanted'.book[i]
        BY <1>3, <1>6, <1>7, <1>9, <1>11
    <2>2. fields' = wanted'.profile
        BY <1>2, <1>3, <1>11
    <2> QED BY <1>2, <1>3, <1>12, <2>1, <2>2
<1>14. Profile!LimitHolds'
    <2>1. \A i \in Profile!Id : book'[i].text # "" => book[i].text # ""
        BY <1>6, <1>7
    <2> QED BY <1>2, <1>8, <2>1, ProfileKeepsLimit
<1> QED BY <1>2, <1>3, <1>8, <1>11, <1>13, <1>14, ProfileWrites

LEMMA ProfileErased ==
    ASSUME Profile!ProfileAssumption, Profile!ProfileInv, Profile!DeleteUserData
    PROVE  Profile!ProfileInv'
<1>1. /\ book' = [i \in Profile!Id |-> [text |-> "", def |-> FALSE]]
      /\ fields' = [f \in Profile!Field |-> ""] /\ pick' = 0
      /\ wanted' = [book |-> [i \in Profile!Id |-> ""], profile |-> [f \in Profile!Field |-> ""]]
      /\ UNCHANGED <<seq, bookReq, excused, crowded>>
    BY DEF Profile!DeleteUserData, Profile!Nothing, Profile!Blank, Profile!None
<1>2. /\ MaxAddress \in Nat /\ excused \in BOOLEAN /\ crowded \in BOOLEAN
      /\ bookReq = [p \in Request |-> bookReq[p]]
      /\ \A p \in Request : Profile!RequestOK(bookReq[p], seq)
    BY DEF Profile!ProfileInv, Profile!ProfileAssumption
<1>3. Profile!BookOK'
    BY <1>1 DEF Profile!BookOK, Profile!Row
<1>4. Profile!PickOK'
    BY <1>1 DEF Profile!PickOK
<1>5. /\ wanted' \in [book : [Profile!Id -> Text \cup {""}], profile : Profile!Fields]
      /\ fields' \in Profile!Fields
    BY <1>1 DEF Profile!Fields
<1>6. \A i \in Profile!Id : book'[i].text = "" /\ wanted'.book[i] = ""
    BY <1>1
<1>7. fields' = wanted'.profile
    BY <1>1
<1>8. Profile!LimitHolds'
    BY <1>1, <1>3, <1>6, ProfileKeepsLimit
<1> QED BY <1>1, <1>2, <1>3, <1>4, <1>5, <1>6, <1>7, <1>8, ProfileWrites

LEMMA ProfileUpserts ==
    ASSUME Profile!ProfileAssumption, Profile!ProfileInv, NEW q \in Request, Profile!UpsertProfile(q)
    PROVE  Profile!ProfileInv'
<1> DEFINE r == bookReq[q]
           read == r.read
           f == r.op
           text == r.text
           next == [read EXCEPT ![f] = text]
<1>1. /\ r.pc = "upsert" /\ fields' = next
      /\ excused' = (excused \/ fields # read)
      /\ wanted' = IF excused' THEN Profile!Nothing ELSE [wanted EXCEPT !.profile[f] = text]
      /\ pick' = IF excused' THEN 0 ELSE pick
      /\ bookReq' = [bookReq EXCEPT ![q] = Profile!Idle]
      /\ UNCHANGED <<book, seq, crowded>>
    BY DEF Profile!UpsertProfile, Profile!Done, Profile!Step
<1>2. /\ MaxAddress \in Nat /\ Profile!BookOK /\ fields \in Profile!Fields
      /\ wanted \in [book : [Profile!Id -> Text \cup {""}], profile : Profile!Fields]
      /\ excused \in BOOLEAN /\ crowded \in BOOLEAN
      /\ excused \/ /\ \A i \in Profile!Id : book[i].text = wanted.book[i]
                    /\ fields = wanted.profile
                    /\ Profile!PickOK \/ \E p \in Request : bookReq[p].pc = "save default"
    BY DEF Profile!ProfileInv, Profile!ProfileAssumption
<1>3. f \in Profile!Field /\ text \in Text /\ read \in Profile!Fields
    <2>1. Profile!RequestOK(r, seq)
        BY DEF Profile!ProfileInv
    <2> QED BY <1>1, <2>1 DEF Profile!RequestOK
<1>4. seq \in Nat /\ seq <= seq
    <2>1. seq \in 0..MaxAddress
        BY DEF Profile!ProfileInv
    <2>2. MaxAddress \in Nat
        BY <1>2
    <2> QED BY ONLY <2>1, <2>2, ProfileIds
<1>5. /\ bookReq' = [p \in Request |-> bookReq'[p]]
      /\ \A p \in Request : Profile!RequestOK(bookReq'[p], seq)
      /\ \A p \in Request : p # q => bookReq'[p] = bookReq[p]
    <2>1. seq' = seq
        BY <1>1
    <2>2. Profile!RequestOK(Profile!Idle, seq') /\ seq' \in Nat /\ seq <= seq'
        <3>1. Profile!Idle.pc = "idle"
            BY DEF Profile!Idle
        <3> QED BY <1>4, <2>1, <3>1 DEF Profile!RequestOK
    <2>3. /\ bookReq' = [p \in Request |-> bookReq'[p]]
          /\ \A p \in Request : Profile!RequestOK(bookReq'[p], seq')
          /\ \A p \in Request : p # q => bookReq'[p] = bookReq[p]
        BY <1>1, <1>2, <2>2, ProfileMoves
    <2> QED BY <2>1, <2>3
<1> HIDE DEF read, f, text
<1>6. next \in Profile!Fields
    BY <1>3 DEF Profile!Fields
<1>7. Profile!BookOK'
    BY <1>1, <1>2 DEF Profile!BookOK
<1>8. Profile!Nothing \in [book : [Profile!Id -> Text \cup {""}], profile : Profile!Fields]
    BY DEF Profile!Nothing, Profile!Fields, Profile!Blank
<1> HIDE DEF next
<1>9. ASSUME ~excused'
      PROVE  /\ ~excused /\ fields = read /\ wanted' = [book |-> wanted.book, profile |-> next]
    <2>1. ~excused /\ fields = read /\ wanted' = [wanted EXCEPT !.profile[f] = text]
        BY <1>1, <1>9
    <2>2. fields = wanted.profile
        BY <1>2, <2>1
    <2>3. wanted' = [wanted EXCEPT !.profile = next]
        BY <2>1, <2>2 DEF next
    <2>4. wanted = [book |-> wanted.book, profile |-> wanted.profile]
        BY <1>2
    <2>5. wanted' = [book |-> wanted.book, profile |-> next]
        BY ONLY <2>3, <2>4
    <2> QED BY <2>1, <2>5
<1>10. /\ wanted' \in [book : [Profile!Id -> Text \cup {""}], profile : Profile!Fields]
       /\ excused' \in BOOLEAN /\ crowded' \in BOOLEAN
    <2>1. CASE excused'
        BY <1>1, <1>2, <1>8, <2>1
    <2>2. CASE ~excused'
        BY <1>1, <1>2, <1>6, <1>9, <2>2
    <2> QED BY <1>1, <1>2, <2>1, <2>2
<1>11. excused' \/ /\ \A i \in Profile!Id : book'[i].text = wanted'.book[i]
                   /\ fields' = wanted'.profile
                   /\ Profile!PickOK' \/ \E p \in Request : bookReq'[p].pc = "save default"
    <2> SUFFICES ASSUME ~excused'
                 PROVE  /\ \A i \in Profile!Id : book'[i].text = wanted'.book[i]
                        /\ fields' = wanted'.profile
                        /\ Profile!PickOK' \/ \E p \in Request : bookReq'[p].pc = "save default"
        OBVIOUS
    <2>1. /\ \A i \in Profile!Id : book[i].text = wanted.book[i]
          /\ Profile!PickOK \/ \E p \in Request : bookReq[p].pc = "save default"
        BY <1>2, <1>9
    <2>2. Profile!PickOK' <=> Profile!PickOK
        BY <1>1 DEF Profile!PickOK
    <2>3. ASSUME NEW p \in Request, bookReq[p].pc = "save default"
          PROVE  bookReq'[p].pc = "save default"
        <3>1. p # q
            BY <1>1, <2>3
        <3> QED BY <1>5, <2>3, <3>1
    <2>4. wanted'.book = wanted.book /\ wanted'.profile = next
        BY <1>9
    <2>5. \A i \in Profile!Id : book'[i].text = wanted'.book[i]
        BY <1>1, <2>1, <2>4
    <2> QED BY <1>1, <2>1, <2>2, <2>3, <2>4, <2>5
<1>12. Profile!LimitHolds'
    <2>1. (excused => excused') /\ (crowded => crowded') /\ book' = book
        BY <1>1
    <2> QED BY <1>7, <2>1, ProfileKeepsLimit
<1> QED BY <1>1, <1>2, <1>5, <1>6, <1>7, <1>10, <1>11, <1>12, ProfileWrites

LEMMA ProfileFails ==
    ASSUME Profile!ProfileAssumption, Profile!ProfileInv, NEW q \in Request, Profile!Fail(q)
    PROVE  Profile!ProfileInv'
<1>1. /\ bookReq' = [bookReq EXCEPT ![q] = Profile!Idle]
      /\ UNCHANGED <<book, fields, seq, crowded>>
      /\ IF bookReq[q].pc = "save default"
           THEN excused' = TRUE /\ wanted' = Profile!Nothing /\ pick' = 0
           ELSE UNCHANGED <<excused, wanted, pick>>
    BY DEF Profile!Fail, Profile!Done, Profile!Step
<1>2. /\ MaxAddress \in Nat /\ Profile!BookOK /\ fields \in Profile!Fields /\ crowded \in BOOLEAN
    BY DEF Profile!ProfileInv, Profile!ProfileAssumption
<1>3. seq \in Nat /\ seq <= seq /\ seq \in 0..MaxAddress
    <2>1. seq \in 0..MaxAddress
        BY DEF Profile!ProfileInv
    <2>2. MaxAddress \in Nat
        BY <1>2
    <2> QED BY ONLY <2>1, <2>2, ProfileIds
<1>4. seq' = seq /\ seq' \in Nat /\ seq <= seq' /\ seq' \in 0..MaxAddress /\ Profile!RequestOK(Profile!Idle, seq')
    <2>1. Profile!Idle.pc = "idle"
        BY DEF Profile!Idle
    <2> QED BY <1>1, <1>3, <2>1 DEF Profile!RequestOK
<1>5. CASE bookReq[q].pc # "save default"
    BY <1>1, <1>2, <1>4, <1>5, ProfileAsks
<1>6. CASE bookReq[q].pc = "save default"
    <2>1. /\ bookReq' = [p \in Request |-> bookReq'[p]]
          /\ \A p \in Request : Profile!RequestOK(bookReq'[p], seq')
        BY <1>1, <1>2, <1>4, ProfileMoves
    <2>2. \A p \in Request : Profile!RequestOK(bookReq'[p], seq)
        BY <1>4, <2>1
    <2>3. excused' = TRUE /\ wanted' = Profile!Nothing /\ book' = book /\ fields' = fields /\ crowded' = crowded
        BY <1>1, <1>6
    <2>4. wanted' \in [book : [Profile!Id -> Text \cup {""}], profile : Profile!Fields]
        BY <2>3 DEF Profile!Nothing, Profile!Fields, Profile!Blank
    <2>5. Profile!BookOK'
        BY <1>2, <1>4, <2>3 DEF Profile!BookOK
    <2>6. Profile!LimitHolds'
        BY <2>3 DEF Profile!LimitHolds
    <2> QED BY <1>2, <1>4, <2>1, <2>2, <2>3, <2>4, <2>5, <2>6, ProfileWrites
<1> QED BY <1>5, <1>6

LEMMA ProfileStep ==
    ASSUME Profile!ProfileAssumption, Profile!ProfileInv, Profile!Next
    PROVE  Profile!ProfileInv'
<1>1. ASSUME NEW q \in Request,
             \/ Profile!CreateAddress(q) \/ Profile!NextAddressID(q) \/ Profile!PatchAddress(q)
             \/ Profile!SetDefaultAddress(q) \/ Profile!PatchProfile(q)
      PROVE  Profile!ProfileInv'
    BY <1>1, ProfileBegins
<1>2. ASSUME NEW q \in Request,
             \/ Profile!ClearDefaultAddresses(q) \/ Profile!SaveAddress(q)
             \/ Profile!UpsertProfile(q) \/ Profile!Fail(q)
      PROVE  Profile!ProfileInv'
    BY <1>2, ProfileClears, ProfileSaves, ProfileUpserts, ProfileFails
<1>3. CASE Profile!DeleteAddress \/ Profile!DeleteUserData
    BY <1>3, ProfileDeletes, ProfileErased
<1> QED BY <1>1, <1>2, <1>3 DEF Profile!Next

LEMMA ProfileStays ==
    ASSUME Profile!ProfileInv, UNCHANGED profileVars
    PROVE  Profile!ProfileInv'
<1>1. UNCHANGED <<book, fields, seq, bookReq, wanted, pick, excused, crowded>>
    BY DEF profileVars
<1>2. Profile!BookOK'
    BY <1>1 DEF Profile!ProfileInv, Profile!BookOK
<1>3. Profile!PickOK' <=> Profile!PickOK
    BY <1>1 DEF Profile!PickOK
<1>4. Profile!LimitHolds'
    <2>1. Profile!Present' = Profile!Present
        BY <1>1 DEF Profile!Present
    <2> QED BY <1>1, <2>1 DEF Profile!ProfileInv, Profile!LimitHolds
<1> QED BY <1>1, <1>2, <1>3, <1>4 DEF Profile!ProfileInv

-----------------------------------------------------------------------------
(* Catalog *)

LEMMA CatalogSays ==
    ASSUME Catalog!CatalogInv
    PROVE  /\ Catalog!TypeOK /\ Catalog!NothingDangles /\ Catalog!EveryVariantIsTracked
           /\ Catalog!OneVariantPerSku /\ Catalog!HoldsLostOnlyToDeletes
<1>1. Catalog!RowsOK /\ Catalog!HoldsOK /\ Catalog!NothingDangles /\ Catalog!OneVariantPerSku
    BY DEF Catalog!CatalogInv
<1>2. Catalog!EveryVariantIsTracked
    BY <1>1 DEF Catalog!RowsOK, Catalog!EveryVariantIsTracked
<1>3. Catalog!HoldsLostOnlyToDeletes
    BY <1>1 DEF Catalog!RowsOK, Catalog!HoldsOK, Catalog!HoldsLostOnlyToDeletes
<1>4. Catalog!TypeOK
    <2>1. ASSUME NEW s \in DOMAIN stock
          PROVE  /\ 0 <= stock[s].reserved /\ stock[s].reserved <= stock[s].quantity
                 /\ stock[s].quantity <= MaxQuantity
        <3>1. stock[s].quantity \in 0..MaxQuantity /\ stock[s].reserved \in Nat
              /\ stock[s].reserved <= stock[s].quantity
            BY <1>1, <2>1 DEF Catalog!RowsOK
        <3> QED BY <3>1
    <2>2. \A h \in holds : h.sku \in Sku /\ h.product \in Product
        BY <1>1 DEF Catalog!HoldsOK
    <2>3. /\ masters \subseteq Catalog!Master
          /\ DOMAIN products \subseteq drawn /\ \A p \in DOMAIN products : products[p] \in Style
          /\ DOMAIN variants \subseteq drawn /\ \A s \in DOMAIN variants : variants[s].color \in Thing
        BY <1>1 DEF Catalog!RowsOK
    <2> QED BY <2>1, <2>2, <2>3 DEF Catalog!TypeOK
<1> QED BY <1>1, <1>2, <1>3, <1>4

\* A shop without products.
LEMMA CatalogStart ==
    ASSUME Catalog!CatalogAssumption, Catalog!Init
    PROVE  Catalog!CatalogInv
<1>1. /\ masters = {} \/ masters = Catalog!Master
      /\ DOMAIN products = {} /\ DOMAIN variants = {} /\ DOMAIN stock = {} /\ holds = {} /\ drawn = {}
      /\ DOMAIN catalogReq = Request /\ \A q \in Request : catalogReq[q] = Catalog!Idle
    BY DEF Catalog!Init
<1>2. Catalog!RowsOK
    BY <1>1 DEF Catalog!RowsOK
<1>3. Catalog!HoldsOK /\ Catalog!OneVariantPerSku
    BY <1>1 DEF Catalog!HoldsOK, Catalog!OneVariantPerSku
<1>4. Catalog!NothingDangles
    BY <1>1 DEF Catalog!NothingDangles, Catalog!Master, Catalog!CatalogAssumption
<1>5. Catalog!Idle.pc = "idle" /\ Catalog!Idle.colors = {}
    BY DEF Catalog!Idle
<1>6. \A q \in Request : Catalog!RequestOK(catalogReq[q])
    BY <1>1, <1>5 DEF Catalog!RequestOK
<1>7. Catalog!OwnProduct
    BY <1>1, <1>5 DEF Catalog!OwnProduct
<1> QED BY <1>1, <1>2, <1>3, <1>4, <1>6, <1>7 DEF Catalog!CatalogInv

\* What a request has read stays true while ids are drawn and skus do not come again.
LEMMA CatalogKeeps ==
    ASSUME Catalog!CatalogInv, NEW p \in Request, catalogReq'[p] = catalogReq[p],
           drawn \subseteq drawn',
           catalogReq[p].pc = "product" => /\ catalogReq[p].product \notin DOMAIN products'
                                           /\ \A h \in holds' : h.product # catalogReq[p].product,
           \A s \in drawn : s \in DOMAIN variants' =>
                s \in DOMAIN variants /\ variants'[s].product = variants[s].product
    PROVE  Catalog!RequestOK(catalogReq[p])'
<1>1. Catalog!RequestOK(catalogReq[p])
    BY DEF Catalog!CatalogInv
<1>2. catalogReq[p].pc = "delete product" =>
          \A s \in catalogReq[p].locked :
              s \in drawn' /\ (s \in DOMAIN variants' => variants'[s].product = catalogReq[p].product)
    BY <1>1 DEF Catalog!RequestOK
<1> QED BY <1>1, <1>2 DEF Catalog!RequestOK

\* One request moves on.
LEMMA CatalogMoves ==
    ASSUME Catalog!CatalogInv, NEW q \in Request, NEW x, catalogReq' = [catalogReq EXCEPT ![q] = x],
           drawn \subseteq drawn', holds' \subseteq holds,
           \A p \in Request : p # q /\ catalogReq[p].pc = "product" =>
                catalogReq[p].product \notin DOMAIN products',
           \A s \in drawn : s \in DOMAIN variants' =>
                s \in DOMAIN variants /\ variants'[s].product = variants[s].product,
           Catalog!RequestOK(x)',
           x.pc = "product" => \A p \in Request :
                p # q /\ catalogReq[p].pc = "product" => catalogReq[p].product # x.product
    PROVE  /\ DOMAIN catalogReq' = Request
           /\ \A p \in Request : Catalog!RequestOK(catalogReq[p])'
           /\ Catalog!OwnProduct'
<1>1. /\ DOMAIN catalogReq = Request /\ Catalog!OwnProduct
      /\ \A p \in Request : Catalog!RequestOK(catalogReq[p])
    BY DEF Catalog!CatalogInv
<1>2. /\ DOMAIN catalogReq' = Request /\ catalogReq'[q] = x
      /\ \A p \in Request : p # q => catalogReq'[p] = catalogReq[p]
    BY <1>1
<1>3. ASSUME NEW p \in Request, p # q
      PROVE  Catalog!RequestOK(catalogReq[p])'
    <2>1. catalogReq'[p] = catalogReq[p]
        BY <1>2, <1>3
    <2>2. catalogReq[p].pc = "product" => /\ catalogReq[p].product \notin DOMAIN products'
                                          /\ \A h \in holds' : h.product # catalogReq[p].product
        BY <1>1, <1>3 DEF Catalog!RequestOK
    <2> QED BY <2>1, <2>2, CatalogKeeps
<1>4. Catalog!RequestOK(catalogReq[q])'
    BY <1>2
<1>5. Catalog!OwnProduct'
    BY <1>1, <1>2 DEF Catalog!OwnProduct
<1> QED BY <1>2, <1>3, <1>4, <1>5

\* A step of a request that leaves the rows alone.
LEMMA CatalogAsks ==
    ASSUME Catalog!CatalogInv, NEW q \in Request, NEW x, catalogReq' = [catalogReq EXCEPT ![q] = x],
           drawn \subseteq drawn', UNCHANGED <<masters, products, variants, stock, holds>>,
           Catalog!RequestOK(x)',
           x.pc = "product" => \A p \in Request :
                p # q /\ catalogReq[p].pc = "product" => catalogReq[p].product # x.product
    PROVE  Catalog!CatalogInv'
<1>1. /\ Catalog!RowsOK /\ Catalog!HoldsOK /\ Catalog!NothingDangles /\ Catalog!OneVariantPerSku
      /\ \A p \in Request : Catalog!RequestOK(catalogReq[p])
    BY DEF Catalog!CatalogInv
<1>2. Catalog!RowsOK' /\ Catalog!HoldsOK'
    BY <1>1 DEF Catalog!RowsOK, Catalog!HoldsOK
<1>3. Catalog!NothingDangles' /\ Catalog!OneVariantPerSku'
    BY <1>1 DEF Catalog!NothingDangles, Catalog!OneVariantPerSku, Catalog!HasMasters
<1>4. \A p \in Request : catalogReq[p].pc = "product" => catalogReq[p].product \notin DOMAIN products'
    BY <1>1 DEF Catalog!RequestOK
<1>5. /\ DOMAIN catalogReq' = Request
      /\ \A p \in Request : Catalog!RequestOK(catalogReq[p])'
      /\ Catalog!OwnProduct'
    BY <1>4, CatalogMoves
<1> QED BY <1>2, <1>3, <1>5 DEF Catalog!CatalogInv

\* A request is begun, or looks something up, or ends.
LEMMA CatalogBegins ==
    ASSUME Catalog!CatalogAssumption, Catalog!CatalogInv, NEW q \in Request,
           \/ Catalog!CreateProduct(q) \/ Catalog!CreateVariant(q) \/ Catalog!ComposeSku(q)
           \/ Catalog!DeleteProduct(q) \/ Catalog!DeleteStock(q) \/ Catalog!Fail(q)
    PROVE  Catalog!CatalogInv'
<1>1. /\ Catalog!RowsOK /\ Catalog!HoldsOK
      /\ DOMAIN catalogReq = Request /\ \A p \in Request : Catalog!RequestOK(catalogReq[p])
    BY DEF Catalog!CatalogInv
<1>2. UNCHANGED <<masters, products, variants, stock, holds>>
    BY DEF Catalog!CreateProduct, Catalog!CreateVariant, Catalog!ComposeSku,
           Catalog!DeleteProduct, Catalog!DeleteStock, Catalog!Fail
<1>3. CASE Catalog!CreateProduct(q)
    <2>1. PICK p \in Product \ drawn, st \in Style, cs \in SUBSET Thing :
              /\ drawn' = drawn \cup {p}
              /\ catalogReq' = [catalogReq EXCEPT ![q] =
                     [Catalog!Idle EXCEPT !.pc = "product", !.op = "create", !.product = p,
                                          !.code = st, !.colors = cs]]
        BY <1>3 DEF Catalog!CreateProduct, Catalog!Step
    <2>2. PICK x : x = [Catalog!Idle EXCEPT !.pc = "product", !.op = "create", !.product = p,
                                            !.code = st, !.colors = cs]
        OBVIOUS
    <2>3. /\ DOMAIN x = DOMAIN Catalog!Idle /\ x.pc = "product" /\ x.product = p
          /\ x.code = st /\ x.colors = cs
        BY ONLY <2>2 DEF Catalog!Idle
    <2>4. \A h \in holds' : h.product # p
        BY <1>1, <1>2 DEF Catalog!HoldsOK
    <2>5. p \notin DOMAIN products'
        BY <1>1, <1>2 DEF Catalog!RowsOK
    <2>6. Catalog!RequestOK(x)'
        BY <2>1, <2>3, <2>4, <2>5 DEF Catalog!RequestOK
    <2>7. \A d \in Request : catalogReq[d].pc = "product" => catalogReq[d].product # x.product
        BY <1>1, <2>3 DEF Catalog!RequestOK
    <2>8. catalogReq' = [catalogReq EXCEPT ![q] = x] /\ drawn \subseteq drawn'
        BY <2>1, <2>2
    <2> QED BY <1>2, <2>6, <2>7, <2>8, CatalogAsks
<1>4. CASE Catalog!CreateVariant(q)
    <2>1. PICK p \in DOMAIN products, c \in Thing :
              catalogReq' = [catalogReq EXCEPT ![q] =
                  [Catalog!Idle EXCEPT !.pc = "variant", !.op = "variant", !.product = p,
                                       !.colors = {c}]]
        BY <1>4 DEF Catalog!CreateVariant, Catalog!Step
    <2>2. PICK x : x = [Catalog!Idle EXCEPT !.pc = "variant", !.op = "variant", !.product = p,
                                            !.colors = {c}]
        OBVIOUS
    <2>3. /\ DOMAIN x = DOMAIN Catalog!Idle /\ x.pc = "variant" /\ x.product = p /\ x.colors = {c}
        BY ONLY <2>2 DEF Catalog!Idle
    <2>4. drawn' = drawn /\ p \in Product \cap drawn
        BY <1>1, <1>4 DEF Catalog!RowsOK, Catalog!CreateVariant
    <2>5. Catalog!RequestOK(x)'
        BY <2>3, <2>4 DEF Catalog!RequestOK
    <2>6. catalogReq' = [catalogReq EXCEPT ![q] = x]
        BY <2>1, <2>2
    <2> QED BY <1>2, <2>3, <2>4, <2>5, <2>6, CatalogAsks
<1>5. CASE Catalog!ComposeSku(q)
    <2>1. PICK c \in catalogReq[q].colors :
              catalogReq' = [catalogReq EXCEPT ![q] = [catalogReq[q] EXCEPT !.pc = "insert", !.code = c]]
        BY <1>5 DEF Catalog!ComposeSku, Catalog!Step
    <2>2. PICK r : r = catalogReq[q]
        OBVIOUS
    <2>3. PICK x : x = [r EXCEPT !.pc = "insert", !.code = c]
        OBVIOUS
    <2>4. /\ DOMAIN r = DOMAIN Catalog!Idle /\ r.colors \subseteq Thing /\ c \in r.colors
          /\ r.product \in Product \cap drawn /\ drawn' = drawn
        BY <1>1, <1>5, <2>1, <2>2 DEF Catalog!RequestOK, Catalog!ComposeSku
    <2>5. DOMAIN r = DOMAIN Catalog!Idle
        BY <2>4
    <2>6. /\ DOMAIN x = DOMAIN Catalog!Idle /\ x.pc = "insert" /\ x.product = r.product
          /\ x.colors = r.colors /\ x.code = c
        BY ONLY <2>3, <2>5 DEF Catalog!Idle
    <2>7. Catalog!RequestOK(x)'
        BY <2>4, <2>6 DEF Catalog!RequestOK
    <2>8. catalogReq' = [catalogReq EXCEPT ![q] = x]
        BY <2>1, <2>2, <2>3
    <2> QED BY <1>2, <2>4, <2>6, <2>7, <2>8, CatalogAsks
<1>6. CASE Catalog!DeleteProduct(q)
    <2>1. PICK p \in DOMAIN products :
              catalogReq' = [catalogReq EXCEPT ![q] =
                  [Catalog!Idle EXCEPT !.pc = "delete stock", !.op = "delete", !.product = p]]
        BY <1>6 DEF Catalog!DeleteProduct, Catalog!Step
    <2>2. PICK x : x = [Catalog!Idle EXCEPT !.pc = "delete stock", !.op = "delete", !.product = p]
        OBVIOUS
    <2>3. /\ DOMAIN x = DOMAIN Catalog!Idle /\ x.pc = "delete stock" /\ x.product = p /\ x.colors = {}
        BY ONLY <2>2 DEF Catalog!Idle
    <2>4. drawn' = drawn /\ p \in Product \cap drawn
        BY <1>1, <1>6 DEF Catalog!RowsOK, Catalog!DeleteProduct
    <2>5. Catalog!RequestOK(x)'
        BY <2>3, <2>4 DEF Catalog!RequestOK
    <2>6. catalogReq' = [catalogReq EXCEPT ![q] = x]
        BY <2>1, <2>2
    <2> QED BY <1>2, <2>3, <2>4, <2>5, <2>6, CatalogAsks
<1>7. CASE Catalog!DeleteStock(q)
    <2>1. PICK r : r = catalogReq[q]
        OBVIOUS
    <2>2. PICK own : own = Catalog!VariantsOf(r.product)
        OBVIOUS
    <2>3. PICK x : x = [r EXCEPT !.pc = "delete product", !.locked = own]
        OBVIOUS
    <2>4. DOMAIN r = DOMAIN Catalog!Idle
        BY <1>1, <2>1 DEF Catalog!RequestOK
    <2>5. /\ DOMAIN x = DOMAIN Catalog!Idle /\ x.pc = "delete product" /\ x.product = r.product
          /\ x.colors = r.colors /\ x.locked = own
        BY ONLY <2>3, <2>4 DEF Catalog!Idle
    <2>6. /\ r.colors \subseteq Thing /\ r.product \in Product \cap drawn /\ drawn' = drawn
          /\ catalogReq' = [catalogReq EXCEPT ![q] =
                 [catalogReq[q] EXCEPT !.pc = "delete product",
                                       !.locked = Catalog!VariantsOf(catalogReq[q].product)]]
        BY <1>1, <1>7, <2>1 DEF Catalog!RequestOK, Catalog!DeleteStock, Catalog!Step
    <2>7. \A s \in own : s \in drawn' /\ variants'[s].product = r.product
        BY <1>1, <1>2, <2>2, <2>6 DEF Catalog!VariantsOf, Catalog!RowsOK
    <2>8. Catalog!RequestOK(x)'
        BY <2>5, <2>6, <2>7 DEF Catalog!RequestOK
    <2>9. catalogReq' = [catalogReq EXCEPT ![q] = x]
        BY <2>1, <2>2, <2>3, <2>6
    <2> QED BY <1>2, <2>5, <2>6, <2>8, <2>9, CatalogAsks
<1>8. CASE Catalog!Fail(q)
    <2>1. PICK x : x = Catalog!Idle
        OBVIOUS
    <2>2. DOMAIN x = DOMAIN Catalog!Idle /\ x.pc = "idle" /\ x.colors = {}
        BY ONLY <2>1 DEF Catalog!Idle
    <2>3. Catalog!RequestOK(x)'
        BY <2>2 DEF Catalog!RequestOK
    <2>4. catalogReq' = [catalogReq EXCEPT ![q] = x] /\ drawn' = drawn
        BY <1>8, <2>1 DEF Catalog!Fail, Catalog!Done, Catalog!Step
    <2> QED BY <1>2, <2>2, <2>3, <2>4, CatalogAsks
<1> QED BY <1>3, <1>4, <1>5, <1>6, <1>7, <1>8

\* The masters, which other rows name.
LEMMA CatalogMasters ==
    ASSUME Catalog!CatalogAssumption, Catalog!CatalogInv, NEW m \in Catalog!Master,
           Catalog!CreateMaster(m) \/ Catalog!DeleteMaster(m)
    PROVE  Catalog!CatalogInv'
<1>1. /\ Catalog!RowsOK /\ Catalog!HoldsOK /\ Catalog!NothingDangles /\ Catalog!OneVariantPerSku
      /\ DOMAIN catalogReq = Request /\ \A p \in Request : Catalog!RequestOK(catalogReq[p])
      /\ Catalog!OwnProduct
    BY DEF Catalog!CatalogInv
<1>2. UNCHANGED <<products, variants, stock, holds, drawn, catalogReq>>
    BY DEF Catalog!CreateMaster, Catalog!DeleteMaster
<1>3. Catalog!RowsOK'
    BY <1>1, <1>2 DEF Catalog!RowsOK, Catalog!CreateMaster, Catalog!DeleteMaster, Catalog!Master
<1>4. Catalog!HoldsOK' /\ Catalog!OneVariantPerSku' /\ Catalog!OwnProduct'
    BY <1>1, <1>2 DEF Catalog!HoldsOK, Catalog!OneVariantPerSku, Catalog!OwnProduct
<1>5. \A p \in Request : Catalog!RequestOK(catalogReq[p])'
    BY <1>1, <1>2 DEF Catalog!RequestOK
<1>6. Catalog!NothingDangles'
    <2>1. CASE Catalog!CreateMaster(m)
        BY <1>1, <1>2, <2>1 DEF Catalog!NothingDangles, Catalog!HasMasters, Catalog!CreateMaster
    <2>2. CASE Catalog!DeleteMaster(m)
        <3>1. masters' = masters \ {m} /\ ~Catalog!InUse(m)
            BY <2>2 DEF Catalog!DeleteMaster
        <3>0. \A st \in Style : BrandOf[st] \in Brand
            BY DEF Catalog!CatalogAssumption
        <3>2. \A p \in DOMAIN products : m # products[p] /\ m # BrandOf[products[p]]
            BY <1>1, <3>0, <3>1 DEF Catalog!InUse, Catalog!RowsOK, Catalog!NothingDangles,
                              Catalog!HasMasters, Catalog!Master
        <3>3. \A st \in masters' \cap Style : m # BrandOf[st]
            BY <3>0, <3>1 DEF Catalog!InUse
        <3>4. \A s \in DOMAIN variants : variants[s].color # m
            BY <3>1 DEF Catalog!InUse
        <3> QED BY <1>1, <1>2, <3>1, <3>2, <3>3, <3>4 DEF Catalog!NothingDangles, Catalog!HasMasters
    <2> QED BY <2>1, <2>2
<1> QED BY <1>1, <1>2, <1>3, <1>4, <1>5, <1>6 DEF Catalog!CatalogInv

\* A product, of an id that only this request has drawn.
LEMMA CatalogInsertsProduct ==
    ASSUME Catalog!CatalogInv, NEW q \in Request, Catalog!InsertProduct(q)
    PROVE  Catalog!CatalogInv'
<1>1. /\ Catalog!RowsOK /\ Catalog!HoldsOK /\ Catalog!NothingDangles /\ Catalog!OneVariantPerSku
      /\ DOMAIN catalogReq = Request /\ \A p \in Request : Catalog!RequestOK(catalogReq[p])
      /\ Catalog!OwnProduct
    BY DEF Catalog!CatalogInv
<1>2. PICK r : r = catalogReq[q]
    OBVIOUS
<1>3. UNCHANGED <<masters, variants, stock, holds, drawn>>
    BY DEF Catalog!InsertProduct
<1>4. /\ r.pc = "product" /\ DOMAIN r = DOMAIN Catalog!Idle /\ r.colors \subseteq Thing
      /\ r.product \in Product \cap drawn /\ r.code \in Style /\ r.product \notin DOMAIN products
      /\ \A h \in holds : h.product # r.product
    BY <1>1, <1>2 DEF Catalog!InsertProduct, Catalog!RequestOK
<1>5. /\ DOMAIN products' = DOMAIN products \cup {r.product} /\ products'[r.product] = r.code
      /\ \A p \in DOMAIN products : products'[p] = products[p]
    BY <1>2, <1>4 DEF Catalog!InsertProduct, Catalog!With
<1>6. Catalog!HasMasters(r.code)
    BY <1>2 DEF Catalog!InsertProduct, Catalog!ProductFits
<1>7. Catalog!RowsOK'
    BY <1>1, <1>3, <1>4, <1>5 DEF Catalog!RowsOK
<1>8. Catalog!HoldsOK'
    BY <1>1, <1>3, <1>4, <1>5 DEF Catalog!HoldsOK
<1>9. Catalog!NothingDangles'
    <2>1. \A p \in DOMAIN products' : Catalog!HasMasters(products'[p])
        BY <1>1, <1>5, <1>6 DEF Catalog!NothingDangles
    <2>2. \A p \in DOMAIN products' : {products'[p], BrandOf[products'[p]]} \subseteq masters'
        BY <1>3, <2>1 DEF Catalog!HasMasters
    <2> QED BY <1>1, <1>3, <1>5, <2>2 DEF Catalog!NothingDangles, Catalog!HasMasters
<1>10. Catalog!OneVariantPerSku'
    <2>1. \A s \in DOMAIN variants : products'[variants[s].product] = products[variants[s].product]
        BY <1>1, <1>5 DEF Catalog!NothingDangles
    <2> QED BY <1>1, <1>3, <2>1 DEF Catalog!OneVariantPerSku
<1>11. PICK x : x = [r EXCEPT !.pc = IF r.colors = {} THEN "ensure" ELSE "variant"]
    OBVIOUS
<1>12. catalogReq' = [catalogReq EXCEPT ![q] = x]
    BY <1>2, <1>11 DEF Catalog!InsertProduct, Catalog!Step
<1>13. DOMAIN r = DOMAIN Catalog!Idle
    BY <1>4
<1>14. /\ DOMAIN x = DOMAIN Catalog!Idle /\ x.pc \in {"ensure", "variant"}
       /\ x.product = r.product /\ x.colors = r.colors
    BY ONLY <1>11, <1>13 DEF Catalog!Idle
<1>15. Catalog!RequestOK(x)'
    BY <1>3, <1>4, <1>14 DEF Catalog!RequestOK
<1>16. \A p \in Request : p # q /\ catalogReq[p].pc = "product" =>
           catalogReq[p].product \notin DOMAIN products'
    BY <1>1, <1>2, <1>4, <1>5 DEF Catalog!OwnProduct, Catalog!RequestOK
<1>17. /\ DOMAIN catalogReq' = Request
       /\ \A p \in Request : Catalog!RequestOK(catalogReq[p])'
       /\ Catalog!OwnProduct'
    BY <1>3, <1>12, <1>14, <1>15, <1>16, CatalogMoves
<1> QED BY <1>7, <1>8, <1>9, <1>10, <1>17 DEF Catalog!CatalogInv

\* A variant with its stock row, of a sku that was never there.
LEMMA CatalogInsertsVariant ==
    ASSUME Catalog!CatalogInv, MaxQuantity \in Nat, NEW q \in Request, Catalog!InsertVariant(q)
    PROVE  Catalog!CatalogInv'
<1>1. /\ Catalog!RowsOK /\ Catalog!HoldsOK /\ Catalog!NothingDangles /\ Catalog!OneVariantPerSku
      /\ DOMAIN catalogReq = Request /\ \A p \in Request : Catalog!RequestOK(catalogReq[p])
      /\ Catalog!OwnProduct
    BY DEF Catalog!CatalogInv
<1>2. PICK r : r = catalogReq[q]
    OBVIOUS
<1>3. UNCHANGED <<masters, products, holds>>
    BY DEF Catalog!InsertVariant
<1>4. /\ r.pc = "insert" /\ DOMAIN r = DOMAIN Catalog!Idle /\ r.colors \subseteq Thing
      /\ r.product \in Product \cap drawn /\ r.code \in Thing
    BY <1>1, <1>2 DEF Catalog!InsertVariant, Catalog!RequestOK
<1>5. r.product \in DOMAIN products /\ r.code \in masters /\ ~Catalog!SkuTaken(r.product, r.code)
    BY <1>2 DEF Catalog!InsertVariant, Catalog!VariantFits
<1>6. PICK v : v = [product |-> r.product, color |-> r.code]
    OBVIOUS
<1>7. v \in [product : Product, color : Thing] /\ v.product = r.product /\ v.color = r.code
    BY ONLY <1>4, <1>6
<1>8. PICK row : row = [quantity |-> 0, reserved |-> 0]
    OBVIOUS
<1>9. row \in [quantity : 0..MaxQuantity, reserved : Nat] /\ row.quantity = 0 /\ row.reserved = 0
    <2>1. 0 \in 0..MaxQuantity
        BY MaxQuantity \in Nat
    <2> QED BY ONLY <1>8, <2>1
<1>10. PICK t \in Sku \ drawn :
           /\ variants' = Catalog!With(variants, t, v) /\ stock' = Catalog!With(stock, t, row)
           /\ drawn' = drawn \cup {t}
    BY <1>2, <1>6, <1>8 DEF Catalog!InsertVariant
<1>11. t \notin DOMAIN variants /\ t \notin DOMAIN stock /\ t \notin {h.sku : h \in holds}
    BY <1>1, <1>10 DEF Catalog!RowsOK, Catalog!HoldsOK
<1>12. /\ DOMAIN variants' = DOMAIN variants \cup {t} /\ variants'[t] = v
       /\ \A s \in DOMAIN variants : variants'[s] = variants[s]
    BY <1>10, <1>11 DEF Catalog!With
<1>13. /\ DOMAIN stock' = DOMAIN stock \cup {t} /\ stock'[t] = row
       /\ \A s \in DOMAIN stock : stock'[s] = stock[s]
    BY <1>10, <1>11 DEF Catalog!With
<1>14. Catalog!RowsOK'
    <2>1. ASSUME NEW s \in DOMAIN stock'
          PROVE  /\ stock'[s] \in [quantity : 0..MaxQuantity, reserved : Nat]
                 /\ stock'[s].reserved <= stock'[s].quantity
                 /\ stock'[s].reserved = IF s \in {h.sku : h \in holds'} THEN 1 ELSE 0
        <3>1. CASE s = t
            BY <1>3, <1>9, <1>11, <1>13, <3>1
        <3>2. CASE s # t
            BY <1>1, <1>3, <1>13, <2>1, <3>2 DEF Catalog!RowsOK
        <3> QED BY <3>1, <3>2
    <2>2. \A s \in DOMAIN variants' : variants'[s] \in [product : Product, color : Thing]
        BY <1>1, <1>7, <1>12 DEF Catalog!RowsOK
    <2>3. DOMAIN variants' \subseteq Sku \cap drawn' /\ DOMAIN stock' = DOMAIN variants'
        BY <1>1, <1>10, <1>12, <1>13 DEF Catalog!RowsOK
    <2>4. DOMAIN products' \subseteq Product \cap drawn' /\ \A p \in DOMAIN products' : products'[p] \in Style
        BY <1>1, <1>3, <1>10 DEF Catalog!RowsOK
    <2>5. masters' \subseteq Catalog!Master'
        BY <1>1, <1>3 DEF Catalog!RowsOK, Catalog!Master
    <2> QED BY <2>1, <2>2, <2>3, <2>4, <2>5 DEF Catalog!RowsOK
<1>15. Catalog!HoldsOK'
    <2>1. ASSUME NEW h \in holds
          PROVE  /\ h \in [sku : Sku \cap drawn', product : Product \cap drawn']
                 /\ IF h.sku \in DOMAIN variants' THEN h.product = variants'[h.sku].product
                    ELSE h.product \notin DOMAIN products'
        <3>1. h.sku # t
            BY <1>11
        <3>2. h \in [sku : Sku \cap drawn, product : Product \cap drawn]
            BY <1>1 DEF Catalog!HoldsOK
        <3>3. h \in [sku : Sku \cap drawn', product : Product \cap drawn']
            BY <1>10, <3>2
        <3> QED BY <1>1, <1>3, <1>12, <3>1, <3>3 DEF Catalog!HoldsOK
    <2> QED BY <1>1, <1>3, <2>1 DEF Catalog!HoldsOK
<1>16. Catalog!NothingDangles'
    <2>1. \A s \in DOMAIN variants' : variants'[s].product \in DOMAIN products /\ variants'[s].color \in masters
        BY <1>1, <1>5, <1>7, <1>12 DEF Catalog!NothingDangles
    <2>2. DOMAIN stock' \subseteq DOMAIN variants'
        BY <1>1, <1>12, <1>13 DEF Catalog!NothingDangles
    <2> QED BY <1>1, <1>3, <2>1, <2>2 DEF Catalog!NothingDangles, Catalog!HasMasters
<1>17. Catalog!OneVariantPerSku'
    <2>1. \A s \in DOMAIN variants : \/ variants[s].color # v.color
                                     \/ products[variants[s].product] # products[v.product]
        BY <1>5, <1>7 DEF Catalog!SkuTaken
    <2> QED BY <1>1, <1>3, <1>12, <2>1 DEF Catalog!OneVariantPerSku
<1>18. PICK left : left = r.colors \ {r.code}
    OBVIOUS
<1>19. PICK x : x = [r EXCEPT !.pc = IF left = {} THEN "ensure" ELSE "variant", !.colors = left]
    OBVIOUS
<1>20. catalogReq' = [catalogReq EXCEPT ![q] = x]
    BY <1>2, <1>18, <1>19 DEF Catalog!InsertVariant, Catalog!Step
<1>21. DOMAIN r = DOMAIN Catalog!Idle
    BY <1>4
<1>22. /\ DOMAIN x = DOMAIN Catalog!Idle /\ x.pc \in {"ensure", "variant"}
       /\ x.product = r.product /\ x.colors = left
    BY ONLY <1>19, <1>21 DEF Catalog!Idle
<1>23. Catalog!RequestOK(x)'
    BY <1>4, <1>10, <1>18, <1>22 DEF Catalog!RequestOK
<1>24. \A p \in Request : catalogReq[p].pc = "product" => catalogReq[p].product \notin DOMAIN products'
    BY <1>1, <1>3 DEF Catalog!RequestOK
<1>25. \A s \in drawn : s \in DOMAIN variants' =>
           s \in DOMAIN variants /\ variants'[s].product = variants[s].product
    BY <1>10, <1>12
<1>26. drawn \subseteq drawn' /\ holds' \subseteq holds
    BY <1>3, <1>10
<1>27. /\ DOMAIN catalogReq' = Request
       /\ \A p \in Request : Catalog!RequestOK(catalogReq[p])'
       /\ Catalog!OwnProduct'
    BY <1>20, <1>22, <1>23, <1>24, <1>25, <1>26, CatalogMoves
<1> QED BY <1>14, <1>15, <1>16, <1>17, <1>27 DEF Catalog!CatalogInv

\* Every variant has its stock row already.
LEMMA CatalogEnsures ==
    ASSUME Catalog!CatalogInv, NEW q \in Request, Catalog!EnsureStockRow(q)
    PROVE  Catalog!CatalogInv'
<1>1. /\ Catalog!RowsOK /\ Catalog!HoldsOK /\ Catalog!NothingDangles /\ Catalog!OneVariantPerSku
      /\ DOMAIN catalogReq = Request /\ \A p \in Request : Catalog!RequestOK(catalogReq[p])
    BY DEF Catalog!CatalogInv
<1>2. UNCHANGED <<masters, products, variants, holds, drawn>>
    BY DEF Catalog!EnsureStockRow
<1>3. DOMAIN stock' = DOMAIN stock /\ \A s \in DOMAIN stock : stock'[s] = stock[s]
    <2>1. DOMAIN stock \cup Catalog!VariantsOf(catalogReq[q].product) = DOMAIN stock
        BY <1>1 DEF Catalog!VariantsOf, Catalog!RowsOK
    <2>2. stock' = [s \in DOMAIN stock \cup Catalog!VariantsOf(catalogReq[q].product) |->
                       IF s \in DOMAIN stock THEN stock[s] ELSE [quantity |-> 0, reserved |-> 0]]
        BY DEF Catalog!EnsureStockRow
    <2> QED BY <2>1, <2>2
<1>4. Catalog!RowsOK' /\ Catalog!HoldsOK'
    BY <1>1, <1>2, <1>3 DEF Catalog!RowsOK, Catalog!HoldsOK, Catalog!Master
<1>5. Catalog!NothingDangles' /\ Catalog!OneVariantPerSku'
    BY <1>1, <1>2, <1>3 DEF Catalog!NothingDangles, Catalog!OneVariantPerSku, Catalog!HasMasters
<1>6. PICK x : x = Catalog!Idle
    OBVIOUS
<1>7. DOMAIN x = DOMAIN Catalog!Idle /\ x.pc = "idle" /\ x.colors = {}
    BY ONLY <1>6 DEF Catalog!Idle
<1>8. Catalog!RequestOK(x)'
    BY <1>7 DEF Catalog!RequestOK
<1>9. catalogReq' = [catalogReq EXCEPT ![q] = x]
    BY <1>6 DEF Catalog!EnsureStockRow, Catalog!Done, Catalog!Step
<1>10. \A p \in Request : catalogReq[p].pc = "product" => catalogReq[p].product \notin DOMAIN products'
    BY <1>1, <1>2 DEF Catalog!RequestOK
<1>11. /\ DOMAIN catalogReq' = Request
       /\ \A p \in Request : Catalog!RequestOK(catalogReq[p])'
       /\ Catalog!OwnProduct'
    BY <1>2, <1>7, <1>8, <1>9, <1>10, CatalogMoves
<1> QED BY <1>4, <1>5, <1>11 DEF Catalog!CatalogInv

\* A product goes with its variants and their stock rows, whoever holds units of them.
LEMMA CatalogDeletesProduct ==
    ASSUME Catalog!CatalogInv, NEW q \in Request, Catalog!DeleteProductRow(q)
    PROVE  Catalog!CatalogInv'
<1>1. /\ Catalog!RowsOK /\ Catalog!HoldsOK /\ Catalog!NothingDangles /\ Catalog!OneVariantPerSku
      /\ DOMAIN catalogReq = Request /\ \A p \in Request : Catalog!RequestOK(catalogReq[p])
    BY DEF Catalog!CatalogInv
<1>2. UNCHANGED <<masters, holds, drawn>>
    BY DEF Catalog!DeleteProductRow
<1>3. PICK r : r = catalogReq[q]
    OBVIOUS
<1>4. /\ \A s \in DOMAIN variants : variants[s].product = r.product => s \in r.locked
      /\ \A s \in r.locked : s \in DOMAIN variants => variants[s].product = r.product
    BY <1>1, <1>3 DEF Catalog!DeleteProductRow, Catalog!RequestOK, Catalog!VariantsOf
<1>5. /\ DOMAIN products' = DOMAIN products \ {r.product}
      /\ \A p \in DOMAIN products' : products'[p] = products[p]
    BY <1>3 DEF Catalog!DeleteProductRow, Catalog!Without
<1>6. /\ DOMAIN variants' = DOMAIN variants \ r.locked
      /\ \A s \in DOMAIN variants' : variants'[s] = variants[s]
    BY <1>3 DEF Catalog!DeleteProductRow, Catalog!Without
<1>7. /\ DOMAIN stock' = DOMAIN stock \ r.locked
      /\ \A s \in DOMAIN stock' : stock'[s] = stock[s]
    BY <1>3 DEF Catalog!DeleteProductRow, Catalog!Without
<1>8. Catalog!RowsOK'
    <2>1. masters' \subseteq Catalog!Master'
        BY <1>1, <1>2 DEF Catalog!RowsOK, Catalog!Master
    <2>2. DOMAIN products' \subseteq Product \cap drawn' /\ \A p \in DOMAIN products' : products'[p] \in Style
        BY <1>1, <1>2, <1>5 DEF Catalog!RowsOK
    <2>3. /\ DOMAIN variants' \subseteq Sku \cap drawn' /\ DOMAIN stock' = DOMAIN variants'
          /\ \A s \in DOMAIN variants' : variants'[s] \in [product : Product, color : Thing]
        BY <1>1, <1>2, <1>6, <1>7 DEF Catalog!RowsOK
    <2>4. \A s \in DOMAIN stock' :
              /\ stock'[s] \in [quantity : 0..MaxQuantity, reserved : Nat]
              /\ stock'[s].reserved <= stock'[s].quantity
              /\ stock'[s].reserved = IF s \in {h.sku : h \in holds'} THEN 1 ELSE 0
        BY <1>1, <1>2, <1>7 DEF Catalog!RowsOK
    <2> QED BY <2>1, <2>2, <2>3, <2>4 DEF Catalog!RowsOK
<1>9. Catalog!HoldsOK'
    <2>1. ASSUME NEW h \in holds
          PROVE  IF h.sku \in DOMAIN variants' THEN h.product = variants'[h.sku].product
                 ELSE h.product \notin DOMAIN products'
        BY <1>1, <1>4, <1>5, <1>6 DEF Catalog!HoldsOK
    <2>2. /\ \A h \in holds' : h \in [sku : Sku \cap drawn', product : Product \cap drawn']
          /\ \A h, k \in holds' : h.sku = k.sku => h = k
        BY <1>1, <1>2 DEF Catalog!HoldsOK
    <2> QED BY <1>2, <2>1, <2>2 DEF Catalog!HoldsOK
<1>10. Catalog!NothingDangles'
    <2>1. \A s \in DOMAIN variants' : variants'[s].product \in DOMAIN products' /\ variants'[s].color \in masters
        BY <1>1, <1>4, <1>5, <1>6 DEF Catalog!NothingDangles
    <2>2. DOMAIN stock' \subseteq DOMAIN variants'
        BY <1>1, <1>6, <1>7 DEF Catalog!NothingDangles
    <2> QED BY <1>1, <1>2, <1>5, <2>1, <2>2 DEF Catalog!NothingDangles, Catalog!HasMasters
<1>11. Catalog!OneVariantPerSku'
    <2>1. \A s \in DOMAIN variants' : /\ s \in DOMAIN variants /\ variants'[s] = variants[s]
                                      /\ products'[variants[s].product] = products[variants[s].product]
        BY <1>1, <1>4, <1>5, <1>6 DEF Catalog!NothingDangles
    <2> QED BY <1>1, <2>1 DEF Catalog!OneVariantPerSku
<1>12. PICK x : x = Catalog!Idle
    OBVIOUS
<1>13. DOMAIN x = DOMAIN Catalog!Idle /\ x.pc = "idle" /\ x.colors = {}
    BY ONLY <1>12 DEF Catalog!Idle
<1>14. Catalog!RequestOK(x)'
    BY <1>13 DEF Catalog!RequestOK
<1>15. catalogReq' = [catalogReq EXCEPT ![q] = x]
    BY <1>12 DEF Catalog!DeleteProductRow, Catalog!Done, Catalog!Step
<1>16. /\ \A p \in Request : catalogReq[p].pc = "product" => catalogReq[p].product \notin DOMAIN products'
       /\ \A s \in drawn : s \in DOMAIN variants' =>
              s \in DOMAIN variants /\ variants'[s].product = variants[s].product
    BY <1>1, <1>5, <1>6 DEF Catalog!RequestOK
<1>17. /\ DOMAIN catalogReq' = Request
       /\ \A p \in Request : Catalog!RequestOK(catalogReq[p])'
       /\ Catalog!OwnProduct'
    BY <1>2, <1>13, <1>14, <1>15, <1>16, CatalogMoves
<1> QED BY <1>8, <1>9, <1>10, <1>11, <1>17 DEF Catalog!CatalogInv

\* Only a stock row and the holds change; what is left to see is that they still agree.
LEMMA CatalogCounts ==
    ASSUME Catalog!CatalogInv, UNCHANGED <<masters, products, variants, drawn, catalogReq>>,
           DOMAIN stock' = DOMAIN stock,
           \A s \in DOMAIN stock :
              /\ stock'[s] \in [quantity : 0..MaxQuantity, reserved : Nat]
              /\ stock'[s].reserved <= stock'[s].quantity
              /\ stock'[s].reserved = IF s \in {h.sku : h \in holds'} THEN 1 ELSE 0,
           \A h \in holds' \ holds :
              /\ h \in [sku : Sku \cap drawn, product : Product \cap drawn]
              /\ h.sku \in DOMAIN variants /\ h.product = variants[h.sku].product,
           \A h, k \in holds' : h.sku = k.sku => h = k
    PROVE  Catalog!CatalogInv'
<1>1. /\ Catalog!RowsOK /\ Catalog!HoldsOK /\ Catalog!NothingDangles /\ Catalog!OneVariantPerSku
      /\ DOMAIN catalogReq = Request /\ \A p \in Request : Catalog!RequestOK(catalogReq[p])
      /\ Catalog!OwnProduct
    BY DEF Catalog!CatalogInv
<1>2. Catalog!RowsOK'
    <2>1. /\ masters' \subseteq Catalog!Master'
          /\ DOMAIN products' \subseteq Product \cap drawn' /\ \A p \in DOMAIN products' : products'[p] \in Style
          /\ DOMAIN variants' \subseteq Sku \cap drawn'
          /\ \A s \in DOMAIN variants' : variants'[s] \in [product : Product, color : Thing]
          /\ DOMAIN stock' = DOMAIN variants'
        BY <1>1 DEF Catalog!RowsOK, Catalog!Master
    <2> QED BY <2>1 DEF Catalog!RowsOK
<1>3. Catalog!HoldsOK'
    BY <1>1 DEF Catalog!HoldsOK
<1>4. Catalog!NothingDangles' /\ Catalog!OneVariantPerSku' /\ Catalog!OwnProduct'
    BY <1>1 DEF Catalog!NothingDangles, Catalog!OneVariantPerSku, Catalog!OwnProduct, Catalog!HasMasters
<1>5. ASSUME NEW p \in Request
      PROVE  Catalog!RequestOK(catalogReq[p])'
    <2>1. \A h \in holds' : h \in holds \/ h.product \in DOMAIN products
        BY <1>1 DEF Catalog!NothingDangles
    <2>2. catalogReq[p].pc = "product" => /\ catalogReq[p].product \notin DOMAIN products'
                                          /\ \A h \in holds' : h.product # catalogReq[p].product
        BY <1>1, <2>1 DEF Catalog!RequestOK
    <2>3. /\ catalogReq'[p] = catalogReq[p] /\ drawn \subseteq drawn'
          /\ \A s \in drawn : s \in DOMAIN variants' =>
                 s \in DOMAIN variants /\ variants'[s].product = variants[s].product
        OBVIOUS
    <2> QED BY <2>2, <2>3, CatalogKeeps
<1> QED BY <1>1, <1>2, <1>3, <1>4, <1>5 DEF Catalog!CatalogInv

LEMMA CatalogStock ==
    ASSUME Catalog!CatalogAssumption, Catalog!CatalogInv, NEW s \in Sku,
           Catalog!SetQuantity(s) \/ Catalog!Reserve(s)
    PROVE  Catalog!CatalogInv'
<1>1. /\ Catalog!RowsOK /\ Catalog!HoldsOK /\ MaxQuantity \in Nat
    BY DEF Catalog!CatalogInv, Catalog!CatalogAssumption
<1>2. s \in DOMAIN stock /\ UNCHANGED <<masters, products, variants, drawn, catalogReq>>
    BY DEF Catalog!SetQuantity, Catalog!Reserve
<1>3. PICK row : row = stock[s]
    OBVIOUS
<1>4. /\ row \in [quantity : 0..MaxQuantity, reserved : Nat] /\ row.reserved <= row.quantity
      /\ row.reserved = IF s \in {h.sku : h \in holds} THEN 1 ELSE 0
    BY <1>1, <1>2, <1>3 DEF Catalog!RowsOK
<1>5. CASE Catalog!SetQuantity(s)
    <2>1. PICK n \in row.reserved..MaxQuantity : stock' = [stock EXCEPT ![s].quantity = n]
        BY <1>3, <1>5 DEF Catalog!SetQuantity
    <2>2. PICK new : new = [row EXCEPT !.quantity = n]
        OBVIOUS
    <2>3. row.reserved \in Nat /\ MaxQuantity \in Nat /\ n \in row.reserved..MaxQuantity
        BY <1>1, <1>4
    <2>4. n \in 0..MaxQuantity /\ row.reserved <= n
        BY ONLY <2>3
    <2>5. /\ new \in [quantity : 0..MaxQuantity, reserved : Nat] /\ new.reserved <= new.quantity
          /\ new.reserved = row.reserved
        BY <1>4, <2>2, <2>4
    <2>6. DOMAIN stock' = DOMAIN stock /\ stock'[s] = new /\ \A t \in DOMAIN stock : t # s => stock'[t] = stock[t]
        BY <1>2, <1>3, <2>1, <2>2
    <2>7. holds' = holds
        BY <1>5 DEF Catalog!SetQuantity
    <2>8. ASSUME NEW t \in DOMAIN stock
          PROVE  /\ stock'[t] \in [quantity : 0..MaxQuantity, reserved : Nat]
                 /\ stock'[t].reserved <= stock'[t].quantity
                 /\ stock'[t].reserved = IF t \in {h.sku : h \in holds'} THEN 1 ELSE 0
        <3>1. CASE t = s
            BY <1>4, <2>5, <2>6, <2>7, <3>1
        <3>2. CASE t # s
            BY <1>1, <2>6, <2>7, <2>8, <3>2 DEF Catalog!RowsOK
        <3> QED BY <3>1, <3>2
    <2>9. \A h, k \in holds' : h.sku = k.sku => h = k
        BY <1>1, <2>7 DEF Catalog!HoldsOK
    <2> QED BY <1>2, <2>6, <2>7, <2>8, <2>9, CatalogCounts
<1>6. CASE Catalog!Reserve(s)
    <2>1. PICK h : h = [sku |-> s, product |-> variants[s].product]
        OBVIOUS
    <2>2. /\ holds' = holds \cup {h} /\ stock' = [stock EXCEPT ![s].reserved = @ + 1]
          /\ s \notin {k.sku : k \in holds} /\ row.reserved < row.quantity
        BY <1>3, <1>6, <2>1 DEF Catalog!Reserve
    <2>3. PICK new : new = [row EXCEPT !.reserved = row.reserved + 1]
        OBVIOUS
    <2>4. row.reserved = 0 /\ row.quantity \in 0..MaxQuantity /\ row.reserved < row.quantity /\ MaxQuantity \in Nat
        BY <1>1, <1>4, <2>2
    <2>5. row.reserved + 1 = 1 /\ 1 <= row.quantity
        BY ONLY <2>4
    <2>6. /\ new \in [quantity : 0..MaxQuantity, reserved : Nat] /\ new.reserved <= new.quantity
          /\ new.reserved = 1
        BY <1>4, <2>3, <2>5
    <2>7. DOMAIN stock' = DOMAIN stock /\ stock'[s] = new /\ \A t \in DOMAIN stock : t # s => stock'[t] = stock[t]
        BY <1>2, <1>3, <2>2, <2>3
    <2>8. s \in DOMAIN variants /\ s \in Sku \cap drawn /\ variants[s].product \in Product
        BY <1>1, <1>2 DEF Catalog!RowsOK
    <2>9. variants[s].product \in DOMAIN products /\ variants[s].product \in drawn
        BY <1>1, <2>8 DEF Catalog!CatalogInv, Catalog!NothingDangles, Catalog!RowsOK
    <2>10. /\ h \in [sku : Sku \cap drawn, product : Product \cap drawn]
           /\ h.sku = s /\ h.product = variants[s].product
        BY <2>1, <2>8, <2>9
    <2>11. ASSUME NEW t \in DOMAIN stock
           PROVE  /\ stock'[t] \in [quantity : 0..MaxQuantity, reserved : Nat]
                  /\ stock'[t].reserved <= stock'[t].quantity
                  /\ stock'[t].reserved = IF t \in {k.sku : k \in holds'} THEN 1 ELSE 0
        <3>1. CASE t = s
            BY <2>2, <2>6, <2>7, <2>10, <3>1
        <3>2. CASE t # s
            <4>1. t \in {k.sku : k \in holds'} <=> t \in {k.sku : k \in holds}
                BY <2>2, <2>10, <3>2
            <4> QED BY <1>1, <2>7, <2>11, <3>2, <4>1 DEF Catalog!RowsOK
        <3> QED BY <3>1, <3>2
    <2>12. \A j, k \in holds' : j.sku = k.sku => j = k
        BY <1>1, <2>2, <2>10 DEF Catalog!HoldsOK
    <2>13. \A k \in holds' \ holds : k = h
        BY <2>2
    <2> QED BY <1>2, <2>7, <2>8, <2>10, <2>11, <2>12, <2>13, CatalogCounts
<1> QED BY <1>5, <1>6

\* What was reserved is shipped or given back.
LEMMA CatalogCloses ==
    ASSUME Catalog!CatalogAssumption, Catalog!CatalogInv, NEW h \in holds, NEW committing \in BOOLEAN,
           Catalog!FinalizeReservation(h, committing)
    PROVE  Catalog!CatalogInv'
<1>1. /\ Catalog!RowsOK /\ Catalog!HoldsOK /\ MaxQuantity \in Nat
    BY DEF Catalog!CatalogInv, Catalog!CatalogAssumption
<1>2. /\ h.sku \in DOMAIN stock /\ UNCHANGED <<masters, products, variants, drawn, catalogReq>>
      /\ holds' = holds \ {h}
    BY DEF Catalog!FinalizeReservation
<1>3. PICK row : row = stock[h.sku]
    OBVIOUS
<1>4. row \in [quantity : 0..MaxQuantity, reserved : Nat] /\ row.reserved <= row.quantity /\ row.reserved = 1
    BY <1>1, <1>2, <1>3 DEF Catalog!RowsOK
<1>5. PICK new : new = [quantity |-> row.quantity - (IF committing THEN 1 ELSE 0),
                        reserved |-> row.reserved - 1]
    OBVIOUS
<1>6. /\ DOMAIN stock' = DOMAIN stock /\ stock'[h.sku] = new
      /\ \A t \in DOMAIN stock : t # h.sku => stock'[t] = stock[t]
    BY <1>2, <1>3, <1>5 DEF Catalog!FinalizeReservation
<1>7. PICK n : n = row.quantity - (IF committing THEN 1 ELSE 0)
    OBVIOUS
<1>8. n \in 0..MaxQuantity
    <2>1. row.quantity \in 0..MaxQuantity /\ 1 <= row.quantity /\ MaxQuantity \in Nat
        BY <1>1, <1>4
    <2>2. row.quantity \in Int
        BY <2>1
    <2>3. (IF committing THEN 1 ELSE 0) \in {0, 1}
        OBVIOUS
    <2>4. n = row.quantity - 0 \/ n = row.quantity - 1
        BY <1>7, <2>3
    <2> QED BY ONLY <2>1, <2>2, <2>4
<1>9. /\ new \in [quantity : 0..MaxQuantity, reserved : Nat] /\ new.reserved <= new.quantity
      /\ new.reserved = 0
    <2>1. row.reserved - 1 = 0 /\ 0 \in Nat
        BY <1>4
    <2>2. new = [quantity |-> n, reserved |-> 0]
        BY <1>5, <1>7, <2>1
    <2> QED BY ONLY <1>1, <1>8, <2>1, <2>2
<1>10. \A k \in holds' : k.sku # h.sku
    BY <1>1, <1>2 DEF Catalog!HoldsOK
<1>11. ASSUME NEW t \in DOMAIN stock
       PROVE  /\ stock'[t] \in [quantity : 0..MaxQuantity, reserved : Nat]
              /\ stock'[t].reserved <= stock'[t].quantity
              /\ stock'[t].reserved = IF t \in {k.sku : k \in holds'} THEN 1 ELSE 0
    <2>1. CASE t = h.sku
        BY <1>6, <1>9, <1>10, <2>1
    <2>2. CASE t # h.sku
        <3>1. t \in {k.sku : k \in holds'} <=> t \in {k.sku : k \in holds}
            BY <1>2, <2>2
        <3> QED BY <1>1, <1>6, <1>11, <2>2, <3>1 DEF Catalog!RowsOK
    <2> QED BY <2>1, <2>2
<1>12. /\ \A j, k \in holds' : j.sku = k.sku => j = k
       /\ holds' \ holds = {}
    BY <1>1, <1>2 DEF Catalog!HoldsOK
<1> QED BY <1>2, <1>6, <1>11, <1>12, CatalogCounts

\* A variant has a stock row, which refuses its deletion.
LEMMA CatalogRefuses ==
    ASSUME Catalog!CatalogInv, NEW s \in Sku, Catalog!DeleteVariant(s)
    PROVE  UNCHANGED catalogVars
<1>1. DOMAIN stock = DOMAIN variants
    BY DEF Catalog!CatalogInv, Catalog!RowsOK
<1> QED BY <1>1 DEF Catalog!DeleteVariant, catalogVars

LEMMA CatalogStays ==
    ASSUME Catalog!CatalogInv, UNCHANGED catalogVars
    PROVE  Catalog!CatalogInv'
<1>1. UNCHANGED <<masters, products, variants, stock, holds, drawn, catalogReq>>
    BY DEF catalogVars
<1>2. Catalog!RowsOK' /\ Catalog!HoldsOK'
    BY <1>1 DEF Catalog!CatalogInv, Catalog!RowsOK, Catalog!HoldsOK
<1>3. Catalog!NothingDangles' /\ Catalog!OneVariantPerSku' /\ Catalog!OwnProduct'
    BY <1>1 DEF Catalog!CatalogInv, Catalog!NothingDangles, Catalog!OneVariantPerSku,
                Catalog!OwnProduct, Catalog!HasMasters
<1>4. \A p \in Request : Catalog!RequestOK(catalogReq[p])'
    BY <1>1 DEF Catalog!CatalogInv, Catalog!RequestOK
<1> QED BY <1>1, <1>2, <1>3, <1>4 DEF Catalog!CatalogInv

LEMMA CatalogStep ==
    ASSUME Catalog!CatalogAssumption, Catalog!CatalogInv, Catalog!Next
    PROVE  Catalog!CatalogInv'
<1>1. ASSUME NEW m \in Catalog!Master, Catalog!CreateMaster(m) \/ Catalog!DeleteMaster(m)
      PROVE  Catalog!CatalogInv'
    BY <1>1, CatalogMasters
<1>2. ASSUME NEW q \in Request,
             \/ Catalog!CreateProduct(q) \/ Catalog!CreateVariant(q) \/ Catalog!ComposeSku(q)
             \/ Catalog!DeleteProduct(q) \/ Catalog!DeleteStock(q) \/ Catalog!Fail(q)
      PROVE  Catalog!CatalogInv'
    BY <1>2, CatalogBegins
<1>3. ASSUME NEW q \in Request,
             \/ Catalog!InsertProduct(q) \/ Catalog!EnsureStockRow(q)
             \/ Catalog!InsertVariant(q) \/ Catalog!DeleteProductRow(q)
      PROVE  Catalog!CatalogInv'
    <2>1. MaxQuantity \in Nat
        BY DEF Catalog!CatalogAssumption
    <2> QED BY <1>3, <2>1, CatalogInsertsProduct, CatalogEnsures, CatalogInsertsVariant,
               CatalogDeletesProduct
<1>4. ASSUME NEW s \in Sku, Catalog!DeleteVariant(s) \/ Catalog!SetQuantity(s) \/ Catalog!Reserve(s)
      PROVE  Catalog!CatalogInv'
    BY <1>4, CatalogRefuses, CatalogStays, CatalogStock
<1>5. ASSUME NEW h \in holds, NEW committing \in BOOLEAN, Catalog!FinalizeReservation(h, committing)
      PROVE  Catalog!CatalogInv'
    BY <1>5, CatalogCloses
<1> QED BY <1>1, <1>2, <1>3, <1>4, <1>5 DEF Catalog!Next

-----------------------------------------------------------------------------
(* The listing: one order, and the pages cut from it *)

\* Those that come no later than x, and how many they are.
Ahead(S, x) == {y \in S : y = x \/ Search!Before(y, x)}

RankIn(S) == [x \in S |-> Cardinality(Ahead(S, x))]

LEMMA SearchCounts == \A S : Search!Cardinality(S) = Cardinality(S)
BY DEF Search!Cardinality, Cardinality

LEMMA SearchBijects ==
    ASSUME NEW S, NEW T, NEW f
    PROVE  f \in Search!Bijection(S, T) <=> f \in Bijection(S, T)
BY DEF Search!Bijection, Search!Injection, Search!Surjection, Search!IsInjective,
       Bijection, Injection, Surjection, IsInjective

\* The ordering is strict, and decides between any two products.
LEMMA SearchOrder ==
    ASSUME Search!SearchAssumption, Search!SearchInv
    PROVE  /\ \A x \in Listed : ~Search!Before(x, x)
           /\ \A x, y \in Listed : x # y => Search!Before(x, y) \/ Search!Before(y, x)
           /\ \A x, y, z \in Listed : Search!Before(x, y) /\ Search!Before(y, z) => Search!Before(x, z)
<1>1. \A x \in Listed : x \in Int /\ Search!SortKey(x) \in Int
    BY DEF Search!SearchAssumption, Search!SearchInv, Search!SortKey, Search!Row
<1>2. ASSUME NEW x \in Listed, NEW y \in Listed
      PROVE  Search!Before(x, y) <=>
                IF Search!SortKey(x) = Search!SortKey(y) THEN x < y
                ELSE IF query.ascending THEN Search!SortKey(x) < Search!SortKey(y)
                ELSE Search!SortKey(x) > Search!SortKey(y)
    BY DEF Search!Before
<1>3. \A x \in Listed : ~Search!Before(x, x)
    BY ONLY <1>1, <1>2
<1>4. \A x, y \in Listed : x # y => Search!Before(x, y) \/ Search!Before(y, x)
    BY ONLY <1>1, <1>2
<1>5. \A x, y, z \in Listed : Search!Before(x, y) /\ Search!Before(y, z) => Search!Before(x, z)
    BY ONLY <1>1, <1>2
<1> QED BY <1>3, <1>4, <1>5

\* Who comes earlier has fewer ahead.
LEMMA SearchRanks ==
    ASSUME Search!SearchAssumption, Search!SearchInv, NEW S, S \subseteq Listed
    PROVE  /\ IsFiniteSet(S) /\ Cardinality(S) \in Nat
           /\ \A x \in S : RankIn(S)[x] \in 1..Cardinality(S)
           /\ \A x, y \in S : Search!Before(x, y) => RankIn(S)[x] < RankIn(S)[y]
           /\ \A x, y \in S : RankIn(S)[x] = RankIn(S)[y] => x = y
<1>1. IsFiniteSet(S) /\ Cardinality(S) \in Nat
    <2>1. IsFiniteSet(Listed)
        BY DEF Search!SearchAssumption, Search!IsFiniteSet, IsFiniteSet
    <2> QED BY <2>1, FS_Subset, FS_CardinalityType
<1>2. ASSUME NEW x \in S
      PROVE  /\ Ahead(S, x) \in SUBSET S /\ x \in Ahead(S, x) /\ IsFiniteSet(Ahead(S, x))
             /\ RankIn(S)[x] = Cardinality(Ahead(S, x))
             /\ RankIn(S)[x] \in 1..Cardinality(S)
    <2>1. Ahead(S, x) \in SUBSET S /\ x \in Ahead(S, x)
        BY DEF Ahead
    <2>2. IsFiniteSet(Ahead(S, x)) /\ Cardinality(Ahead(S, x)) <= Cardinality(S)
        BY <1>1, <2>1, FS_Subset
    <2>3. Cardinality(Ahead(S, x)) \in Nat /\ Cardinality(Ahead(S, x)) # 0
        BY <2>1, <2>2, FS_CardinalityType, FS_EmptySet
    <2>4. RankIn(S)[x] = Cardinality(Ahead(S, x))
        BY DEF RankIn
    <2> QED BY <1>1, <2>1, <2>2, <2>3, <2>4
<1>3. ASSUME NEW x \in S, NEW y \in S, Search!Before(x, y)
      PROVE  RankIn(S)[x] < RankIn(S)[y]
    <2>1. Ahead(S, x) \in SUBSET Ahead(S, y)
        BY <1>3, SearchOrder DEF Ahead
    <2>2. ~(y = x \/ Search!Before(y, x))
        BY <1>3, SearchOrder
    <2>3. y \in Ahead(S, y) /\ y \notin Ahead(S, x)
        BY <2>2 DEF Ahead
    <2>4. /\ Cardinality(Ahead(S, x)) <= Cardinality(Ahead(S, y))
          /\ Cardinality(Ahead(S, y)) # Cardinality(Ahead(S, x))
        BY <1>2, <2>1, <2>3, FS_Subset
    <2>5. RankIn(S)[x] \in Int /\ RankIn(S)[y] \in Int
        BY <1>1, <1>2
    <2> QED BY <1>2, <2>4, <2>5
<1>4. ASSUME NEW x \in S, NEW y \in S, RankIn(S)[x] = RankIn(S)[y]
      PROVE  x = y
    <2>1. RankIn(S)[x] \in Int
        BY <1>1, <1>2
    <2>2. ~Search!Before(x, y) /\ ~Search!Before(y, x)
        BY <1>3, <1>4, <2>1
    <2> QED BY <2>2, SearchOrder
<1> QED BY <1>1, <1>2, <1>3, <1>4

\* A set of products has an order.
LEMMA SearchOrderExists ==
    ASSUME Search!SearchAssumption, Search!SearchInv, NEW S, S \subseteq Listed
    PROVE  \E s : s \in Search!Orders(S)
<1> DEFINE n == Cardinality(S)
           r == RankIn(S)
           s == [i \in 1..n |-> CHOOSE x \in S : r[x] = i]
<1>1. /\ IsFiniteSet(S) /\ n \in Nat /\ \A x \in S : r[x] \in 1..n
      /\ \A x, y \in S : Search!Before(x, y) => r[x] < r[y]
      /\ \A x, y \in S : r[x] = r[y] => x = y
    BY SearchRanks
<1>2. r \in Injection(S, 1..n)
    <2>1. r \in [S -> 1..n]
        BY <1>1 DEF RankIn
    <2> QED BY <1>1, <2>1 DEF Injection, IsInjective
<1>3. IsFiniteSet(1..n) /\ Cardinality(1..n) = n
    BY <1>1, FS_Interval
<1>4. r \in Surjection(S, 1..n)
    BY <1>2, <1>3, FS_Injection
<1>5. ASSUME NEW i \in 1..n
      PROVE  s[i] \in S /\ r[s[i]] = i
    <2>1. \E x \in S : r[x] = i
        BY <1>4 DEF Surjection
    <2> QED BY <2>1
<1>6. s \in [1..n -> S]
    BY <1>5
<1>7. s \in Bijection(1..n, S)
    <2>1. \A i, j \in 1..n : s[i] = s[j] => i = j
        BY <1>5
    <2>2. \A x \in S : \E i \in 1..n : s[i] = x
        <3>1. ASSUME NEW x \in S
              PROVE  s[r[x]] = x
            <4>1. r[x] \in 1..n
                BY <1>1
            <4> HIDE DEF r, s
            <4>2. s[r[x]] \in S /\ r[s[r[x]]] = r[x]
                BY <1>5, <4>1
            <4> QED BY <1>1, <4>2
        <3> QED BY <1>1, <3>1
    <2> HIDE DEF n, s
    <2> QED BY <1>6, <2>1, <2>2 DEF Bijection, Injection, Surjection, IsInjective
<1>8. ASSUME NEW i \in 1..n, NEW j \in 1..n, i < j
      PROVE  Search!Before(s[i], s[j])
    <2> HIDE DEF r, s
    <2>1. s[i] \in S /\ s[j] \in S /\ r[s[i]] = i /\ r[s[j]] = j
        BY <1>5
    <2>2. i # j /\ ~(j < i)
        BY <1>1, <1>8
    <2>3. s[i] # s[j] /\ ~Search!Before(s[j], s[i])
        BY <1>1, <2>1, <2>2
    <2> QED BY <2>1, <2>3, SearchOrder
<1>9. DOMAIN s = 1..n
    OBVIOUS
<1> HIDE DEF s
<1>10. s \in Search!Bijection(1..Search!Cardinality(S), S)
    BY <1>7, SearchCounts, SearchBijects
<1> QED BY <1>8, <1>9, <1>10 DEF Search!Orders

\* In an order the index of a product is its rank.
LEMMA SearchOrderRanks ==
    ASSUME Search!SearchAssumption, Search!SearchInv, NEW S, S \subseteq Listed,
           NEW s \in Search!Orders(S)
    PROVE  /\ s \in [1..Cardinality(S) -> S] /\ s \in Bijection(1..Cardinality(S), S)
           /\ \A i \in 1..Cardinality(S) : RankIn(S)[s[i]] = i
<1> DEFINE n == Cardinality(S)
<1>1. s \in Bijection(1..n, S)
    BY SearchCounts, SearchBijects DEF Search!Orders
<1>2. /\ s \in [1..n -> S]
      /\ \A i, j \in 1..n : s[i] = s[j] => i = j
      /\ \A x \in S : \E i \in 1..n : s[i] = x
    BY <1>1 DEF Bijection, Injection, Surjection, IsInjective
<1>3. \A i, j \in 1..n : i < j => Search!Before(s[i], s[j])
    BY <1>2 DEF Search!Orders
<1>4. n \in Nat /\ IsFiniteSet(S)
    BY SearchRanks
<1>5. ASSUME NEW i \in 1..n
      PROVE  RankIn(S)[s[i]] = i
    <2> DEFINE A == Ahead(S, s[i])
               f == [j \in 1..i |-> s[j]]
    <2>1. i \in Nat /\ 1..i \subseteq 1..n
        BY <1>4
    <2>2. ASSUME NEW j \in 1..i
          PROVE  s[j] \in A
        <3>1. j \in 1..n /\ s[j] \in S /\ (j = i \/ j < i)
            BY <1>2, <2>1
        <3> QED BY <1>3, <3>1 DEF Ahead
    <2>3. ASSUME NEW x \in A
          PROVE  \E j \in 1..i : s[j] = x
        <3>1. x \in S /\ (x = s[i] \/ Search!Before(x, s[i]))
            BY DEF Ahead
        <3>2. PICK j \in 1..n : s[j] = x
            BY <1>2, <3>1
        <3>3. ASSUME i < j
              PROVE  FALSE
            <4>1. Search!Before(s[i], x) /\ s[i] \in S
                BY <1>2, <1>3, <3>2, <3>3
            <4>2. x # s[i]
                BY <1>2, <1>4, <3>2, <3>3
            <4>3. Search!Before(x, x)
                BY <3>1, <4>1, <4>2, SearchOrder
            <4> QED BY <3>1, <4>3, SearchOrder
        <3>4. j \in 1..i
            BY <1>4, <3>3
        <3> QED BY <3>2, <3>4
    <2>4. f \in Surjection(1..i, A) /\ f \in Injection(1..i, A)
        <3>1. f \in [1..i -> A]
            BY <2>2
        <3>2. \A x \in A : \E j \in 1..i : f[j] = x
            BY <2>3
        <3>3. \A j, k \in 1..i : f[j] = f[k] => j = k
            BY <1>2, <2>1
        <3> HIDE DEF f, A
        <3> QED BY <3>1, <3>2, <3>3 DEF Surjection, Injection, IsInjective
    <2>5. IsFiniteSet(1..i) /\ Cardinality(1..i) = i
        BY <2>1, FS_Interval
    <2>6. Cardinality(A) = Cardinality(1..i)
        BY <2>4, <2>5, FS_Surjection
    <2>7. RankIn(S)[s[i]] = Cardinality(A)
        BY <1>2 DEF RankIn
    <2> QED BY <2>5, <2>6, <2>7
<1> QED BY <1>1, <1>2, <1>5

\* So there is only one.
LEMMA SearchOneOrder ==
    ASSUME Search!SearchAssumption, Search!SearchInv, NEW S, S \subseteq Listed,
           NEW s \in Search!Orders(S), NEW t \in Search!Orders(S)
    PROVE  s = t
<1>1. /\ s \in [1..Cardinality(S) -> S] /\ t \in [1..Cardinality(S) -> S]
      /\ \A i \in 1..Cardinality(S) : RankIn(S)[s[i]] = i /\ RankIn(S)[t[i]] = i
    BY SearchOrderRanks
<1>2. \A x, y \in S : RankIn(S)[x] = RankIn(S)[y] => x = y
    BY SearchRanks
<1>3. \A i \in 1..Cardinality(S) : s[i] = t[i]
    BY ONLY <1>1, <1>2
<1>4. ASSUME NEW D, s \in [D -> S], t \in [D -> S], \A i \in D : s[i] = t[i]
      PROVE  s = t
    BY <1>4
<1> QED BY <1>1, <1>3, <1>4

\* The comparison of the store in memory is that of the database.
LEMMA SearchSorts ==
    ASSUME Search!SearchAssumption, Search!SearchInv, NEW S, S \subseteq Listed
    PROVE  Search!Orders(S) = {Search!Sorted(S)}
<1>1. ASSUME NEW x \in S, NEW y \in S, x # y
      PROVE  Search!Less(x, y) <=> Search!Before(x, y)
    <2>1. x \in Int /\ y \in Int /\ shelf[x].views \in Int /\ shelf[y].views \in Int
        BY DEF Search!SearchAssumption, Search!SearchInv, Search!Row
    <2>2. query.ascending \in BOOLEAN
        BY DEF Search!SearchInv, Search!Query
    <2>3. CASE query.sort = "views"
        BY <1>1, <2>1, <2>2, <2>3 DEF Search!Less, Search!Before, Search!SortKey
    <2>4. CASE query.sort # "views"
        BY <1>1, <2>1, <2>2, <2>4 DEF Search!Less, Search!Before, Search!SortKey
    <2> QED BY <2>3, <2>4
<1> DEFINE B == Search!Bijection(1..Search!Cardinality(S), S)
<1>2. ASSUME NEW s \in B
      PROVE  /\ DOMAIN s = 1..Cardinality(S)
             /\ \A i, j \in DOMAIN s : s[i] \in S /\ (s[i] = s[j] => i = j)
    BY SearchCounts, SearchBijects DEF Bijection, Injection, IsInjective
<1>3. Cardinality(S) \in Nat
    BY SearchRanks
<1>4. ASSUME NEW s \in B
      PROVE  /\ \A i, j \in DOMAIN s : i < j => Search!Before(s[i], s[j])
             <=> \A i, j \in DOMAIN s : i < j => Search!Less(s[i], s[j])
    <2>1. \A i, j \in DOMAIN s : i < j => s[i] # s[j] /\ s[i] \in S /\ s[j] \in S
        BY <1>2, <1>3
    <2> QED BY ONLY <1>1, <2>1
<1>5. PICK s : s \in Search!Orders(S)
    BY SearchOrderExists
<1>6. s \in B /\ \A i, j \in DOMAIN s : i < j => Search!Less(s[i], s[j])
    BY <1>4, <1>5 DEF Search!Orders
<1>7. /\ Search!Sorted(S) \in B
      /\ \A i, j \in DOMAIN Search!Sorted(S) : i < j => Search!Less(Search!Sorted(S)[i], Search!Sorted(S)[j])
    BY <1>6 DEF Search!Sorted
<1>8. Search!Sorted(S) \in Search!Orders(S)
    BY <1>4, <1>7 DEF Search!Orders
<1> QED BY <1>8, SearchOneOrder

LEMMA SearchMatches ==
    Search!Where \subseteq Listed /\ Search!Where = {p \in Listed : Search!Matches(p)}
BY DEF Search!Where

LEMMA SearchAgrees ==
    ASSUME Search!SearchAssumption, Search!SearchInv
    PROVE  Search!StoresAgree
<1>1. Search!Orders(Search!Where) = {Search!Sorted(Search!Where)}
    BY SearchSorts, SearchMatches
<1>2. \A from : Search!MemoryPage(from) = Search!Window(Search!Sorted(Search!Where), from, Search!Limit)
    BY DEF Search!MemoryPage, Search!Where
<1> QED BY <1>1, <1>2 DEF Search!StoresAgree

\* An order is a sequence of the products.
LEMMA SearchSequence ==
    ASSUME Search!SearchAssumption, Search!SearchInv, NEW S, S \subseteq Listed,
           NEW s \in Search!Orders(S)
    PROVE  /\ s \in Seq(S) /\ Len(s) = Cardinality(S)
           /\ Search!IsInjective(s) /\ Search!Range(s) = S
<1>1. s \in [1..Cardinality(S) -> S] /\ s \in Bijection(1..Cardinality(S), S)
    BY SearchOrderRanks
<1>2. Cardinality(S) \in Nat
    BY SearchRanks
<1>3. s \in Seq(S)
    BY <1>1, <1>2, SeqDef
<1>4. Len(s) = Cardinality(S)
    <2>1. Len(s) \in Nat /\ DOMAIN s = 1..Len(s)
        BY <1>3, LenProperties
    <2>2. 1..Len(s) = 1..Cardinality(S)
        BY <1>1, <2>1
    <2> QED BY ONLY <1>2, <2>1, <2>2
<1>5. Search!IsInjective(s)
    BY <1>1 DEF Bijection, Injection, IsInjective, Search!IsInjective
<1>6. Search!Range(s) = S
    BY <1>1 DEF Bijection, Surjection, Search!Range
<1> QED BY <1>3, <1>4, <1>5, <1>6

\* The next window goes on where the first ones ended.
LEMMA SearchTurns ==
    ASSUME NEW S, NEW s \in Seq(S), NEW from \in Nat, NEW n \in Nat
    PROVE  Search!Window(s, 0, from) \o Search!Window(s, from, n) = Search!Window(s, 0, from + n)
<1>1. Len(s) \in Nat /\ \A i \in 1..Len(s) : s[i] \in S
    BY LenProperties, ElementOfSeq
<1>2. /\ Search!Window(s, 0, from) = SubSeq(s, 1, IF from < Len(s) THEN from ELSE Len(s))
      /\ Search!Window(s, from, n)
            = SubSeq(s, from + 1, IF from + n < Len(s) THEN from + n ELSE Len(s))
      /\ Search!Window(s, 0, from + n) = SubSeq(s, 1, IF from + n < Len(s) THEN from + n ELSE Len(s))
    BY <1>1 DEF Search!Window
<1>3. CASE from <= Len(s)
    <2> DEFINE m == IF from + n < Len(s) THEN from + n ELSE Len(s)
    <2>1. /\ from \in 0..Len(s) /\ m \in from..Len(s)
          /\ (IF from < Len(s) THEN from ELSE Len(s)) = from
        BY <1>1, <1>3
    <2>2. 1 \in 1..Len(s) + 1 /\ from \in 1 - 1..Len(s)
        BY <1>1, <2>1
    <2> HIDE DEF m
    <2>3. SubSeq(s, 1, from) \o SubSeq(s, from + 1, m) = SubSeq(s, 1, m)
        BY <2>1, <2>2, ConcatAdjacentSubSeq
    <2> QED BY <1>2, <2>1, <2>3 DEF m
<1>4. CASE Len(s) < from
    <2>1. /\ (IF from < Len(s) THEN from ELSE Len(s)) = Len(s)
          /\ (IF from + n < Len(s) THEN from + n ELSE Len(s)) = Len(s)
          /\ Len(s) < from + 1 /\ from + 1 \in Int /\ Len(s) \in Int
        BY <1>1, <1>4
    <2>2. SubSeq(s, from + 1, Len(s)) = <<>>
        BY <2>1, SubSeqEmpty
    <2>3. SubSeq(s, 1, Len(s)) = s /\ s \o <<>> = s
        BY SubSeqFull, ConcatEmptySeq
    <2> QED BY <1>2, <2>1, <2>2, <2>3
<1> QED BY <1>1, <1>3, <1>4

LEMMA SearchSays ==
    ASSUME Search!SearchAssumption, Search!SearchInv
    PROVE  Search!PagesCoverMatches
<1>1. SUFFICES ASSUME calm, offset > 0, offset >= Search!Cardinality(Search!Where)
               PROVE  Search!IsInjective(pages) /\ Search!Range(pages) = Search!Where
    BY DEF Search!PagesCoverMatches
<1>2. PICK s \in Search!Orders(Search!Where) : pages = Search!Window(s, 0, offset)
    BY <1>1 DEF Search!SearchInv
<1>3. /\ s \in Seq(Search!Where) /\ Len(s) = Cardinality(Search!Where)
      /\ Search!IsInjective(s) /\ Search!Range(s) = Search!Where
    BY SearchSequence, SearchMatches
<1>4. offset \in Nat /\ offset >= Len(s) /\ Len(s) \in Nat
    BY <1>1, <1>3, SearchCounts, LenProperties DEF Search!SearchInv
<1>5. pages = SubSeq(s, 1, Len(s))
    <2>1. (IF 0 + offset < Len(s) THEN 0 + offset ELSE Len(s)) = Len(s) /\ 0 + 1 = 1
        BY <1>4
    <2> QED BY <1>2, <2>1 DEF Search!Window
<1>6. pages = s
    BY <1>3, <1>5, SubSeqFull
<1> QED BY <1>3, <1>6

LEMMA SearchStart ==
    ASSUME Search!Init
    PROVE  Search!SearchInv
BY DEF Search!Init, Search!SearchInv

\* What was asked for and what matches change with the shelf alone.
LEMMA SearchKeeps ==
    ASSUME Search!SearchInv, UNCHANGED <<shelf, query>>
    PROVE  /\ Search!Where' = Search!Where
           /\ \A S : Search!Orders(S)' = Search!Orders(S)
<1>1. \A p : Search!Matches(p)' <=> Search!Matches(p)
    BY DEF Search!Matches
<1>2. \A p, r : Search!Before(p, r)' <=> Search!Before(p, r)
    BY DEF Search!Before, Search!SortKey
<1> QED BY <1>1, <1>2 DEF Search!Where, Search!Orders

LEMMA SearchStays ==
    ASSUME Search!SearchInv, UNCHANGED <<shelf, query, offset, pages>>, calm' => calm \/ offset = 0
    PROVE  Search!SearchInv'
<1>1. Search!Where' = Search!Where /\ \A S : Search!Orders(S)' = Search!Orders(S)
    BY SearchKeeps
<1>2. ASSUME calm', offset' > 0
      PROVE  \E s \in Search!Orders(Search!Where)' : pages' = Search!Window(s, 0, offset')
    <2>1. calm /\ offset > 0
        BY <1>2 DEF Search!SearchInv
    <2>2. PICK s \in Search!Orders(Search!Where) : pages = Search!Window(s, 0, offset)
        BY <2>1 DEF Search!SearchInv
    <2>3. s \in Search!Orders(Search!Where)'
        BY <1>1
    <2> QED BY <2>2, <2>3
<1>3. /\ (shelf \in [Listed -> Search!Row])' /\ (query \in Search!Query)' /\ (offset \in Nat)'
      /\ (offset = 0 => pages = <<>>)'
    BY DEF Search!SearchInv
<1> QED BY <1>2, <1>3 DEF Search!SearchInv

LEMMA SearchFetches ==
    ASSUME Search!SearchAssumption, Search!SearchInv, Search!Fetch
    PROVE  Search!SearchInv'
<1> DEFINE n == Search!Limit
<1>1. n \in Nat /\ n > 0
    <2>1. /\ MaxLimit \in Nat /\ Requested \subseteq Nat /\ DefaultLimit \in 1..MaxLimit
        BY DEF Search!SearchAssumption
    <2>2. query.limit \in Nat
        BY <2>1 DEF Search!SearchInv, Search!Query
    <2> QED BY <2>1, <2>2 DEF Search!Limit
<1>2. PICK s \in Search!Orders(Search!Where) : pages' = pages \o Search!Window(s, offset, n)
    BY DEF Search!Fetch
<1>3. offset' = offset + n /\ UNCHANGED <<shelf, query, calm>> /\ offset \in Nat
    BY DEF Search!Fetch, Search!SearchInv
<1>4. Search!Where' = Search!Where /\ \A S : Search!Orders(S)' = Search!Orders(S)
    BY <1>3, SearchKeeps
<1>5. s \in Seq(Search!Where)
    BY SearchSequence, SearchMatches
<1>6. ASSUME calm
      PROVE  pages = Search!Window(s, 0, offset)
    <2>1. CASE offset = 0
        <3>1. (IF 0 + 0 < Len(s) THEN 0 + 0 ELSE Len(s)) = 0
            BY <1>5, LenProperties
        <3>2. SubSeq(s, 1, 0) = <<>>
            BY SubSeqEmpty
        <3>3. Search!Window(s, 0, 0) = <<>>
            BY <3>1, <3>2 DEF Search!Window
        <3> QED BY <2>1, <3>3 DEF Search!SearchInv
    <2>2. CASE offset > 0
        <3>1. PICK t \in Search!Orders(Search!Where) : pages = Search!Window(t, 0, offset)
            BY <1>6, <2>2 DEF Search!SearchInv
        <3>2. t = s
            BY SearchOneOrder, SearchMatches
        <3> QED BY <3>1, <3>2
    <2> QED BY <1>3, <2>1, <2>2
<1>7. ASSUME calm'
      PROVE  \E t \in Search!Orders(Search!Where)' : pages' = Search!Window(t, 0, offset')
    <2>1. pages = Search!Window(s, 0, offset)
        BY <1>3, <1>6, <1>7
    <2>2. pages' = Search!Window(s, 0, offset + n)
        BY <1>1, <1>2, <1>3, <1>5, <2>1, SearchTurns
    <2>3. s \in Search!Orders(Search!Where)'
        BY <1>4
    <2> QED BY <1>3, <2>2, <2>3
<1>8. offset' \in Nat /\ offset' # 0
    BY <1>1, <1>3
<1> QED BY <1>3, <1>7, <1>8 DEF Search!SearchInv

LEMMA SearchStep ==
    ASSUME Search!SearchAssumption, Search!SearchInv, Search!Next
    PROVE  Search!SearchInv'
<1>1. CASE Search!Count
    BY <1>1, SearchStays DEF Search!Count
<1>2. CASE Search!Fetch
    BY <1>2, SearchFetches
<1>3. CASE Search!Change
    <2>1. MaxViews \in Nat /\ shelf \in [Listed -> Search!Row]
        BY DEF Search!SearchAssumption, Search!SearchInv
    <2>2. PICK p \in Listed :
              \/ shelf[p].views < MaxViews /\ shelf' = [shelf EXCEPT ![p].views = @ + 1]
              \/ \E status \in {"active", "draft"} \ {shelf[p].status} :
                    shelf' = [shelf EXCEPT ![p].status = status]
        BY <1>3 DEF Search!Change
    <2>3. shelf' \in [Listed -> Search!Row]
        <3>1. CASE shelf[p].views < MaxViews /\ shelf' = [shelf EXCEPT ![p].views = @ + 1]
            BY <2>1, <3>1 DEF Search!Row
        <3>2. ASSUME NEW status \in {"active", "draft"}, shelf' = [shelf EXCEPT ![p].status = status]
              PROVE  shelf' \in [Listed -> Search!Row]
            BY <2>1, <3>2 DEF Search!Row
        <3> QED BY <2>2, <3>1, <3>2
    <2>4. ~calm' /\ UNCHANGED <<query, offset, pages>>
        BY <1>3 DEF Search!Change
    <2>5. Search!Row' = Search!Row /\ Search!Query' = Search!Query
        BY DEF Search!Row, Search!Query
    <2> QED BY <2>3, <2>4 DEF Search!SearchInv
<1> QED BY <1>1, <1>2, <1>3 DEF Search!Next

-----------------------------------------------------------------------------
(* The instance *)

\* A step that leaves a component's variables alone leaves its invariant.
LEMMA KeysStays ==
    ASSUME Keys!KeysInv, UNCHANGED keyVars
    PROVE  Keys!KeysInv'
<1>1. UNCHANGED <<signers, cachedKeys, tokenReq>>
    BY DEF keyVars
<1>2. Keys!KeyTypes'
    BY <1>1 DEF Keys!KeysInv, Keys!KeyTypes, Keys!StoreKey, Keys!Key, Keys!Token
<1>3. Keys!CurrentTokenIsAccepted'
    BY <1>1 DEF Keys!KeysInv, Keys!CurrentTokenIsAccepted, Keys!RefusedForAReason
<1>4. Keys!Leading' = Keys!Leading /\ Keys!Newest' = Keys!Newest
    BY <1>1 DEF Keys!Leading, Keys!Newest
<1>5. \A r \in Request : Keys!FetchOK(tokenReq[r])'
    BY <1>1, <1>4 DEF Keys!KeysInv, Keys!FetchOK
<1> QED BY <1>2, <1>3, <1>4, <1>5 DEF Keys!KeysInv

LEMMA MigrationStays ==
    ASSUME Migration!MigrationInv, UNCHANGED migrationVars
    PROVE  Migration!MigrationInv'
<1>1. UNCHANGED <<migrated, hasRoles, index, pc, found, operators, alone>>
    BY DEF migrationVars
<1>2. Migration!TypeOK'
    BY <1>1 DEF Migration!MigrationInv, Migration!TypeOK, Migration!Collide
<1>3. Migration!RowsOK'
    BY <1>1 DEF Migration!MigrationInv, Migration!RowsOK
<1>4. Migration!Collisions' <=> Migration!Collisions
    BY <1>1 DEF Migration!Collisions, Migration!Collide
<1>5. Migration!AloneOK' /\ Migration!AloneAStartSucceeds'
    BY <1>1, <1>4 DEF Migration!MigrationInv, Migration!AloneOK, Migration!AloneAStartSucceeds
<1>6. \A i \in Request : Migration!StartOK(i)'
    BY <1>1 DEF Migration!MigrationInv, Migration!StartOK
<1> QED BY <1>1, <1>2, <1>3, <1>5, <1>6 DEF Migration!MigrationInv

LEMMA AlertsStays ==
    ASSUME Alerts!AlertsInv, UNCHANGED alertVars
    PROVE  Alerts!AlertsInv'
<1>1. UNCHANGED <<subs, access, alertReq, alert, blurred>>
    BY DEF alertVars
<1>2. Alerts!TableOK'
    BY <1>1 DEF Alerts!AlertsInv, Alerts!TableOK
<1>3. Alerts!AllowList' = Alerts!AllowList
    BY <1>1 DEF Alerts!AllowList, Alerts!Accepted, Alerts!Rows
<1>4. Alerts!CacheFollowsTable'
    BY <1>1, <1>3 DEF Alerts!AlertsInv, Alerts!CacheFollowsTable, Alerts!Busy
<1> QED BY <1>1, <1>2, <1>3, <1>4 DEF Alerts!AlertsInv, Alerts!Refreshing

LEMMA AccountsStays ==
    ASSUME Accounts!AccountsInv, UNCHANGED accountVars
    PROVE  Accounts!AccountsInv'
<1>1. UNCHANGED <<users, staffReq, outbox, born, decided, streak, overlapped>>
    BY DEF accountVars
<1>2. Accounts!Taken' = Accounts!Taken
    BY <1>1 DEF Accounts!Taken, Accounts!Exists
<1>3. Accounts!TablesInv'
    BY <1>1, <1>2 DEF Accounts!AccountsInv, Accounts!TablesInv
<1>4. Accounts!RowFollowsHistory' /\ Accounts!GoneIsAnnounced'
    BY <1>1, <1>2 DEF Accounts!AccountsInv, Accounts!RowFollowsHistory, Accounts!GoneIsAnnounced,
                      Accounts!Exists
<1>5. \A q \in Request : Accounts!RequestOK(staffReq[q])'
    BY <1>1 DEF Accounts!AccountsInv, Accounts!RequestOK
<1> QED BY <1>1, <1>3, <1>4, <1>5 DEF Accounts!AccountsInv

\* The invariant of each component, where it is the one that runs.
LEMMA KeysAlways == Spec => [](which = "keys" => Keys!KeysInv)
<1>1. Init => (which = "keys" => Keys!KeysInv)
    BY Assumptions, KeysStart DEF Init
<1>2. (which = "keys" => Keys!KeysInv) /\ [Next]_vars => (which = "keys" => Keys!KeysInv)'
    BY Assumptions, KeysStep, KeysStays DEF Next, vars, keyVars
<1> QED BY <1>1, <1>2, PTL DEF Spec

LEMMA MigrationAlways == Spec => [](which = "migration" => Migration!MigrationInv)
<1>1. Init => (which = "migration" => Migration!MigrationInv)
    BY Assumptions, MigrationStart DEF Init
<1>2. (which = "migration" => Migration!MigrationInv) /\ [Next]_vars
          => (which = "migration" => Migration!MigrationInv)'
    BY MigrationStep, MigrationStays DEF Next, vars, migrationVars
<1> QED BY <1>1, <1>2, PTL DEF Spec

LEMMA AlertsAlways == Spec => [](which = "alerts" => Alerts!AlertsInv)
<1>1. Init => (which = "alerts" => Alerts!AlertsInv)
    BY AlertsStart DEF Init
<1>2. (which = "alerts" => Alerts!AlertsInv) /\ [Next]_vars => (which = "alerts" => Alerts!AlertsInv)'
    BY AlertsStep, AlertsStays DEF Next, vars, alertVars
<1> QED BY <1>1, <1>2, PTL DEF Spec

LEMMA AccountsAlways == Spec => [](which = "accounts" => Accounts!AccountsInv)
<1>1. Init => (which = "accounts" => Accounts!AccountsInv)
    BY Assumptions, AccountsStart DEF Init
<1>2. (which = "accounts" => Accounts!AccountsInv) /\ [Next]_vars
          => (which = "accounts" => Accounts!AccountsInv)'
    BY AccountsStep, AccountsStays DEF Next, vars, accountVars
<1> QED BY <1>1, <1>2, PTL DEF Spec

\* CachesFollow: for any numbers of keys, requests and chats, a token of the key that signs
\* is accepted by every request that has looked for its key, the cache of keys never goes
\* back to an older key for a request that fetched before another, and the list of chats in
\* memory is the table's unless a refresh of it failed or was overtaken
\* (shared/pkg/auth, notification/pkg/service).
THEOREM CachesFollowHolds == Spec => CachesFollow
<1>1. /\ which = "keys" => Keys!KeysInv
      /\ which = "alerts" => Alerts!AlertsInv
      => /\ which = "keys" => Keys!CurrentTokenIsAccepted
         /\ which = "alerts" => Alerts!CacheFollowsTable
    BY DEF Keys!KeysInv, Alerts!AlertsInv
<1>2. (which = "keys" => Keys!KeysInv) /\ [Next]_vars
          => [which = "keys" => Keys!CacheMovesForwardStep]_vars
    BY Assumptions, KeysStep DEF Next
<1> QED BY <1>1, <1>2, KeysAlways, AlertsAlways, PTL DEF Spec, CachesFollow

\* WithdrawnIsRefused: for any number of logins, tokens and chats, an account that is locked
\* answers no login, a token of a key that the service has seen rotated out is refused, and
\* no alert goes to a chat that was removed, once the list in memory is the table's again
\* (auth/pkg/service, shared/pkg/auth, notification/pkg/service).
THEOREM WithdrawnIsRefusedHolds == Spec => WithdrawnIsRefused
<1>1. /\ which = "keys" => Keys!KeysInv
      /\ which = "alerts" => Alerts!AlertsInv
      /\ which = "accounts" => Accounts!AccountsInv
      /\ [Next]_vars
      => [/\ which = "accounts" => Accounts!LockHoldsStep
          /\ which = "keys" => Keys!RotatedOutIsRefusedStep
          /\ which = "alerts" => Alerts!RemovedChatIsSilentStep]_vars
    BY Assumptions, AccountsStep, KeysStep, AlertsStep DEF Next
<1> QED BY <1>1, KeysAlways, AlertsAlways, AccountsAlways, PTL DEF Spec, WithdrawnIsRefused

\* RightsSurvive: for any number of persons, of starts that run beside each other and of
\* crashes between two statements, no step of the migration takes a right from anybody, no
\* role's name is left once auth serves, and a start that no other runs beside succeeds
\* (auth/pkg/infra/pg/migrate.go).
THEOREM RightsSurviveHolds == Spec => RightsSurvive
<1>1. (which = "migration" => Migration!MigrationInv)
          => (which = "migration" => Migration!NoRoleIsServed /\ Migration!AloneAStartSucceeds)
    BY MigrationServes DEF Migration!NoRoleIsServed, Migration!MigrationInv
<1>2. (which = "migration" => Migration!MigrationInv) /\ [Next]_vars
          => [which = "migration" => Migration!RightsSurviveStep]_vars
    BY MigrationStep DEF Next
<1> QED BY <1>1, <1>2, MigrationAlways, PTL DEF Spec, RightsSurvive

LEMMA BotStays ==
    ASSUME TelegramBot!BotInv, UNCHANGED botVars
    PROVE  TelegramBot!BotInv'
<1>1. UNCHANGED <<botSubs, bot, botOffset, batch, confirmed, handled>>
    BY DEF botVars
<1>2. TelegramBot!TableOK' /\ TelegramBot!UpdatesAreNotLost'
    BY <1>1 DEF TelegramBot!BotInv, TelegramBot!TableOK, TelegramBot!UpdatesAreNotLost
<1>3. \A n : TelegramBot!Begun(n)' <=> TelegramBot!Begun(n)
    BY <1>1 DEF TelegramBot!Begun
<1> QED BY <1>1, <1>2, <1>3 DEF TelegramBot!BotInv

LEMMA BotAlways == Spec => [](which = "bot" => TelegramBot!BotInv)
<1>1. Init => (which = "bot" => TelegramBot!BotInv)
    BY Assumptions, BotStart DEF Init
<1>2. (which = "bot" => TelegramBot!BotInv) /\ [Next]_vars => (which = "bot" => TelegramBot!BotInv)'
    BY Assumptions, BotStep, BotStays DEF Next, vars, botVars
<1> QED BY <1>1, <1>2, PTL DEF Spec

LEMMA CouponsAlways == Spec => [](which = "coupons" => Coupons!CouponsInv)
<1>1. Init => (which = "coupons" => Coupons!CouponsInv)
    BY CouponsStart DEF Init
<1>2. (which = "coupons" => Coupons!CouponsInv) /\ [Next]_vars
          => (which = "coupons" => Coupons!CouponsInv)'
    BY Assumptions, CouponsStep, CouponsStay DEF Next, vars, couponVars
<1> QED BY <1>1, <1>2, PTL DEF Spec

LEMMA StoresAlways == Spec => [](which = "stores" => OrderStores!StoresInv)
<1>1. Init => (which = "stores" => OrderStores!StoresInv)
    BY Assumptions, StoresStart DEF Init
<1>2. (which = "stores" => OrderStores!StoresInv) /\ [Next]_vars
          => (which = "stores" => OrderStores!StoresInv)'
    BY Assumptions, StoresStep, StoresStays DEF Next, vars, storeVars
<1> QED BY <1>1, <1>2, PTL DEF Spec

\* ChangesAreTold: for any numbers of accounts, orders and messages, an account that is gone
\* is announced, the last event of an order carries the status its row has, and Telegram
\* drops a message to the bot only once it was handled, however often the bot restarts
\* (auth/pkg/service, order/pkg/infra/pg/repository.go, notification/pkg/infra/telegram).
THEOREM ChangesAreToldHolds == Spec => []ChangesAreTold
<1>1. /\ which = "accounts" => Accounts!AccountsInv
      /\ which = "stores" => OrderStores!StoresInv
      /\ which = "bot" => TelegramBot!BotInv
      => ChangesAreTold
    BY StoresSay DEF ChangesAreTold, Accounts!AccountsInv, TelegramBot!BotInv
<1> QED BY <1>1, AccountsAlways, StoresAlways, BotAlways, PTL

LEMMA ProfileAlways == Spec => [](which = "profile" => Profile!ProfileInv)
<1>1. Init => (which = "profile" => Profile!ProfileInv)
    BY Assumptions, ProfileStart DEF Init
<1>2. (which = "profile" => Profile!ProfileInv) /\ [Next]_vars
          => (which = "profile" => Profile!ProfileInv)'
    BY Assumptions, ProfileStep, ProfileStays DEF Next, vars, profileVars
<1> QED BY <1>1, <1>2, PTL DEF Spec

\* RowsFollowRequests: for any numbers of accounts, addresses, coupons and requests beside
\* each other, the row of an account is what its logins and the staff made it, the address
\* book and the profile are what the requests asked for and within the limit, unless two
\* requests overlapped, and a coupon is redeemed as it was offered and stays deleted
\* (auth/pkg/service, profile/pkg/service, product/pkg/service).
THEOREM RowsFollowRequestsHolds == Spec => []RowsFollowRequests
<1>1. /\ which = "accounts" => Accounts!AccountsInv
      /\ which = "profile" => Profile!ProfileInv
      /\ which = "coupons" => Coupons!CouponsInv
      => RowsFollowRequests
    BY Assumptions, ProfileSay, CouponsSay DEF RowsFollowRequests, Accounts!AccountsInv
<1> QED BY <1>1, AccountsAlways, ProfileAlways, CouponsAlways, PTL

LEMMA SearchAlways == Spec => [](which = "search" => Search!SearchInv)
<1>1. Init => (which = "search" => Search!SearchInv)
    BY SearchStart DEF Init
<1>2. (which = "search" => Search!SearchInv) /\ [Next]_vars
          => (which = "search" => Search!SearchInv)'
    BY Assumptions, SearchStep, SearchStays DEF Next, vars, searchVars
<1> QED BY <1>1, <1>2, PTL DEF Spec

\* PagesCoverMatches: for any set of products, query and limit, whoever turns the pages until
\* the total is reached has seen every match once, if no product changed meanwhile
\* (product/pkg/infra/pg/product_store.go, product/pkg/service/product_search_service.go).
THEOREM PagesCoverMatchesHolds == Spec => []PagesCoverMatches
<1>1. (which = "search" => Search!SearchInv) => PagesCoverMatches
    BY Assumptions, SearchSays DEF PagesCoverMatches
<1> QED BY <1>1, SearchAlways, PTL

\* StoresAgree: for any products, orders, keys and sessions, the stores in memory answer as
\* Postgres does: their comparison orders the matches in the one way that the database does,
\* orders are the same row by row, and so are sessions until their time is over; a key
\* keeps its order, and a shipped order its payment (product and order, pkg/infra/memory
\* and pkg/infra/pg).
THEOREM StoresAgreeHolds == Spec => StoresAgree
<1>1. /\ which = "search" => Search!SearchInv
      /\ which = "stores" => OrderStores!StoresInv
      => /\ which = "search" => Search!StoresAgree
         /\ which = "stores" => OrderStores!OrdersAgree /\ OrderStores!SessionsAgree
    BY Assumptions, SearchAgrees, StoresSay
<1>2. (which = "stores" => OrderStores!StoresInv) /\ [Next]_vars
      => [which = "stores" =>
              OrderStores!OneOrderPerKeyStep /\ OrderStores!ShipKeepsPaymentStep]_vars
    BY Assumptions, StoresStep DEF Next
<1> QED BY <1>1, <1>2, SearchAlways, StoresAlways, PTL DEF Spec, StoresAgree

-----------------------------------------------------------------------------
(* The types that the invariants contain *)

LEMMA AtMostOne ==
    ASSUME NEW S, \A x, y \in S : x = y
    PROVE  Cardinality(S) <= 1
<1>1. CASE S = {}
    BY <1>1, FS_EmptySet
<1>2. CASE S # {}
    <2>1. PICK x \in S : S = {x}
        BY <1>2
    <2> QED BY <2>1, FS_Singleton
<1> QED BY <1>1, <1>2

LEMMA KeysTypes ==
    ASSUME Keys!KeysInv
    PROVE  Keys!TypeOK
<1>1. /\ signers \in Seq(Thing) /\ Len(signers) \in Keys!Key
      /\ cachedKeys = Keys!NoKeys \/ \E n \in 1..Len(signers) : cachedKeys = Keys!StoreKey(n)
      /\ tokenReq \in [Request -> [stage : {"idle", "missed", "leading", "waiting", "again",
                                            "accepted", "refused", "guest"},
                                   token : Keys!Token \cup {Keys!NoToken},
                                   doc : Keys!Unanswered..Keys!Broken, led : BOOLEAN]]
      /\ \A q, r \in Keys!Leading : q = r
    BY DEF Keys!KeysInv, Keys!KeyTypes
<1>2. /\ DOMAIN cachedKeys \subseteq Thing /\ Keys!Range(cachedKeys) \subseteq 1..Len(signers)
      /\ \A k \in DOMAIN cachedKeys : signers[cachedKeys[k]] = k
      /\ \A j, k \in DOMAIN cachedKeys : j = k
    <2>1. CASE DOMAIN cachedKeys = {}
        BY <2>1 DEF Keys!Range
    <2>2. CASE /\ Keys!Newest \in 1..Len(signers)
               /\ DOMAIN cachedKeys = {signers[Keys!Newest]}
               /\ cachedKeys[signers[Keys!Newest]] = Keys!Newest
        <3>1. signers[Keys!Newest] \in Thing
            BY <1>1, <2>2
        <3>2. Keys!Range(cachedKeys) = {Keys!Newest}
            BY <2>2 DEF Keys!Range
        <3> QED BY <2>2, <3>1, <3>2
    <2>3. Keys!KeyTypes
        BY DEF Keys!KeysInv
    <2> QED BY <2>1, <2>2, <2>3, KeysNow
<1>3. Cardinality(DOMAIN cachedKeys) <= 1
    BY <1>2, AtMostOne
<1>4. Cardinality(Keys!Leading) <= 1
    BY <1>1, AtMostOne
<1>5. \A S : Keys!Cardinality(S) = Cardinality(S)
    BY DEF Keys!Cardinality, Cardinality
<1>6. /\ Keys!Cardinality(DOMAIN cachedKeys) <= 1
      /\ Keys!Cardinality({r \in Request : tokenReq[r].stage = "leading"}) <= 1
    BY <1>3, <1>4, <1>5 DEF Keys!Leading
<1> QED BY <1>1, <1>2, <1>6 DEF Keys!TypeOK

LEMMA CatalogAlways == Spec => [](which = "catalog" => Catalog!CatalogInv)
<1>1. Init => (which = "catalog" => Catalog!CatalogInv)
    BY Assumptions, CatalogStart DEF Init
<1>2. (which = "catalog" => Catalog!CatalogInv) /\ [Next]_vars
          => (which = "catalog" => Catalog!CatalogInv)'
    BY Assumptions, CatalogStep, CatalogStays DEF Next, vars, catalogVars
<1> QED BY <1>1, <1>2, PTL DEF Spec

\* TablesOK: for any numbers of requests, ids and rows, every component's tables keep their
\* types, and in the catalog no row names one that is gone, brand, style and color name one
\* variant, which has a stock row from the start, and only the deletion of its product takes
\* that row from under a reservation (product/pkg/infra/pg, and the other components' stores).
THEOREM TablesOKHolds == Spec => []TablesOK
<1>1. /\ which = "accounts" => Accounts!AccountsInv
      /\ which = "profile" => Profile!ProfileInv
      /\ which = "keys" => Keys!KeysInv
      /\ which = "migration" => Migration!MigrationInv
      /\ which = "bot" => TelegramBot!BotInv
      /\ which = "alerts" => Alerts!AlertsInv
      /\ which = "stores" => OrderStores!StoresInv
      /\ which = "catalog" => Catalog!CatalogInv
      => TablesOK
    <2>1. Migration!MigrationInv => Migration!TypeOK
        BY DEF Migration!MigrationInv
    <2>2. Alerts!AlertsInv => Alerts!TableOK
        BY DEF Alerts!AlertsInv
    <2>3. TelegramBot!BotInv => TelegramBot!TypeOK
        BY DEF TelegramBot!BotInv, TelegramBot!TypeOK
    <2>4. Profile!ProfileInv => Profile!TypeOK
        BY Assumptions, ProfileSay
    <2> QED BY <2>1, <2>2, <2>3, <2>4, AccountsTypes, KeysTypes, StoresSay, CatalogSays DEF TablesOK
<1> QED BY <1>1, AccountsAlways, ProfileAlways, KeysAlways, MigrationAlways, BotAlways,
           AlertsAlways, StoresAlways, CatalogAlways, PTL
=============================================================================
