--------------------------------- MODULE Keys ---------------------------------
(* The signing keys of the access tokens, between auth, which holds the        *)
(* private key (auth/pkg/infra/jwt, auth/pkg/bootstrap), and one service that  *)
(* checks tokens with the public keys it fetched                               *)
(* (shared/pkg/authjwt, shared/pkg/authmiddleware).                            *)
(*                                                                             *)
(* Auth has one key pair at a time and changes it by being started again with  *)
(* another key: key n is the n-th it was started with, and signers[n] the key  *)
(* id it was published under.  A token is the key that signed it and its       *)
(* type; a request without the header carries token NoToken.                   *)
EXTENDS Naturals, Sequences, FiniteSets, Functions

CONSTANTS KeyId,        \* JWT_KEY_ID: "default" unless it is set
          MaxKey,       \* bound: times auth is started
          Request       \* requests to the service at one time

KeysAssumption == MaxKey \in Nat \ {0} /\ KeyId # {}

VARIABLES signers,      \* auth: the key ids, of the current key last
          keys,         \* service: JWKSValidator.keys, from key id to key
          req           \* service: the requests

vars == <<signers, keys, req>>

Key == 1 .. MaxKey
NoKeys == [k \in {} |-> 0]
NoToken == [key |-> 0, type |-> "none"]
\* "old" is an access token past its expiry.
Token == [key : Key, type : {"access", "refresh", "old"}]
Unanswered == 0         \* no JWKS document yet
Broken == MaxKey + 1    \* the fetch failed

\* One request: doc is the key of the document its fetch returned, led whether
\* that fetch was its own.
Idle == [stage |-> "idle", token |-> NoToken, doc |-> Unanswered, led |-> FALSE]

TypeOK ==
    /\ signers \in Seq(KeyId) /\ Len(signers) \in Key
    /\ DOMAIN keys \subseteq KeyId /\ Range(keys) \subseteq 1 .. Len(signers)
    /\ \A k \in DOMAIN keys : signers[keys[k]] = k
    /\ Cardinality(DOMAIN keys) <= 1
    /\ req \in [Request -> [stage : {"idle", "missed", "leading", "waiting", "again",
                                     "accepted", "refused", "guest"},
                            token : Token \cup {NoToken},
                            doc : Unanswered .. Broken, led : BOOLEAN]]
    /\ Cardinality({r \in Request : req[r].stage = "leading"}) <= 1

Init ==
    /\ signers \in {<<k>> : k \in KeyId}
    /\ keys = NoKeys
    /\ req = [r \in Request |-> Idle]

-----------------------------------------------------------------------------
(* Auth *)

\* Auth is started again with another key: a new secret, or the throwaway key
\* of a start without one.
StartAuth(kid) ==
    /\ Len(signers) < MaxKey
    /\ signers' = Append(signers, kid)
    /\ UNCHANGED <<keys, req>>

\* The tokens auth has signed.
Issued == {t \in Token : t.key <= Len(signers)}

-----------------------------------------------------------------------------
(* The service *)

\* jwt.Parse and claimsFromMap: the signature is of that key, the token has not
\* expired and is an access token.
Verify(t, key) == IF t.key = key /\ t.type = "access" THEN "accepted" ELSE "refused"

Reply(r, stage) == req' = [req EXCEPT ![r].stage = stage]

\* Gone wrong: the keys are fetched only while there are none.
FetchOnlyWhenCold(r, t) ==
    req' = [req EXCEPT ![r] = [Idle EXCEPT !.token = t,
              !.stage = IF keys = <<>> THEN "missed"
                        ELSE IF signers[t.key] \in DOMAIN keys
                        THEN Verify(t, keys[signers[t.key]]) ELSE "refused"]]

\* publicKey: the cached key of the token's key id, or else a fetch.
PublicKey(r, t) ==
    LET kid == signers[t.key] IN
    req' = [req EXCEPT ![r] = [Idle EXCEPT !.token = t,
              !.stage = IF kid \in DOMAIN keys THEN Verify(t, keys[kid]) ELSE "missed"]]

\* RequireAuth, OptionalAuth: a request without a token is let through where
\* the token is optional; one with a token is judged by it on both.
WithoutToken(r, optional) ==
    /\ req[r].stage = "idle"
    /\ Reply(r, IF optional THEN "guest" ELSE "refused")
    /\ UNCHANGED <<signers, keys>>

WithToken(r, t) ==
    /\ req[r].stage = "idle"
    /\ PublicKey(r, t)
    /\ UNCHANGED <<signers, keys>>

Leading == {q \in Request : req[q].stage = "leading"}

\* Gone wrong: each request fetches for itself.
RefreshAlone(r) ==
    /\ req[r].stage = "missed"
    /\ req' = [req EXCEPT ![r].stage = "leading", ![r].led = TRUE]
    /\ UNCHANGED <<signers, keys>>

\* refreshKeys: concurrent refreshes share one fetch.
Refresh(r) ==
    /\ req[r].stage = "missed"
    /\ req' = [req EXCEPT ![r].stage = IF Leading = {} THEN "leading" ELSE "waiting",
                          ![r].led = Leading = {}]
    /\ UNCHANGED <<signers, keys>>

\* Auth answers with its one key, or the fetch fails.
Answer(r, doc) ==
    /\ req[r].stage = "leading" /\ req[r].doc = Unanswered
    /\ req' = [req EXCEPT ![r].doc = doc]
    /\ UNCHANGED <<signers, keys>>

\* Gone wrong: the keys of the document are added to those of earlier ones.
AddKey(doc) == [k \in DOMAIN keys \cup {signers[doc]} |->
                  IF k = signers[doc] THEN doc ELSE keys[k]]

\* The document replaces every key held before.
StoreKey(doc) == [k \in {signers[doc]} |-> doc]

\* fetchAndStoreKeys has returned: everyone who shares the fetch goes on.
EndFetch(r) ==
    LET doc == req[r].doc
        shares == {q \in Request : q = r \/ req[q].stage = "waiting"} IN
    /\ req[r].stage = "leading" /\ doc # Unanswered
    /\ keys' = IF doc = Broken THEN keys ELSE StoreKey(doc)
    /\ req' = [q \in Request |-> IF q \notin shares THEN req[q]
                ELSE [req[q] EXCEPT !.doc = doc,
                        !.stage = IF doc = Broken THEN "refused" ELSE "again"]]
    /\ UNCHANGED signers

\* The second look into the cache, after the fetch.
LookAgain(r) ==
    LET t == req[r].token  kid == signers[t.key] IN
    /\ req[r].stage = "again"
    /\ Reply(r, IF kid \in DOMAIN keys THEN Verify(t, keys[kid]) ELSE "refused")
    /\ UNCHANGED <<signers, keys>>

Finish(r) ==
    /\ req[r].stage \in {"accepted", "refused", "guest"}
    /\ req' = [req EXCEPT ![r] = Idle]
    /\ UNCHANGED <<signers, keys>>

\* The service is started again: the keys and the requests are gone.
StartService ==
    /\ keys' = NoKeys
    /\ req' = [r \in Request |-> Idle]
    /\ UNCHANGED signers

Next ==
    \/ \E kid \in KeyId : StartAuth(kid)
    \/ \E r \in Request : \/ \E optional \in BOOLEAN : WithoutToken(r, optional)
                          \/ \E t \in Issued : WithToken(r, t)
                          \/ Refresh(r)
                          \/ \E doc \in {Len(signers), Broken} : Answer(r, doc)
                          \/ EndFetch(r)
                          \/ LookAgain(r)
                          \/ Finish(r)
    \/ StartService

Spec == Init /\ [][Next]_vars

-----------------------------------------------------------------------------
(* Properties *)

Newest == IF keys = <<>> THEN 0 ELSE CHOOSE n \in Range(keys) : \A m \in Range(keys) : m <= n

\* However the fetches of concurrent requests and the restarts of auth
\* interleave, a running service never goes back to a key older than one it
\* already holds.
CacheMovesForwardStep ==
    keys' = <<>> \/ Newest' >= Newest

CacheMovesForward == [][CacheMovesForwardStep]_vars

RefusedForAReason(x) ==
    LET t == x.token
        fresh == t.key = Len(signers) /\ \A n \in 1 .. t.key - 1 : signers[n] # signers[t.key]
    IN  (x.stage = "refused" /\ t.type = "access" /\ fresh)
        => x.doc = Broken \/ (~x.led /\ x.doc \in 1 .. t.key - 1)

\* A usable access token signed with auth's current key, under a key id no
\* earlier key had, is refused only when the fetch failed, or when the request
\* shared a fetch of another that auth had answered before it changed the key.
CurrentTokenIsAccepted == \A r \in Request : RefusedForAReason(req[r])

\* A token is accepted only while the service holds no key newer than the one
\* that signed it: what was rotated out, as far as the service knows, is out.
RotatedOutIsRefusedStep ==
    \A r \in Request : req'[r].stage = "accepted" /\ req[r].stage # "accepted"
                       => req'[r].token.key = Newest'

RotatedOutIsRefused == [][RotatedOutIsRefusedStep]_vars

\* What the deployment guide says of a start without a configured key: every
\* token issued before it stops validating.
OldTokensStopValidating ==
    [][\A r \in Request : req'[r].stage = "accepted" /\ req[r].stage # "accepted"
                          => req'[r].token.key = Len(signers')]_vars

-----------------------------------------------------------------------------
(* The inductive invariant of the proofs, in parts. *)

KeyTypes ==
    /\ signers \in Seq(KeyId) /\ Len(signers) \in Key
    /\ keys = NoKeys \/ \E n \in 1 .. Len(signers) : keys = StoreKey(n)
    /\ req \in [Request -> [stage : {"idle", "missed", "leading", "waiting", "again",
                                     "accepted", "refused", "guest"},
                            token : Token \cup {NoToken},
                            doc : Unanswered .. Broken, led : BOOLEAN]]

\* One fetch runs at a time.  What auth answered to it is no older than what the service
\* holds, and no older than the token of the request that fetches for itself.
FetchOK(x) ==
    /\ x.stage = "idle" => x = Idle
    /\ x.stage \in {"missed", "leading", "waiting", "again"} => x.token # NoToken
    /\ x.token.key <= Len(signers)
    /\ x.doc \in 0 .. Len(signers) \cup {Broken}
    /\ x.stage \in {"missed", "waiting"} => x.doc = Unanswered /\ ~x.led
    /\ x.stage = "leading" => x.led
    /\ x.led /\ x.doc # Unanswered => x.doc >= x.token.key
    /\ x.stage = "leading" /\ x.doc # Unanswered => x.doc >= Newest
    /\ x.stage = "again" => x.doc \in 1 .. Newest

KeysInv ==
    /\ KeyTypes /\ CurrentTokenIsAccepted
    /\ \A q, r \in Leading : q = r
    /\ \A r \in Request : FetchOK(req[r])
=============================================================================
