------------------------- MODULE AccessTokenVerifier -------------------------
(***************************************************************************)
(* Verification of access tokens (internal/accesstoken/verifier.go).       *)
(*                                                                         *)
(* Concurrent Verify calls share two caches filled from the authorization  *)
(* server (AS): its JWK Set, whose stale copy is used when a refetch       *)
(* fails, and its denylist of revoked jtis, whose stale copy is not.  The  *)
(* mutex is held across a fetch.  The AS publishes and withdraws keys and  *)
(* revokes tokens meanwhile; it is not under src/ and is modelled by the   *)
(* two documents the verifier reads.                                       *)
(*                                                                         *)
(* A fetch is three events: the request is sent, the AS composes its       *)
(* answer, the answer arrives, all within the HTTP client's timeout.  Time *)
(* is discrete, and an expiry time is modelled by the time left to it.     *)
(***************************************************************************)
EXTENDS Integers

CONSTANTS Calls,        \* goroutines that may be inside Verify
          Tokens,       \* the access tokens presented: [jti, key, shape] records
          Keys,         \* the AS's signing keys, over time
          KeysTTL,      \* jwksCacheTTL
          RevokedTTL,   \* revokedCacheTTL
          HTTPTimeout,  \* http.Client.Timeout
          NoCall,       \* mu is free
          NoKeys        \* v.keys = nil

ASSUME TimesAssumption ==
  KeysTTL \in Nat \ {0} /\ RevokedTTL \in Nat \ {0} /\ HTTPTimeout \in Nat
ASSUME NoCallAssumption == NoCall \notin Calls

\* What is wrong with a token besides its key and its revocation, in the order in
\* which Verify would notice.
Shapes == {"badTyp", "badClaims", "noJTI", "notBound", "ok"}
JTIs   == {t.jti : t \in Tokens}

VARIABLES
  asKeys, asRevoked,    \* the AS: keys and denylist it publishes now
  keyGoneFor,           \* history: 0, or 1 + the time since the key was withdrawn
  revFor,               \* history: time since the jti was revoked
  mu,                   \* the call holding v.mu
  keys, keysLeft,       \* v.keys, v.keysExp - now (0: not before it)
  revoked, revokedLeft, \* v.revoked, v.revokedExp - now (-1: after it)
  pc, token,            \* each call's control and its token
  resp, sentFor,        \* the AS's answer on its way, time since the request
  keysUsed, keysFailed, \* the JWK Set the call got, and whether its fetch failed
  mustReject,           \* history: jtis already reported revoked when it started
  reportedRevoked       \* history: jtis some call was refused for

asVars    == <<asKeys, asRevoked, keyGoneFor, revFor>>
cacheVars == <<keys, keysLeft, revoked, revokedLeft>>
callVars  == <<pc, token, resp, sentFor, keysUsed, keysFailed, mustReject>>
vars == <<asVars, mu, cacheVars, callVars, reportedRevoked>>

KeysBound    == KeysTTL + HTTPTimeout
RevokedBound == RevokedTTL + HTTPTimeout

Done == {"idle", "accepted", "rejected", "unavailable"}
Labels == Done \cup {"keysLock", "keysSent", "keysGot", "check", "revLock", "revSent", "revGot"}
Fetching(c) == pc[c] \in {"keysSent", "keysGot", "revSent", "revGot"}

TypeOK ==
  /\ asKeys \subseteq Keys /\ asRevoked \subseteq JTIs
  /\ keyGoneFor \in [Keys -> 0..(KeysBound + 1)]
  /\ revFor \in [JTIs -> 0..(RevokedBound + 1)]
  /\ mu \in Calls \cup {NoCall}
  /\ keys \in (SUBSET Keys) \cup {NoKeys} /\ keysLeft \in 0..KeysTTL
  /\ revoked \subseteq JTIs /\ revokedLeft \in -1..RevokedTTL
  /\ pc \in [Calls -> Labels]
  /\ token \in [Calls -> Tokens]
  /\ resp \in [Calls -> (SUBSET Keys) \cup (SUBSET JTIs)]
  /\ \A c \in Calls : \/ pc[c] = "keysGot" /\ resp[c] \subseteq Keys
                      \/ pc[c] = "revGot" /\ resp[c] \subseteq JTIs
                      \/ resp[c] = {}
  /\ sentFor \in [Calls -> 0..HTTPTimeout]
  /\ keysUsed \in [Calls -> SUBSET Keys]
  /\ keysFailed \in [Calls -> BOOLEAN]
  /\ mustReject \in [Calls -> SUBSET JTIs]
  /\ reportedRevoked \subseteq JTIs

Init ==
  /\ asKeys \in SUBSET Keys
  /\ asRevoked = {}
  /\ keyGoneFor = [k \in Keys |-> 0]
  /\ revFor = [j \in JTIs |-> 0]
  /\ mu = NoCall
  /\ keys = NoKeys /\ keysLeft = 0
  /\ revoked = {} /\ revokedLeft = -1
  /\ pc = [c \in Calls |-> "idle"]
  /\ token \in [Calls -> Tokens]
  /\ resp = [c \in Calls |-> {}]
  /\ sentFor = [c \in Calls |-> 0]
  /\ keysUsed = [c \in Calls |-> {}]
  /\ keysFailed = [c \in Calls |-> FALSE]
  /\ mustReject = [c \in Calls |-> {}]
  /\ reportedRevoked = {}

-----------------------------------------------------------------------------
(* Verify: first the JWK Set.                                              *)

VerifyStart(c, t) ==
  /\ pc[c] \in Done
  /\ pc' = [pc EXCEPT ![c] = "keysLock"]
  /\ token' = [token EXCEPT ![c] = t]
  /\ mustReject' = [mustReject EXCEPT ![c] = reportedRevoked]
  /\ UNCHANGED <<asVars, mu, cacheVars, resp, sentFor, keysUsed, keysFailed, reportedRevoked>>

KeysFresh == keys # NoKeys /\ keysLeft > 0

\* keySet returned ks; failed says whether a fetch was tried in vain.
HaveKeys(c, ks, failed) ==
  /\ pc' = [pc EXCEPT ![c] = "check"]
  /\ keysUsed' = [keysUsed EXCEPT ![c] = ks]
  /\ keysFailed' = [keysFailed EXCEPT ![c] = failed]

KeysCached(c) ==
  /\ pc[c] = "keysLock"
  /\ mu = NoCall
  /\ KeysFresh
  /\ HaveKeys(c, keys, FALSE)
  /\ UNCHANGED <<asVars, mu, cacheVars, token, resp, sentFor, mustReject, reportedRevoked>>

\* Variant: the mutex is not held while the fetch is under way.
SendRequest_Unlocked(c, label) ==
  /\ mu = NoCall
  /\ pc' = [pc EXCEPT ![c] = label]
  /\ sentFor' = [sentFor EXCEPT ![c] = 0]
  /\ UNCHANGED <<asVars, mu, cacheVars, token, resp, keysUsed, keysFailed, mustReject,
                 reportedRevoked>>

\* The mutex is taken, the request sent, and the mutex kept.
SendRequest(c, label) ==
  /\ mu = NoCall
  /\ mu' = c
  /\ pc' = [pc EXCEPT ![c] = label]
  /\ sentFor' = [sentFor EXCEPT ![c] = 0]
  /\ UNCHANGED <<asVars, cacheVars, token, resp, keysUsed, keysFailed, mustReject,
                 reportedRevoked>>

FetchKeys(c) == pc[c] = "keysLock" /\ ~KeysFresh /\ SendRequest(c, "keysSent")

\* The AS composes its answer: what it publishes at this moment.
ASAnswer(c) ==
  /\ \/ /\ pc[c] = "keysSent"
        /\ pc' = [pc EXCEPT ![c] = "keysGot"]
        /\ resp' = [resp EXCEPT ![c] = asKeys]
     \/ /\ pc[c] = "revSent"
        /\ pc' = [pc EXCEPT ![c] = "revGot"]
        /\ resp' = [resp EXCEPT ![c] = asRevoked]
  /\ UNCHANGED <<asVars, mu, cacheVars, token, sentFor, keysUsed, keysFailed, mustReject,
                 reportedRevoked>>

\* The fetch is over: the deferred Unlock, and the answer is consumed.
EndFetch(c) ==
  /\ mu' = IF mu = c THEN NoCall ELSE mu
  /\ resp' = [resp EXCEPT ![c] = {}]
  /\ sentFor' = [sentFor EXCEPT ![c] = 0]

KeysArrive(c) ==
  /\ pc[c] = "keysGot"
  /\ keys' = resp[c]
  /\ keysLeft' = KeysTTL
  /\ HaveKeys(c, resp[c], FALSE)
  /\ EndFetch(c)
  /\ UNCHANGED <<asVars, revoked, revokedLeft, token, mustReject, reportedRevoked>>

\* Variant: a failed refetch renews the lifetime of the keys it falls back to.
KeysFetchFails_Renews(c) ==
  /\ pc[c] \in {"keysSent", "keysGot"}
  /\ IF keys # NoKeys
     THEN HaveKeys(c, keys, TRUE) /\ keysLeft' = KeysTTL
     ELSE /\ pc' = [pc EXCEPT ![c] = "unavailable"]
          /\ UNCHANGED <<keysUsed, keysFailed, keysLeft>>
  /\ EndFetch(c)
  /\ UNCHANGED <<asVars, keys, revoked, revokedLeft, token, mustReject, reportedRevoked>>

\* No answer in time, an error status or an unreadable body: use the stale keys,
\* if there are any.
KeysFetchFails(c) ==
  /\ pc[c] \in {"keysSent", "keysGot"}
  /\ IF keys # NoKeys
     THEN HaveKeys(c, keys, TRUE)
     ELSE /\ pc' = [pc EXCEPT ![c] = "unavailable"]
          /\ UNCHANGED <<keysUsed, keysFailed>>
  /\ EndFetch(c)
  /\ UNCHANGED <<asVars, cacheVars, token, mustReject, reportedRevoked>>

-----------------------------------------------------------------------------
(* Then the token's own checks, and the denylist.                          *)

\* requireAccessTokenType, jwt.Parse against the key set, and the jti.
Verifies(t, ks) == t.key \in ks /\ t.shape \notin {"badTyp", "badClaims", "noJTI"}

CheckToken(c) ==
  /\ pc[c] = "check"
  /\ pc' = [pc EXCEPT ![c] = IF Verifies(token[c], keysUsed[c]) THEN "revLock" ELSE "rejected"]
  /\ keysUsed' = [keysUsed EXCEPT ![c] = {}]
  /\ keysFailed' = [keysFailed EXCEPT ![c] = FALSE]
  /\ UNCHANGED <<asVars, mu, cacheVars, token, resp, sentFor, mustReject, reportedRevoked>>

\* ! time.Now().After(v.revokedExp)
RevokedFresh == revokedLeft >= 0

\* The verdict under denylist d, then the cnf.jkt check.
Decide(c, d) ==
  IF token[c].jti \in d
  THEN /\ pc' = [pc EXCEPT ![c] = "rejected"]
       /\ reportedRevoked' = reportedRevoked \cup {token[c].jti}
  ELSE /\ pc' = [pc EXCEPT ![c] = IF token[c].shape = "notBound" THEN "rejected"
                                                                 ELSE "accepted"]
       /\ UNCHANGED reportedRevoked

RevokedCached(c) ==
  /\ pc[c] = "revLock"
  /\ mu = NoCall
  /\ RevokedFresh
  /\ Decide(c, revoked)
  /\ UNCHANGED <<asVars, mu, cacheVars, token, resp, sentFor, keysUsed, keysFailed, mustReject>>

FetchRevoked(c) == pc[c] = "revLock" /\ ~RevokedFresh /\ SendRequest(c, "revSent")

RevokedArrives(c) ==
  /\ pc[c] = "revGot"
  /\ revoked' = resp[c]
  /\ revokedLeft' = RevokedTTL
  /\ Decide(c, resp[c])
  /\ EndFetch(c)
  /\ UNCHANGED <<asVars, keys, keysLeft, token, keysUsed, keysFailed, mustReject>>

\* Variant: an unreachable AS is tolerated, as it is for the keys.
RevokedFetchFails_Tolerated(c) ==
  /\ pc[c] \in {"revSent", "revGot"}
  /\ Decide(c, revoked)
  /\ EndFetch(c)
  /\ UNCHANGED <<asVars, cacheVars, token, keysUsed, keysFailed, mustReject>>

\* Variant: the error return leaves the mutex locked.
RevokedFetchFails_KeepsLock(c) ==
  /\ pc[c] \in {"revSent", "revGot"}
  /\ pc' = [pc EXCEPT ![c] = "unavailable"]
  /\ resp' = [resp EXCEPT ![c] = {}]
  /\ sentFor' = [sentFor EXCEPT ![c] = 0]
  /\ UNCHANGED <<asVars, mu, cacheVars, token, keysUsed, keysFailed, mustReject, reportedRevoked>>

\* Fail closed.
RevokedFetchFails(c) ==
  /\ pc[c] \in {"revSent", "revGot"}
  /\ pc' = [pc EXCEPT ![c] = "unavailable"]
  /\ EndFetch(c)
  /\ UNCHANGED <<asVars, cacheVars, token, keysUsed, keysFailed, mustReject, reportedRevoked>>

-----------------------------------------------------------------------------
(* The environment.                                                        *)

ASPublishKey(k) ==
  /\ k \notin asKeys /\ keyGoneFor[k] = 0
  /\ asKeys' = asKeys \cup {k}
  /\ UNCHANGED <<asRevoked, keyGoneFor, revFor, mu, cacheVars, callVars, reportedRevoked>>

\* A key is withdrawn for good.
ASWithdrawKey(k) ==
  /\ k \in asKeys
  /\ asKeys' = asKeys \ {k}
  /\ keyGoneFor' = [keyGoneFor EXCEPT ![k] = 1]
  /\ UNCHANGED <<asRevoked, revFor, mu, cacheVars, callVars, reportedRevoked>>

\* A jti stays published: the AS may drop it once its token has expired, and tokens
\* do not expire here.
ASRevoke(j) ==
  /\ j \notin asRevoked
  /\ asRevoked' = asRevoked \cup {j}
  /\ UNCHANGED <<asKeys, keyGoneFor, revFor, mu, cacheVars, callVars, reportedRevoked>>

\* The process restarts: cold caches, no calls.
Restart ==
  /\ mu' = NoCall
  /\ keys' = NoKeys /\ keysLeft' = 0
  /\ revoked' = {} /\ revokedLeft' = -1
  /\ pc' = [c \in Calls |-> "idle"]
  /\ resp' = [c \in Calls |-> {}]
  /\ sentFor' = [c \in Calls |-> 0]
  /\ keysUsed' = [c \in Calls |-> {}]
  /\ keysFailed' = [c \in Calls |-> FALSE]
  /\ mustReject' = [c \in Calls |-> {}]
  /\ UNCHANGED <<asVars, token, reportedRevoked>>

\* A fetch never outlives the client's timeout, and a running call does not wait
\* between steps that involve no lock and no network.
Tick ==
  /\ \A c \in Calls : Fetching(c) => sentFor[c] < HTTPTimeout
  /\ \A c \in Calls : pc[c] # "check"
  /\ keysLeft' = IF keysLeft = 0 THEN 0 ELSE keysLeft - 1
  /\ revokedLeft' = IF revokedLeft = -1 THEN -1 ELSE revokedLeft - 1
  /\ sentFor' = [c \in Calls |-> IF Fetching(c) THEN sentFor[c] + 1 ELSE sentFor[c]]
  /\ keyGoneFor' = [k \in Keys |-> IF keyGoneFor[k] \in 1..KeysBound
                                   THEN keyGoneFor[k] + 1 ELSE keyGoneFor[k]]
  /\ revFor' = [j \in JTIs |-> IF j \in asRevoked /\ revFor[j] <= RevokedBound
                               THEN revFor[j] + 1 ELSE revFor[j]]
  /\ UNCHANGED <<asKeys, asRevoked, mu, keys, revoked, pc, token, resp, keysUsed, keysFailed,
                 mustReject, reportedRevoked>>

-----------------------------------------------------------------------------
TakeLock(c) == KeysCached(c) \/ FetchKeys(c) \/ RevokedCached(c) \/ FetchRevoked(c)

FetchStep(c) ==
  \/ ASAnswer(c)
  \/ KeysArrive(c)
  \/ KeysFetchFails(c)
  \/ RevokedArrives(c)
  \/ RevokedFetchFails(c)

CallStep(c) == TakeLock(c) \/ FetchStep(c) \/ CheckToken(c)

Next ==
  \/ \E c \in Calls : (\E t \in Tokens : VerifyStart(c, t)) \/ CallStep(c)
  \/ \E k \in Keys : ASPublishKey(k) \/ ASWithdrawKey(k)
  \/ \E j \in JTIs : ASRevoke(j)
  \/ Restart
  \/ Tick

Spec == Init /\ [][Next]_vars

\* A call that can run does; the HTTP client's timeout ends every fetch; and
\* sync.Mutex does not pass a waiter over forever.
FairSpec == Spec /\ \A c \in Calls : WF_vars(CallStep(c)) /\ SF_vars(TakeLock(c))

-----------------------------------------------------------------------------
(* Properties.                                                             *)

\* A token that the AS revoked is accepted no later than the cache lifetime plus
\* one fetch after its revocation, whatever the AS's outages, because a denylist
\* that cannot be refreshed refuses the request.
RevocationBounded ==
  [][\A c \in Calls : pc[c] # "accepted" /\ pc'[c] = "accepted" =>
       revFor[token[c].jti] <= RevokedBound]_vars

\* Once one request was refused because its token is revoked, no request that
\* starts later is let through with that token: a fetch cannot put an older
\* denylist in place of a newer one.
RefusalIsFinal ==
  \A c \in Calls : pc[c] = "accepted" => token[c].jti \notin mustReject[c]

\* A signature is checked against a key that the AS withdrew the cache lifetime
\* plus one fetch ago, or earlier, only by a call whose own refetch failed: the
\* tolerance for an outage never outlasts the outage.
StaleKeysOnlyInOutage ==
  \A c \in Calls : pc[c] = "check" /\ ~keysFailed[c] =>
    \A k \in keysUsed[c] : keyGoneFor[k] <= KeysBound

\* Every Verify returns, although calls queue on a mutex held across fetches.
VerifyReturns == \A c \in Calls : (pc[c] \notin Done) ~> (pc[c] \in Done)
=============================================================================
