--------------------------- MODULE StatusListToken ---------------------------
(***************************************************************************)
(* Serving and revoking through the Token Status List                      *)
(* (internal/issuance/service.go: GetStatusListToken, RevokeCredential).   *)
(*                                                                         *)
(* GET /status-list handlers share one cached signed token.  A handler     *)
(* holds statusCacheMu from the cache check until it has loaded the        *)
(* entries, had the token signed (a network call with the remote key) and  *)
(* stored it.  A revocation writes the store first, without the mutex, and *)
(* clears the cache afterwards, under the mutex.  Issuance adds entries    *)
(* meanwhile, and the process may restart at any point.                    *)
(*                                                                         *)
(* Time is discrete: Tick is one time unit.  statusCacheExp is modelled by *)
(* the time left until it, so that no clock value needs a bound.           *)
(***************************************************************************)
EXTENDS Integers

CONSTANTS Records,    \* issuance records
          Getters,    \* GET /status-list/pid handlers
          Revokers,   \* POST /issuances/{id}/revoke handlers
          TTL,        \* statusListCacheTTL
          MaxSign,    \* bound on the time AllEntries and signing take together
          NoHolder,   \* statusCacheMu is free
          NoToken     \* statusCacheToken = ""

ASSUME TTLAssumption == TTL \in Nat \ {0}
ASSUME MaxSignAssumption == MaxSign \in Nat
ASSUME NoHolderAssumption == NoHolder \notin Getters

VARIABLES
  statusNextIdx, statusByIdx, statusByRecID,   \* the status list store
  recStatus,          \* Record.Status of each record
  statusCacheMu,      \* the handler holding the mutex
  statusCacheToken,   \* the cached token
  cacheLeft,          \* statusCacheExp - now, 0 once it has passed
  gpc, tok,           \* getters: control, and the token being built or answered
  signFor,            \* getters: time since AllEntries was called
  mustShow,           \* history: what the getter's caller already knew revoked
  rpc, rrec,          \* revokers: control and the record
  revAge,             \* history: time since the record's entry became INVALID
  knownRevoked        \* history: records whose revocation was reported to anyone

SL == INSTANCE StatusListStore

storeVars == <<statusNextIdx, statusByIdx, statusByRecID>>
cacheVars == <<statusCacheMu, statusCacheToken, cacheLeft>>
getVars   == <<gpc, tok, signFor, mustShow>>
revVars   == <<rpc, rrec>>
vars == <<storeVars, recStatus, cacheVars, getVars, revVars, revAge, knownRevoked>>

MaxAge == TTL + MaxSign + 1   \* ages are counted up to here
Tokens == {NoToken} \cup UNION {[0..(n - 1) -> SL!Statuses] : n \in 0..statusNextIdx}

TypeOK ==
  /\ SL!TypeOK
  /\ recStatus \in [Records -> {"offer_created", "credential_issued"}]
  /\ statusCacheMu \in Getters \cup {NoHolder}
  /\ statusCacheToken \in Tokens
  /\ cacheLeft \in 0..TTL
  /\ gpc \in [Getters -> {"idle", "lock", "load", "sign", "served", "failed"}]
  /\ tok \in [Getters -> Tokens]
  /\ signFor \in [Getters -> 0..MaxSign]
  /\ mustShow \in [Getters -> SUBSET Records]
  /\ rpc \in [Revokers -> {"idle", "find", "lookup", "set", "clear", "done", "failed"}]
  /\ rrec \in [Revokers -> Records]
  /\ revAge \in [Records -> 0..MaxAge]
  /\ knownRevoked \in SUBSET Records

Init ==
  /\ SL!Init
  /\ recStatus = [r \in Records |-> "offer_created"]
  /\ statusCacheMu = NoHolder
  /\ statusCacheToken = NoToken
  /\ cacheLeft = 0
  /\ gpc = [g \in Getters |-> "idle"]
  /\ tok = [g \in Getters |-> NoToken]
  /\ signFor = [g \in Getters |-> 0]
  /\ mustShow = [g \in Getters |-> {}]
  /\ rpc = [v \in Revokers |-> "idle"]
  /\ rrec \in [Revokers -> Records]
  /\ revAge = [r \in Records |-> 0]
  /\ knownRevoked = {}

\* The token shows record r as INVALID to whoever holds r's credential.
ShowsRevoked(t, r) ==
  /\ statusByRecID[r] \in DOMAIN t
  /\ t[statusByRecID[r]] = SL!StatusInvalid

EntryInvalid(r) == SL!HasEntry(r) /\ SL!StatusOf(r) = SL!StatusInvalid

-----------------------------------------------------------------------------
(* Building the token.                                                     *)

\* The loop over entries: the highest allocated idx, plus one.
ListSize(entries) ==
  IF DOMAIN entries = {}
  THEN 0
  ELSE 1 + CHOOSE m \in DOMAIN entries : \A i \in DOMAIN entries : i <= m

\* statuslist.Build over packBitstring: idx range [0,size), VALID by default.
Build(entries) ==
  [i \in 0..(ListSize(entries) - 1) |->
     IF i \in DOMAIN entries THEN entries[i] ELSE SL!StatusValid]

-----------------------------------------------------------------------------
(* GetStatusListToken.                                                     *)

GetStart(g) ==
  /\ gpc[g] \in {"idle", "served", "failed"}
  /\ gpc' = [gpc EXCEPT ![g] = "lock"]
  /\ tok' = [tok EXCEPT ![g] = NoToken]
  /\ mustShow' = [mustShow EXCEPT ![g] = knownRevoked]
  /\ UNCHANGED <<storeVars, recStatus, cacheVars, signFor, revVars, revAge, knownRevoked>>

\* The handler returns t: its client now knows what t shows.
Answer(g, t) ==
  /\ gpc' = [gpc EXCEPT ![g] = "served"]
  /\ tok' = [tok EXCEPT ![g] = t]
  /\ knownRevoked' = knownRevoked \cup {r \in Records : ShowsRevoked(t, r)}

\* Variant: the cached token is used whatever its age.
CacheFresh_NoExpiry == statusCacheToken # NoToken

CacheFresh == statusCacheToken # NoToken /\ cacheLeft > 0

\* Lock, then return the cached token (the deferred Unlock runs at once) ...
GetCached(g) ==
  /\ gpc[g] = "lock"
  /\ statusCacheMu = NoHolder
  /\ CacheFresh
  /\ Answer(g, statusCacheToken)
  /\ UNCHANGED <<storeVars, recStatus, cacheVars, signFor, mustShow, revVars, revAge>>

\* ... or keep the lock to rebuild it.
GetMiss(g) ==
  /\ gpc[g] = "lock"
  /\ statusCacheMu = NoHolder
  /\ ~CacheFresh
  /\ statusCacheMu' = g
  /\ gpc' = [gpc EXCEPT ![g] = "load"]
  /\ UNCHANGED <<storeVars, recStatus, statusCacheToken, cacheLeft, tok, signFor,
                 mustShow, revVars, revAge, knownRevoked>>

\* Variant: the handler releases the mutex while the token is being signed.
GetLoad_Unlocks(g) ==
  /\ gpc[g] = "load"
  /\ tok' = [tok EXCEPT ![g] = Build(statusByIdx)]
  /\ signFor' = [signFor EXCEPT ![g] = 0]
  /\ gpc' = [gpc EXCEPT ![g] = "sign"]
  /\ statusCacheMu' = NoHolder
  /\ UNCHANGED <<storeVars, recStatus, statusCacheToken, cacheLeft, mustShow, revVars,
                 revAge, knownRevoked>>

\* AllEntries, and the claims Build is going to sign.
GetLoad(g) ==
  /\ gpc[g] = "load"
  /\ tok' = [tok EXCEPT ![g] = Build(statusByIdx)]
  /\ signFor' = [signFor EXCEPT ![g] = 0]
  /\ gpc' = [gpc EXCEPT ![g] = "sign"]
  /\ UNCHANGED <<storeVars, recStatus, cacheVars, mustShow, revVars, revAge, knownRevoked>>

GetSigned(g) ==
  /\ gpc[g] = "sign"
  /\ statusCacheToken' = tok[g]
  /\ cacheLeft' = TTL
  /\ statusCacheMu' = NoHolder
  /\ Answer(g, tok[g])
  /\ signFor' = [signFor EXCEPT ![g] = 0]
  /\ UNCHANGED <<storeVars, recStatus, mustShow, revVars, revAge>>

\* Variant: the mutex is not released on the error path.
GetFails_KeepsLock(g) ==
  /\ gpc[g] \in {"load", "sign"}
  /\ gpc' = [gpc EXCEPT ![g] = "failed"]
  /\ tok' = [tok EXCEPT ![g] = NoToken]
  /\ signFor' = [signFor EXCEPT ![g] = 0]
  /\ mustShow' = [mustShow EXCEPT ![g] = {}]
  /\ UNCHANGED <<storeVars, recStatus, cacheVars, revVars, revAge, knownRevoked>>

\* AllEntries or Build returned an error; the cache keeps what it had.
GetFails(g) ==
  /\ gpc[g] \in {"load", "sign"}
  /\ gpc' = [gpc EXCEPT ![g] = "failed"]
  /\ statusCacheMu' = NoHolder
  /\ tok' = [tok EXCEPT ![g] = NoToken]
  /\ signFor' = [signFor EXCEPT ![g] = 0]
  /\ mustShow' = [mustShow EXCEPT ![g] = {}]
  /\ UNCHANGED <<storeVars, recStatus, statusCacheToken, cacheLeft, revVars, revAge,
                 knownRevoked>>

-----------------------------------------------------------------------------
(* RevokeCredential.                                                       *)

RevokeGoto(v, label) ==
  /\ rpc' = [rpc EXCEPT ![v] = label]
  /\ UNCHANGED <<recStatus, getVars, rrec>>

RevokeStart(v, r) ==
  /\ rpc[v] \in {"idle", "done", "failed"}
  /\ rpc' = [rpc EXCEPT ![v] = "find"]
  /\ rrec' = [rrec EXCEPT ![v] = r]
  /\ UNCHANGED <<storeVars, recStatus, cacheVars, getVars, revAge, knownRevoked>>

RevokeFind(v) ==
  /\ rpc[v] = "find"
  /\ RevokeGoto(v, IF recStatus[rrec[v]] = "credential_issued" THEN "lookup" ELSE "failed")
  /\ UNCHANGED <<storeVars, cacheVars, revAge, knownRevoked>>

RevokeLookup(v) ==
  /\ rpc[v] = "lookup"
  /\ RevokeGoto(v, IF SL!HasEntry(rrec[v]) THEN "set" ELSE "failed")
  /\ UNCHANGED <<storeVars, cacheVars, revAge, knownRevoked>>

\* SetStatus committed; its answer reaches the handler, or is lost.
RevokeSet(v) ==
  /\ rpc[v] = "set"
  /\ SL!SetStatus(rrec[v], SL!StatusInvalid)
  /\ RevokeGoto(v, "clear") \/ RevokeGoto(v, "failed")
  /\ UNCHANGED <<cacheVars, revAge, knownRevoked>>

\* A query of the store returned an error and had no effect.
RevokeFails(v) ==
  /\ rpc[v] \in {"find", "lookup", "set"}
  /\ RevokeGoto(v, "failed")
  /\ UNCHANGED <<storeVars, cacheVars, revAge, knownRevoked>>

\* Variant: the cache is left to expire.
RevokeClear_Skipped(v) ==
  /\ rpc[v] = "clear"
  /\ knownRevoked' = knownRevoked \cup {rrec[v]}
  /\ RevokeGoto(v, "done")
  /\ UNCHANGED <<storeVars, cacheVars, revAge>>

\* Lock, clear the cached token, Unlock, return nil.
RevokeClear(v) ==
  /\ rpc[v] = "clear"
  /\ statusCacheMu = NoHolder
  /\ statusCacheToken' = NoToken
  /\ knownRevoked' = knownRevoked \cup {rrec[v]}
  /\ RevokeGoto(v, "done")
  /\ UNCHANGED <<storeVars, statusCacheMu, cacheLeft, revAge>>

-----------------------------------------------------------------------------
(* The rest of the process.                                                *)

\* IssueCredential's AllocateIdx, and later its UpdateStatus.
IssueAllocate(r) ==
  /\ ~SL!HasEntry(r)
  /\ SL!AllocateIdx(r)
  /\ UNCHANGED <<recStatus, cacheVars, getVars, revVars, revAge, knownRevoked>>

IssueMark(r) ==
  /\ SL!HasEntry(r)
  /\ recStatus[r] # "credential_issued"
  /\ recStatus' = [recStatus EXCEPT ![r] = "credential_issued"]
  /\ UNCHANGED <<storeVars, cacheVars, getVars, revVars, revAge, knownRevoked>>

\* The process restarts: the store survives, the cache and the handlers do not.
Restart ==
  /\ statusCacheMu' = NoHolder
  /\ statusCacheToken' = NoToken
  /\ cacheLeft' = 0
  /\ gpc' = [g \in Getters |-> "idle"]
  /\ tok' = [g \in Getters |-> NoToken]
  /\ signFor' = [g \in Getters |-> 0]
  /\ mustShow' = [g \in Getters |-> {}]
  /\ rpc' = [v \in Revokers |-> "idle"]
  /\ UNCHANGED <<storeVars, recStatus, rrec, revAge, knownRevoked>>

Tick ==
  /\ \A g \in Getters : gpc[g] = "sign" => signFor[g] < MaxSign
  /\ cacheLeft' = IF cacheLeft = 0 THEN 0 ELSE cacheLeft - 1
  /\ signFor' = [g \in Getters |-> IF gpc[g] = "sign" THEN signFor[g] + 1 ELSE signFor[g]]
  /\ revAge' = [r \in Records |->
                  IF EntryInvalid(r) /\ revAge[r] < MaxAge THEN revAge[r] + 1 ELSE revAge[r]]
  /\ UNCHANGED <<storeVars, recStatus, statusCacheMu, statusCacheToken, gpc, tok,
                 mustShow, revVars, knownRevoked>>

-----------------------------------------------------------------------------
GetStep(g) == GetMiss(g) \/ GetCached(g) \/ GetLoad(g) \/ GetSigned(g) \/ GetFails(g)

RevokeStep(v) ==
  \/ RevokeFind(v)
  \/ RevokeLookup(v)
  \/ RevokeSet(v)
  \/ RevokeFails(v)
  \/ RevokeClear(v)

Next ==
  \/ \E g \in Getters : GetStart(g) \/ GetStep(g)
  \/ \E v \in Revokers : (\E r \in Records : RevokeStart(v, r)) \/ RevokeStep(v)
  \/ \E r \in Records : IssueAllocate(r) \/ IssueMark(r)
  \/ Restart
  \/ Tick

Spec == Init /\ [][Next]_vars

\* A handler that can run does.  Strong fairness is for the two places that wait
\* for statusCacheMu: sync.Mutex hands the lock to the longest waiter once it
\* has starved for a millisecond.
FairSpec ==
  /\ Spec
  /\ \A g \in Getters : WF_vars(GetStep(g)) /\ SF_vars(GetMiss(g) \/ GetCached(g))
  /\ \A v \in Revokers : WF_vars(RevokeStep(v)) /\ SF_vars(RevokeClear(v))

-----------------------------------------------------------------------------
(* Properties.                                                             *)

\* A token requested after a revocation was reported (RevokeCredential returned
\* nil, or an earlier answer already showed it) shows the revocation, although
\* revokers write the store while a getter is between its load and its store
\* into the cache.
RevocationVisible ==
  \A g \in Getters : gpc[g] = "served" =>
    \A r \in mustShow[g] : ShowsRevoked(tok[g], r)

\* The token claims no revocation that the store does not have.
TokenSound(t) ==
  \A i \in DOMAIN t : t[i] = SL!StatusInvalid =>
    i \in DOMAIN statusByIdx /\ statusByIdx[i] = SL!StatusInvalid

\* The token claims every reported revocation, and only real ones.
GoodToken(t) == TokenSound(t) /\ \A r \in knownRevoked : ShowsRevoked(t, r)

\* What keeps RevocationVisible true: a rebuild happens under the mutex, nothing
\* is reported that is not in the store, and the token in the cache, or being
\* signed by the mutex's holder, shows what has been reported.
CacheInv ==
  /\ \A g \in Getters : (gpc[g] \in {"load", "sign"}) <=> (statusCacheMu = g)
  /\ \A r \in knownRevoked : EntryInvalid(r)
  /\ \A v \in Revokers : rpc[v] = "clear" => EntryInvalid(rrec[v])
  /\ statusCacheToken # NoToken => GoodToken(statusCacheToken)
  /\ \A g \in Getters : gpc[g] = "sign" => GoodToken(tok[g])
  /\ \A g \in Getters : mustShow[g] \subseteq knownRevoked

\* A revocation that was committed but whose handler failed or died before it
\* could clear the cache is in every token answered later than the cache
\* lifetime plus the time one rebuild takes.
StalenessBounded ==
  [][\A g \in Getters : gpc[g] # "served" /\ gpc'[g] = "served" =>
       \A r \in Records : revAge[r] > TTL + MaxSign => ShowsRevoked(tok'[g], r)]_vars

\* A GET that was received is answered, although handlers queue on a mutex that
\* is held across a network call.
GetAnswered ==
  \A g \in Getters : (gpc[g] = "lock") ~> (gpc[g] \in {"served", "failed", "idle"})

\* A revocation that was written is reported to its caller (or lost with the
\* process), although it has to wait for the mutex.
RevokeAnswered ==
  \A v \in Revokers : (rpc[v] = "clear") ~> (rpc[v] \in {"done", "idle"})
=============================================================================
