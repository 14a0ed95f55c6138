------------------------ MODULE StatusListTokenProofs ------------------------
(***************************************************************************)
(* Theorems about StatusListToken, for any number of records, getters and  *)
(* revokers, any cache lifetime and any signing delay.                     *)
(*                                                                         *)
(* The argument: the cached token is only written by a getter that has     *)
(* held the mutex since before it loaded the entries, and a revocation is  *)
(* only reported after its clear, which needs the mutex.  So no load that  *)
(* precedes a report can reach the cache after it.                         *)
(***************************************************************************)
EXTENDS StatusListToken, TLAPS

USE DEF SL!StatusValid, SL!StatusInvalid, SL!StatusSuspended, SL!Statuses, SL!NoIdx

\* The size loop of GetStatusListToken over a dense map returns its length, so
\* the token lists exactly the entries AllEntries returned.
LEMMA BuildDense ==
  ASSUME NEW n \in Nat, NEW e \in [0..(n - 1) -> SL!Statuses]
  PROVE  Build(e) = e
<1>1. ListSize(e) = n
  <2>1. CASE n = 0
    BY <2>1 DEF ListSize
  <2>2. CASE n # 0
    <3> DEFINE P(m) == \A i \in DOMAIN e : i <= m
    <3>1. n - 1 \in DOMAIN e /\ P(n - 1)
      BY <2>2
    <3>2. PICK m \in DOMAIN e : P(m) /\ m = CHOOSE k \in DOMAIN e : P(k)
      BY <3>1
    <3>3. m = n - 1
      BY <2>2, <3>1, <3>2
    <3>4. DOMAIN e # {}
      BY <3>1
    <3> QED BY <3>2, <3>3, <3>4 DEF ListSize
  <2> QED BY <2>1, <2>2
<1> QED BY <1>1 DEF Build

\* What AllocateIdx and SetStatus(INVALID) never undo in the store.
StoreGrows ==
  /\ statusNextIdx' >= statusNextIdx
  /\ SL!TypeOK'
  /\ \A r \in Records : SL!HasEntry(r) => statusByRecID'[r] = statusByRecID[r]
  /\ \A i \in DOMAIN statusByIdx : /\ i \in DOMAIN statusByIdx'
                                   /\ statusByIdx[i] = 1 => statusByIdx'[i] = 1

\* Allocating an index makes the store grow.
LEMMA AllocateGrows ==
  ASSUME SL!TypeOK, NEW r \in Records, SL!AllocateIdx(r)
  PROVE  StoreGrows
<1>1. CASE SL!HasEntry(r)
  BY <1>1 DEF SL!AllocateIdx, SL!storeVars, SL!TypeOK, SL!HasEntry, StoreGrows
<1>2. CASE ~SL!HasEntry(r)
  <2>1. statusNextIdx' = statusNextIdx + 1 /\ statusNextIdx \in Nat
    BY <1>2 DEF SL!AllocateIdx, SL!TypeOK
  <2>2. statusByIdx' \in [0..statusNextIdx -> SL!Statuses]
    BY <1>2 DEF SL!AllocateIdx, SL!TypeOK
  <2>3. statusByRecID' \in [Records -> 0..statusNextIdx \cup {SL!NoIdx}]
    BY <1>2 DEF SL!AllocateIdx, SL!TypeOK
  <2>4. SL!TypeOK'
    BY <2>1, <2>2, <2>3 DEF SL!TypeOK
  <2>5. \A t \in Records : SL!HasEntry(t) => statusByRecID'[t] = statusByRecID[t]
    BY <1>2 DEF SL!AllocateIdx, SL!TypeOK, SL!HasEntry
  <2>6. \A i \in DOMAIN statusByIdx : i \in DOMAIN statusByIdx' /\ statusByIdx'[i] = statusByIdx[i]
    BY <1>2 DEF SL!AllocateIdx, SL!TypeOK
  <2> QED BY <2>1, <2>4, <2>5, <2>6 DEF StoreGrows
<1> QED BY <1>1, <1>2

\* Revoking an entry makes the store grow, and the entry is revoked afterwards.
LEMMA SetStatusGrows ==
  ASSUME SL!TypeOK, NEW r \in Records, SL!SetStatus(r, 1)
  PROVE  StoreGrows /\ EntryInvalid(r)'
<1>1. SL!TypeOK'
  BY DEF SL!SetStatus, SL!TypeOK, SL!HasEntry
<1>2. statusByRecID[r] \in DOMAIN statusByIdx
  BY DEF SL!SetStatus, SL!TypeOK, SL!HasEntry
<1>3. \A i \in DOMAIN statusByIdx : /\ i \in DOMAIN statusByIdx'
                                    /\ statusByIdx[i] = 1 => statusByIdx'[i] = 1
  BY DEF SL!SetStatus, SL!TypeOK
<1>4. EntryInvalid(r)'
  BY <1>2 DEF SL!SetStatus, SL!TypeOK, EntryInvalid, SL!HasEntry, SL!StatusOf
<1> QED BY <1>1, <1>3, <1>4 DEF SL!SetStatus, SL!TypeOK, StoreGrows

\* A step that leaves the store alone counts as growth.
LEMMA UnchangedGrows ==
  ASSUME SL!TypeOK, UNCHANGED storeVars
  PROVE  StoreGrows
BY DEF StoreGrows, storeVars, SL!TypeOK, SL!HasEntry

\* Growing preserves every statement about revoked entries and about tokens.
LEMMA GrowKeeps ==
  ASSUME SL!TypeOK, StoreGrows
  PROVE  /\ \A r \in Records : SL!HasEntry(r) => SL!HasEntry(r)'
         /\ \A r \in Records : EntryInvalid(r) => EntryInvalid(r)'
         /\ \A t : TokenSound(t) => \A i \in DOMAIN t : t[i] = 1 =>
                     i \in DOMAIN statusByIdx' /\ statusByIdx'[i] = 1
         /\ \A t, r : r \in Records /\ EntryInvalid(r) /\ ShowsRevoked(t, r) =>
                     statusByRecID'[r] \in DOMAIN t /\ t[statusByRecID'[r]] = 1
<1>1. \A r \in Records : SL!HasEntry(r) => SL!HasEntry(r)'
  BY DEF StoreGrows, SL!HasEntry
<1>2. ASSUME NEW r \in Records, EntryInvalid(r) PROVE EntryInvalid(r)'
  <2>1. statusByRecID'[r] = statusByRecID[r] /\ statusByRecID[r] \in DOMAIN statusByIdx
    BY <1>2 DEF EntryInvalid, StoreGrows, SL!HasEntry, SL!TypeOK
  <2> QED BY <1>1, <1>2, <2>1 DEF EntryInvalid, StoreGrows, SL!StatusOf
<1>3. \A t : TokenSound(t) => \A i \in DOMAIN t : t[i] = 1 =>
                     i \in DOMAIN statusByIdx' /\ statusByIdx'[i] = 1
  BY DEF TokenSound, StoreGrows
<1>4. \A t, r : r \in Records /\ EntryInvalid(r) /\ ShowsRevoked(t, r) =>
                     statusByRecID'[r] \in DOMAIN t /\ t[statusByRecID'[r]] = 1
  BY DEF EntryInvalid, ShowsRevoked, StoreGrows
<1> QED BY <1>1, <1>2, <1>3, <1>4

-----------------------------------------------------------------------------
(* Types.                                                                  *)

\* A token that was well formed for the old store is well formed for the new one.
LEMMA TokensGrow ==
  ASSUME SL!TypeOK, StoreGrows
  PROVE  Tokens \subseteq Tokens'
BY DEF Tokens, StoreGrows, SL!TypeOK

\* Everything but the store and the tokens.
RestType ==
  /\ recStatus \in [Records -> {"offer_created", "credential_issued"}]
  /\ statusCacheMu \in Getters \cup {NoHolder}
  /\ cacheLeft \in 0..TTL
  /\ gpc \in [Getters -> {"idle", "lock", "load", "sign", "served", "failed"}]
  /\ signFor \in [Getters -> 0..MaxSign]
  /\ mustShow \in [Getters -> SUBSET Records]
  /\ rpc \in [Revokers -> {"idle", "find", "lookup", "set", "clear", "done", "failed"}]
  /\ rrec \in [Revokers -> Records]
  /\ revAge \in [Records -> 0..MaxAge]
  /\ knownRevoked \in SUBSET Records

TokenType == statusCacheToken \in Tokens /\ tok \in [Getters -> Tokens]

\* The type invariant in three parts: the store, the tokens, and the rest.
LEMMA TypeSplit == TypeOK <=> SL!TypeOK /\ RestType /\ TokenType
BY DEF TypeOK, RestType, TokenType

\* Every step, and a stutter, makes the store grow or leaves it alone.
LEMMA NextGrows ==
  ASSUME TypeOK, [Next]_vars
  PROVE  StoreGrows
<1> SL!TypeOK
  BY DEF TypeOK
<1>1. ASSUME UNCHANGED storeVars PROVE StoreGrows
  BY <1>1, UnchangedGrows
<1>2. ASSUME NEW v \in Revokers, RevokeSet(v) PROVE StoreGrows
  <2>1. rrec[v] \in Records
    BY DEF TypeOK
  <2> QED BY <1>2, <2>1, SetStatusGrows DEF RevokeSet
<1>3. ASSUME NEW r \in Records, IssueAllocate(r) PROVE StoreGrows
  BY <1>3, AllocateGrows DEF IssueAllocate
<1>4. ASSUME Next PROVE StoreGrows
  BY <1>1, <1>2, <1>3, <1>4
  DEF Next, GetStart, GetStep, GetMiss, GetCached, GetLoad, GetSigned, GetFails,
      RevokeStart, RevokeStep, RevokeFind, RevokeLookup, RevokeFails, RevokeClear,
      IssueMark, Restart, Tick
<1> QED BY <1>1, <1>4 DEF vars

\* Every step keeps the tokens well formed: a getter builds its token from the
\* entries of the moment, and the store only grows.
LEMMA TokenTypeStep ==
  ASSUME TypeOK, [Next]_vars
  PROVE  TokenType'
<1> SL!TypeOK /\ StoreGrows
  BY NextGrows DEF TypeOK
<1>0. /\ statusCacheToken \in Tokens' /\ NoToken \in Tokens'
      /\ tok \in [Getters -> Tokens']
  BY TokensGrow DEF TypeOK, Tokens
<1>1. Build(statusByIdx) \in Tokens'
  <2>1. Build(statusByIdx) = statusByIdx
    BY BuildDense DEF SL!TypeOK
  <2>2. statusByIdx \in Tokens
    BY DEF SL!TypeOK, Tokens
  <2> QED BY <2>1, <2>2, TokensGrow
<1>2. ASSUME UNCHANGED <<statusCacheToken, tok>> PROVE TokenType'
  BY <1>0, <1>2 DEF TokenType
<1>3. ASSUME NEW g \in Getters, GetStart(g) PROVE TokenType'
  BY <1>0, <1>3 DEF GetStart, cacheVars, TokenType
<1>4. ASSUME NEW g \in Getters, GetCached(g) PROVE TokenType'
  BY <1>0, <1>4 DEF GetCached, Answer, cacheVars, TokenType
<1>5. ASSUME NEW g \in Getters, GetLoad(g) PROVE TokenType'
  BY <1>0, <1>1, <1>5 DEF GetLoad, cacheVars, TokenType
<1>6. ASSUME NEW g \in Getters, GetSigned(g) PROVE TokenType'
  BY <1>0, <1>6 DEF GetSigned, Answer, TokenType
<1>7. ASSUME NEW g \in Getters, GetFails(g) PROVE TokenType'
  BY <1>0, <1>7 DEF GetFails, TokenType
<1>8. ASSUME NEW v \in Revokers, RevokeClear(v) PROVE TokenType'
  BY <1>0, <1>8 DEF RevokeClear, RevokeGoto, getVars, TokenType
<1>9. ASSUME Restart PROVE TokenType'
  BY <1>0, <1>9 DEF Restart, TokenType
<1>10. ASSUME NEW v \in Revokers,
              \/ \E r \in Records : RevokeStart(v, r)
              \/ RevokeFind(v) \/ RevokeLookup(v) \/ RevokeSet(v) \/ RevokeFails(v)
       PROVE  TokenType'
  BY <1>2, <1>10 DEF RevokeStart, RevokeFind, RevokeLookup, RevokeSet, RevokeFails,
                     RevokeGoto, cacheVars, getVars
<1>11. ASSUME NEW r \in Records, IssueAllocate(r) \/ IssueMark(r) PROVE TokenType'
  BY <1>2, <1>11 DEF IssueAllocate, IssueMark, cacheVars, getVars
<1>12. ASSUME Tick PROVE TokenType'
  BY <1>2, <1>12 DEF Tick
<1>13. ASSUME NEW g \in Getters, GetMiss(g) PROVE TokenType'
  BY <1>2, <1>13 DEF GetMiss
<1>14. ASSUME UNCHANGED vars PROVE TokenType'
  BY <1>2, <1>14 DEF vars, cacheVars, getVars
<1> QED BY <1>3, <1>4, <1>5, <1>6, <1>7, <1>8, <1>9, <1>10, <1>11, <1>12, <1>13, <1>14
        DEF Next, GetStep, RevokeStep

\* Every step keeps the control state, the clocks and the history in their ranges.
LEMMA RestTypeStep ==
  ASSUME TypeOK, [Next]_vars
  PROVE  RestType'
<1> RestType
  BY TypeSplit
<1> USE TTLAssumption, MaxSignAssumption
<1>1. ASSUME NEW g \in Getters, GetStart(g) \/ GetStep(g) PROVE RestType'
  <2>1. CASE GetStart(g)
    BY <2>1 DEF GetStart, RestType, cacheVars, revVars
  <2>2. CASE GetMiss(g)
    BY <2>2 DEF GetMiss, RestType, revVars
  <2>3. CASE GetCached(g)
    BY <2>3 DEF GetCached, Answer, RestType, cacheVars, revVars
  <2>4. CASE GetLoad(g)
    BY <2>4 DEF GetLoad, RestType, cacheVars, revVars
  <2>5. CASE GetSigned(g)
    BY <2>5 DEF GetSigned, Answer, RestType, revVars
  <2>6. CASE GetFails(g)
    BY <2>6 DEF GetFails, RestType, revVars
  <2> QED BY <1>1, <2>1, <2>2, <2>3, <2>4, <2>5, <2>6 DEF GetStep
<1>2. ASSUME NEW v \in Revokers, NEW r \in Records, RevokeStart(v, r) PROVE RestType'
  BY <1>2 DEF RevokeStart, RestType, cacheVars, getVars
<1>3. ASSUME NEW v \in Revokers, RevokeStep(v) PROVE RestType'
  <2>1. CASE RevokeFind(v) \/ RevokeLookup(v) \/ RevokeSet(v) \/ RevokeFails(v)
    BY <2>1 DEF RevokeFind, RevokeLookup, RevokeSet, RevokeFails, RevokeGoto, RestType,
                cacheVars, getVars
  <2>2. CASE RevokeClear(v)
    BY <2>2 DEF RevokeClear, RevokeGoto, RestType, cacheVars, getVars
  <2> QED BY <1>3, <2>1, <2>2 DEF RevokeStep
<1>4. ASSUME NEW r \in Records, IssueAllocate(r) \/ IssueMark(r) PROVE RestType'
  BY <1>4 DEF IssueAllocate, IssueMark, RestType, cacheVars, getVars, revVars
<1>5. ASSUME Restart PROVE RestType'
  BY <1>5 DEF Restart, RestType
<1>6. ASSUME Tick PROVE RestType'
  <2>1. cacheLeft' \in 0..TTL
    BY <1>6 DEF Tick, RestType
  <2>2. signFor' \in [Getters -> 0..MaxSign]
    BY <1>6 DEF Tick, RestType
  <2>3. revAge' \in [Records -> 0..MaxAge]
    BY <1>6 DEF Tick, RestType, MaxAge
  <2> QED BY <1>6, <2>1, <2>2, <2>3 DEF Tick, RestType, revVars
<1>7. ASSUME UNCHANGED vars PROVE RestType'
  BY <1>7 DEF vars, RestType, cacheVars, getVars, revVars
<1> QED BY <1>1, <1>2, <1>3, <1>4, <1>5, <1>6, <1>7 DEF Next

\* The handlers and the clock keep every variable in its range: in particular a
\* token never covers an index the store has not allocated.
THEOREM TypeCorrect == Spec => []TypeOK
<1>1. Init => TypeOK
  BY TTLAssumption, MaxSignAssumption
  DEF Init, SL!Init, TypeOK, SL!TypeOK, Tokens, MaxAge
<1>2. TypeOK /\ [Next]_vars => TypeOK'
  <2> SUFFICES ASSUME TypeOK, [Next]_vars PROVE TypeOK'
    OBVIOUS
  <2>1. SL!TypeOK'
    BY NextGrows DEF StoreGrows
  <2>2. RestType' /\ TokenType'
    BY RestTypeStep, TokenTypeStep
  <2> QED BY <2>1, <2>2 DEF TypeOK, RestType, TokenType
<1> QED BY <1>1, <1>2, PTL DEF Spec

-----------------------------------------------------------------------------
(* The cache.                                                              *)

\* A token that was good stays good while nothing more is reported.
LEMMA GoodTokenKept ==
  ASSUME TypeOK, CacheInv, StoreGrows, knownRevoked' = knownRevoked
  PROVE  /\ statusCacheToken # NoToken /\ statusCacheToken' = statusCacheToken
              => GoodToken(statusCacheToken)'
         /\ \A g \in Getters : gpc[g] = "sign" /\ tok'[g] = tok[g] => GoodToken(tok[g])'
         /\ \A r \in knownRevoked' : EntryInvalid(r)'
<1> SL!TypeOK /\ knownRevoked \subseteq Records
  BY DEF TypeOK
<1>1. \A r \in knownRevoked' : EntryInvalid(r)'
  BY GrowKeeps DEF CacheInv
<1>2. ASSUME NEW t, GoodToken(t)
      PROVE  /\ \A i \in DOMAIN t : t[i] = 1 => i \in DOMAIN statusByIdx' /\ statusByIdx'[i] = 1
             /\ \A r \in knownRevoked' : statusByRecID'[r] \in DOMAIN t /\ t[statusByRecID'[r]] = 1
  BY <1>2, GrowKeeps DEF GoodToken, CacheInv
<1>3. ASSUME statusCacheToken # NoToken, statusCacheToken' = statusCacheToken
      PROVE  GoodToken(statusCacheToken)'
  <2>1. GoodToken(statusCacheToken)
    BY <1>3 DEF CacheInv
  <2> QED BY <1>2, <1>3, <2>1 DEF GoodToken, TokenSound, ShowsRevoked
<1>4. ASSUME NEW g \in Getters, gpc[g] = "sign", tok'[g] = tok[g]
      PROVE  GoodToken(tok[g])'
  <2>1. GoodToken(tok[g])
    BY <1>4 DEF CacheInv
  <2> QED BY <1>2, <1>4, <2>1 DEF GoodToken, TokenSound, ShowsRevoked
<1> QED BY <1>1, <1>3, <1>4

\* Reporting what a good token shows leaves every other good token good, as long
\* as it is the same token.
LEMMA AnswerGood ==
  ASSUME TypeOK, CacheInv, NEW t, GoodToken(t), UNCHANGED storeVars,
         knownRevoked' = knownRevoked \cup {r \in Records : ShowsRevoked(t, r)}
  PROVE  /\ \A r \in knownRevoked' : EntryInvalid(r)'
         /\ \A i \in DOMAIN t : t[i] = 1 => i \in DOMAIN statusByIdx' /\ statusByIdx'[i] = 1
         /\ \A r \in knownRevoked' : statusByRecID'[r] \in DOMAIN t /\ t[statusByRecID'[r]] = 1
<1>1. ASSUME NEW r \in Records, ShowsRevoked(t, r) PROVE EntryInvalid(r)
  BY <1>1 DEF ShowsRevoked, GoodToken, TokenSound, EntryInvalid, SL!HasEntry, SL!StatusOf,
              TypeOK, SL!TypeOK
<1>2. \A r \in knownRevoked' : EntryInvalid(r)
  BY <1>1 DEF CacheInv
<1>3. \A r : EntryInvalid(r)' <=> EntryInvalid(r)
  BY DEF storeVars, EntryInvalid, SL!HasEntry, SL!StatusOf
<1>4. \A r \in knownRevoked' : ShowsRevoked(t, r)
  BY DEF GoodToken
<1> QED BY <1>2, <1>3, <1>4 DEF ShowsRevoked, GoodToken, TokenSound, storeVars

\* A freshly built token shows exactly what the store says.
LEMMA BuiltGood ==
  ASSUME TypeOK, CacheInv
  PROVE  GoodToken(Build(statusByIdx))
<1>1. Build(statusByIdx) = statusByIdx
  BY BuildDense DEF TypeOK, SL!TypeOK
<1>2. TokenSound(statusByIdx)
  BY DEF TokenSound
<1>3. ASSUME NEW r \in knownRevoked PROVE ShowsRevoked(statusByIdx, r)
  <2>1. r \in Records /\ EntryInvalid(r)
    BY DEF TypeOK, CacheInv
  <2> QED BY <2>1 DEF ShowsRevoked, EntryInvalid, SL!HasEntry, SL!StatusOf, TypeOK, SL!TypeOK
<1> QED BY <1>1, <1>2, <1>3 DEF GoodToken

\* Every step preserves CacheInv: one case per action of the handlers.
LEMMA CacheStep ==
  ASSUME TypeOK, CacheInv, [Next]_vars
  PROVE  CacheInv'
<1> DEFINE Mutex == \A g \in Getters : (gpc[g] \in {"load", "sign"}) <=> (statusCacheMu = g)
           Reported == \A r \in knownRevoked : EntryInvalid(r)
           Pending == \A v \in Revokers : rpc[v] = "clear" => EntryInvalid(rrec[v])
           Cached == statusCacheToken # NoToken => GoodToken(statusCacheToken)
           Signing == \A g \in Getters : gpc[g] = "sign" => GoodToken(tok[g])
           Known == \A g \in Getters : mustShow[g] \subseteq knownRevoked
<1>0. CacheInv <=> Mutex /\ Reported /\ Pending /\ Cached /\ Signing /\ Known
  BY DEF CacheInv
<1>0a. CacheInv' <=> (Mutex /\ Reported /\ Pending /\ Cached /\ Signing /\ Known)'
  BY DEF CacheInv
<1> HIDE DEF Mutex, Reported, Pending, Cached, Signing, Known
<1>g. StoreGrows
  BY NextGrows
<1>e. \A r \in Records : EntryInvalid(r) => EntryInvalid(r)'
  BY <1>g, GrowKeeps DEF TypeOK
<1>p. ASSUME UNCHANGED revVars PROVE Pending'
  <2>1. \A v \in Revokers : rrec[v] \in Records
    BY DEF TypeOK
  <2> QED BY <1>0, <1>e, <1>p, <2>1 DEF Pending, revVars
\* Steps that neither report anything nor touch the cache or a token being signed.
<1>f. ASSUME UNCHANGED <<knownRevoked, statusCacheToken, tok, gpc>>
      PROVE  Reported' /\ Cached' /\ Signing'
  <2>1. Reported'
    BY <1>f, <1>g, GoodTokenKept DEF Reported
  <2>2. Cached'
    BY <1>f, <1>g, GoodTokenKept DEF Cached
  <2>3. Signing'
    BY <1>f, <1>g, GoodTokenKept DEF Signing
  <2> QED BY <2>1, <2>2, <2>3
<1>1. ASSUME NEW g \in Getters, GetStart(g) PROVE CacheInv'
  <2>1. Mutex'
    BY <1>0, <1>1 DEF GetStart, Mutex, cacheVars, TypeOK
  <2>2. Reported' /\ Cached'
    BY <1>1, <1>g, GoodTokenKept DEF GetStart, Reported, Cached, cacheVars
  <2>3. Signing'
    <3> SUFFICES ASSUME NEW h \in Getters, gpc'[h] = "sign" PROVE GoodToken(tok[h])'
      BY DEF Signing
    <3>1. h # g /\ gpc[h] = "sign" /\ tok'[h] = tok[h] /\ knownRevoked' = knownRevoked
      BY <1>1 DEF GetStart, TypeOK
    <3> QED BY <1>g, <3>1, GoodTokenKept
  <2>4. Known'
    BY <1>0, <1>1 DEF GetStart, Known, TypeOK
  <2>5. Pending'
    BY <1>1, <1>p DEF GetStart
  <2> QED BY <1>0a, <2>1, <2>2, <2>3, <2>4, <2>5
<1>2. ASSUME NEW g \in Getters, GetMiss(g) PROVE CacheInv'
  <2>1. Mutex'
    BY <1>0, <1>2, NoHolderAssumption DEF GetMiss, Mutex, TypeOK
  <2>2. Reported' /\ Cached'
    BY <1>2, <1>g, GoodTokenKept DEF GetMiss, Reported, Cached
  <2>3. Signing'
    <3> SUFFICES ASSUME NEW h \in Getters, gpc'[h] = "sign" PROVE GoodToken(tok[h])'
      BY DEF Signing
    <3>1. gpc[h] = "sign" /\ tok'[h] = tok[h] /\ knownRevoked' = knownRevoked
      BY <1>2 DEF GetMiss, TypeOK
    <3> QED BY <1>g, <3>1, GoodTokenKept
  <2>4. Known'
    BY <1>0, <1>2 DEF GetMiss, Known
  <2>5. Pending'
    BY <1>2, <1>p DEF GetMiss
  <2> QED BY <1>0a, <2>1, <2>2, <2>3, <2>4, <2>5
<1>3. ASSUME NEW g \in Getters, GetCached(g) PROVE CacheInv'
  <2>0. GoodToken(statusCacheToken) /\ \A h \in Getters : gpc[h] # "sign"
    BY <1>0, <1>3, NoHolderAssumption DEF GetCached, CacheFresh, Cached, Mutex
  <2>1. Mutex'
    BY <1>0, <1>3 DEF GetCached, Answer, Mutex, cacheVars, TypeOK
  <2>2. Reported' /\ Cached'
    BY <1>3, <2>0, AnswerGood DEF GetCached, Answer, Reported, Cached, cacheVars, GoodToken,
       TokenSound, ShowsRevoked
  <2>3. Signing'
    BY <1>3, <2>0 DEF GetCached, Answer, Signing, TypeOK
  <2>4. Known'
    BY <1>0, <1>3 DEF GetCached, Answer, Known
  <2>5. Pending'
    BY <1>3, <1>p DEF GetCached
  <2> QED BY <1>0a, <2>1, <2>2, <2>3, <2>4, <2>5
<1>4. ASSUME NEW g \in Getters, GetLoad(g) PROVE CacheInv'
  <2>1. Mutex'
    BY <1>0, <1>4 DEF GetLoad, Mutex, cacheVars, TypeOK
  <2>2. Reported' /\ Cached'
    BY <1>4, <1>g, GoodTokenKept DEF GetLoad, Reported, Cached, cacheVars
  <2>3. Signing'
    <3> SUFFICES ASSUME NEW h \in Getters, gpc'[h] = "sign" PROVE GoodToken(tok[h])'
      BY DEF Signing
    <3>1. CASE h = g
      <4>1. tok'[h] = Build(statusByIdx) /\ UNCHANGED <<storeVars, knownRevoked>>
        BY <1>4, <3>1 DEF GetLoad, TypeOK
      <4>2. GoodToken(Build(statusByIdx))
        BY BuiltGood
      <4> HIDE DEF Build
      <4> QED BY <4>1, <4>2 DEF GoodToken, TokenSound, ShowsRevoked, storeVars
    <3>2. CASE h # g
      <4>1. gpc[h] = "sign" /\ tok'[h] = tok[h] /\ knownRevoked' = knownRevoked
        BY <1>4, <3>2 DEF GetLoad, TypeOK
      <4> QED BY <1>g, <4>1, GoodTokenKept
    <3> QED BY <3>1, <3>2
  <2>4. Known'
    BY <1>0, <1>4 DEF GetLoad, Known
  <2>5. Pending'
    BY <1>4, <1>p DEF GetLoad
  <2> QED BY <1>0a, <2>1, <2>2, <2>3, <2>4, <2>5
<1>5. ASSUME NEW g \in Getters, GetSigned(g) PROVE CacheInv'
  <2>0. GoodToken(tok[g]) /\ \A h \in Getters : h # g => gpc[h] # "sign"
    BY <1>0, <1>5 DEF GetSigned, Signing, Mutex
  <2>1. Mutex'
    BY <1>0, <1>5, NoHolderAssumption DEF GetSigned, Answer, Mutex, TypeOK
  <2>2. Reported' /\ Cached'
    BY <1>5, <2>0, AnswerGood DEF GetSigned, Answer, Reported, Cached, GoodToken,
       TokenSound, ShowsRevoked
  <2>3. Signing'
    BY <1>5, <2>0 DEF GetSigned, Answer, Signing, TypeOK
  <2>4. Known'
    BY <1>0, <1>5 DEF GetSigned, Answer, Known
  <2>5. Pending'
    BY <1>5, <1>p DEF GetSigned
  <2> QED BY <1>0a, <2>1, <2>2, <2>3, <2>4, <2>5
<1>6. ASSUME NEW g \in Getters, GetFails(g) PROVE CacheInv'
  <2>1. Mutex'
    BY <1>0, <1>6, NoHolderAssumption DEF GetFails, Mutex, TypeOK
  <2>2. Reported' /\ Cached'
    BY <1>6, <1>g, GoodTokenKept DEF GetFails, Reported, Cached
  <2>3. Signing'
    <3> SUFFICES ASSUME NEW h \in Getters, gpc'[h] = "sign" PROVE GoodToken(tok[h])'
      BY DEF Signing
    <3>1. h # g /\ gpc[h] = "sign" /\ tok'[h] = tok[h] /\ knownRevoked' = knownRevoked
      BY <1>6 DEF GetFails, TypeOK
    <3> QED BY <1>g, <3>1, GoodTokenKept
  <2>4. Known'
    BY <1>0, <1>6 DEF GetFails, Known, TypeOK
  <2>5. Pending'
    BY <1>6, <1>p DEF GetFails
  <2> QED BY <1>0a, <2>1, <2>2, <2>3, <2>4, <2>5
\* What a step that leaves the getters and the cache alone preserves.
<1>7. ASSUME UNCHANGED <<getVars, cacheVars, knownRevoked>>
      PROVE  (Mutex /\ Reported /\ Cached /\ Signing /\ Known)'
  <2>1. Reported' /\ Cached' /\ Signing'
    BY <1>7, <1>f DEF getVars, cacheVars
  <2>2. Mutex' /\ Known'
    BY <1>0, <1>7 DEF getVars, cacheVars, Mutex, Known
  <2> QED BY <2>1, <2>2
<1>8. ASSUME NEW v \in Revokers, NEW r \in Records, RevokeStart(v, r) PROVE CacheInv'
  <2>1. Pending'
    BY <1>0, <1>8, <1>e DEF RevokeStart, Pending, TypeOK
  <2> QED BY <1>0a, <1>7, <1>8, <2>1 DEF RevokeStart
<1>9. ASSUME NEW v \in Revokers, RevokeFind(v) \/ RevokeLookup(v) \/ RevokeFails(v)
      PROVE  CacheInv'
  <2>1. Pending'
    BY <1>0, <1>9, <1>e DEF RevokeFind, RevokeLookup, RevokeFails, RevokeGoto, Pending, TypeOK
  <2>2. UNCHANGED <<getVars, cacheVars, knownRevoked>>
    BY <1>9 DEF RevokeFind, RevokeLookup, RevokeFails, RevokeGoto
  <2> QED BY <1>0a, <1>7, <2>1, <2>2
<1>10. ASSUME NEW v \in Revokers, RevokeSet(v) PROVE CacheInv'
  <2>0. PICK r \in Records : r = rrec[v]
    BY DEF TypeOK
  <2>1. EntryInvalid(r)'
    BY <1>10, <2>0, SetStatusGrows DEF RevokeSet, TypeOK
  <2>2. Pending'
    <3> SUFFICES ASSUME NEW w \in Revokers, rpc'[w] = "clear" PROVE EntryInvalid(rrec[w])'
      BY DEF Pending
    <3>0. rrec' = rrec /\ rrec[w] \in Records
      BY <1>10 DEF RevokeSet, RevokeGoto, TypeOK
    <3>1. CASE w = v
      BY <2>0, <2>1, <3>0, <3>1 DEF EntryInvalid, SL!HasEntry, SL!StatusOf
    <3>2. CASE w # v
      <4>1. EntryInvalid(rrec[w])
        BY <1>0, <1>10, <3>2 DEF RevokeSet, RevokeGoto, Pending, TypeOK
      <4> QED BY <1>e, <3>0, <4>1 DEF EntryInvalid, SL!HasEntry, SL!StatusOf
    <3> QED BY <3>1, <3>2
  <2>3. UNCHANGED <<getVars, cacheVars, knownRevoked>>
    BY <1>10 DEF RevokeSet, RevokeGoto
  <2> QED BY <1>0a, <1>7, <2>2, <2>3
<1>11. ASSUME NEW v \in Revokers, RevokeClear(v) PROVE CacheInv'
  <2>1. UNCHANGED <<storeVars, getVars, statusCacheMu>> /\ statusCacheToken' = NoToken
    BY <1>11 DEF RevokeClear, RevokeGoto
  <2>2. Mutex' /\ Cached'
    BY <1>0, <2>1 DEF Mutex, Cached, getVars
  <2>3. Reported'
    BY <1>0, <1>11, <1>e DEF RevokeClear, Reported, Pending, TypeOK
  <2>4. Signing'
    BY <1>0, <1>11, <2>1, NoHolderAssumption DEF RevokeClear, Signing, Mutex, getVars
  <2>5. Known'
    BY <1>0, <1>11, <2>1 DEF RevokeClear, Known, getVars
  <2>6. Pending'
    BY <1>0, <1>11, <1>e DEF RevokeClear, RevokeGoto, Pending, TypeOK
  <2> QED BY <1>0a, <2>2, <2>3, <2>4, <2>5, <2>6
<1>12. ASSUME NEW r \in Records, IssueAllocate(r) \/ IssueMark(r) PROVE CacheInv'
  <2>1. UNCHANGED <<getVars, cacheVars, revVars, knownRevoked>>
    BY <1>12 DEF IssueAllocate, IssueMark
  <2> QED BY <1>0a, <1>7, <1>p, <2>1
<1>13. ASSUME Restart PROVE CacheInv'
  <2>1. Mutex' /\ Cached' /\ Signing' /\ Known' /\ Pending'
    BY <1>13, NoHolderAssumption DEF Restart, Mutex, Cached, Signing, Known, Pending
  <2>2. Reported'
    BY <1>13, <1>g, GoodTokenKept DEF Restart, Reported
  <2> QED BY <1>0a, <2>1, <2>2
<1>14. ASSUME Tick PROVE CacheInv'
  <2>1. Reported' /\ Cached' /\ Signing'
    BY <1>14, <1>f DEF Tick
  <2>2. Mutex' /\ Known'
    BY <1>0, <1>14 DEF Tick, Mutex, Known
  <2> QED BY <1>0a, <1>14, <1>p, <2>1, <2>2 DEF Tick
<1>15. ASSUME UNCHANGED vars PROVE CacheInv'
  BY <1>0a, <1>7, <1>p, <1>15 DEF vars
<1> QED BY <1>1, <1>2, <1>3, <1>4, <1>5, <1>6, <1>8, <1>9, <1>10, <1>11, <1>12, <1>13,
           <1>14, <1>15
        DEF Next, GetStep, RevokeStep

\* The mutex protocol of GetStatusListToken and RevokeCredential keeps the cache
\* free of tokens that miss a reported revocation.
THEOREM CacheCorrect == Spec => []CacheInv
<1>1. Init => CacheInv
  BY NoHolderAssumption DEF Init, CacheInv
<1>2. TypeOK /\ CacheInv /\ [Next]_vars => CacheInv'
  BY CacheStep
<1> QED BY <1>1, <1>2, TypeCorrect, PTL DEF Spec

\* A token requested after a revocation was reported shows it: the status list
\* that RevokeCredential's caller, or a client that saw the revocation once,
\* fetches next never says VALID again.
THEOREM RevocationVisibleAlways == Spec => []RevocationVisible
<1>1. Init => RevocationVisible
  BY DEF Init, RevocationVisible
<1>2. TypeOK /\ CacheInv /\ RevocationVisible /\ [Next]_vars => RevocationVisible'
  <2> SUFFICES ASSUME TypeOK, CacheInv, RevocationVisible, [Next]_vars,
                      NEW g \in Getters, gpc'[g] = "served",
                      NEW r \in mustShow'[g]
               PROVE  ShowsRevoked(tok[g], r)'
    BY DEF RevocationVisible
  <2>g. StoreGrows /\ SL!TypeOK
    BY NextGrows DEF TypeOK
  \* The answer was given before this step: the store still agrees with it.
  <2>1. CASE gpc[g] = "served" /\ tok'[g] = tok[g] /\ mustShow'[g] = mustShow[g]
    <3>1. r \in Records /\ EntryInvalid(r) /\ ShowsRevoked(tok[g], r)
      BY <2>1 DEF CacheInv, RevocationVisible, TypeOK
    <3> QED BY <2>1, <2>g, <3>1, GrowKeeps DEF ShowsRevoked
  \* This step gives the answer: it is a good token, and mustShow was reported.
  <2>2. CASE GetCached(g)
    <3>1. GoodToken(statusCacheToken) /\ r \in knownRevoked
      BY <2>2 DEF GetCached, CacheFresh, CacheInv
    <3>2. tok'[g] = statusCacheToken /\ UNCHANGED storeVars
      BY <2>2 DEF GetCached, Answer, TypeOK
    <3> QED BY <3>1, <3>2 DEF GoodToken, ShowsRevoked, storeVars
  <2>3. CASE GetSigned(g)
    <3>1. GoodToken(tok[g]) /\ r \in knownRevoked
      BY <2>3 DEF GetSigned, CacheInv
    <3>2. tok'[g] = tok[g] /\ UNCHANGED storeVars
      BY <2>3 DEF GetSigned, Answer, TypeOK
    <3> QED BY <3>1, <3>2 DEF GoodToken, ShowsRevoked, storeVars
  \* No other step moves g to "served".
  <2>4. ASSUME NEW h \in Getters, GetStart(h) \/ GetStep(h), ~GetCached(g), ~GetSigned(g)
        PROVE  gpc[g] = "served" /\ tok'[g] = tok[g] /\ mustShow'[g] = mustShow[g]
    <3>1. CASE h = g
      BY <2>4, <3>1 DEF GetStart, GetStep, GetMiss, GetLoad, GetFails, TypeOK
    <3>2. CASE h # g
      BY <2>4, <3>2 DEF GetStart, GetStep, GetMiss, GetCached, GetLoad, GetSigned, GetFails,
                        Answer, TypeOK
    <3> QED BY <3>1, <3>2
  <2>5. ASSUME UNCHANGED <<gpc, tok, mustShow>>
        PROVE  gpc[g] = "served" /\ tok'[g] = tok[g] /\ mustShow'[g] = mustShow[g]
    BY <2>5
  <2>6. ~Restart
    BY DEF Restart
  <2>7. ASSUME NEW v \in Revokers, (\E t \in Records : RevokeStart(v, t)) \/ RevokeStep(v)
        PROVE  UNCHANGED <<gpc, tok, mustShow>>
    BY <2>7 DEF RevokeStart, RevokeStep, RevokeFind, RevokeLookup, RevokeSet, RevokeFails,
                RevokeClear, RevokeGoto, getVars
  <2>8. ASSUME NEW t \in Records, IssueAllocate(t) \/ IssueMark(t)
        PROVE  UNCHANGED <<gpc, tok, mustShow>>
    BY <2>8 DEF IssueAllocate, IssueMark, getVars
  <2>9. ASSUME Tick \/ UNCHANGED vars PROVE UNCHANGED <<gpc, tok, mustShow>>
    BY <2>9 DEF Tick, vars, getVars
  <2> QED BY <2>1, <2>2, <2>3, <2>4, <2>5, <2>6, <2>7, <2>8, <2>9 DEF Next
<1> QED BY <1>1, <1>2, TypeCorrect, CacheCorrect, PTL DEF Spec

-----------------------------------------------------------------------------
(* Staleness.                                                              *)

\* Token t was built at most d time units ago: it misses no older revocation.
Behind(t, d) ==
  \A r \in Records : EntryInvalid(r) /\ ~ShowsRevoked(t, r) => revAge[r] <= d

\* The token in the cache is as old as the cache entry and its rebuild, the one being
\* signed as old as the rebuild, and a revocation has an age once it is in the store.
AgeInv ==
  /\ \A r \in Records : ~EntryInvalid(r) => revAge[r] = 0
  /\ CacheFresh => Behind(statusCacheToken, TTL - cacheLeft + MaxSign)
  /\ \A g \in Getters : gpc[g] = "sign" => Behind(tok[g], signFor[g])

\* Behind after the step, of a token from before it.
BehindNext(t, d) ==
  \A r \in Records :
    EntryInvalid(r)' /\ ~(statusByRecID'[r] \in DOMAIN t /\ t[statusByRecID'[r]] = 1) => revAge'[r] <= d

\* A revocation written now is younger than any token.
LEMMA BehindKept ==
  ASSUME TypeOK, AgeInv, StoreGrows, UNCHANGED revAge, NEW t, NEW d \in Nat, Behind(t, d)
  PROVE  BehindNext(t, d)
<1> SUFFICES ASSUME NEW r \in Records, EntryInvalid(r)',
                    ~(statusByRecID'[r] \in DOMAIN t /\ t[statusByRecID'[r]] = 1)
             PROVE  revAge[r] <= d
  BY DEF BehindNext
<1>1. CASE EntryInvalid(r)
  <2>1. ~ShowsRevoked(t, r)
    BY <1>1, GrowKeeps DEF TypeOK
  <2> QED BY <1>1, <2>1 DEF Behind
<1>2. CASE ~EntryInvalid(r)
  BY <1>2 DEF AgeInv
<1> QED BY <1>1, <1>2

\* A tick makes a token as much older as the revocations it misses.
LEMMA BehindTicks ==
  ASSUME TypeOK, AgeInv, Tick, NEW t, NEW d \in Nat, Behind(t, d)
  PROVE  BehindNext(t, d + 1)
<1> SUFFICES ASSUME NEW r \in Records, EntryInvalid(r)',
                    ~(statusByRecID'[r] \in DOMAIN t /\ t[statusByRecID'[r]] = 1)
             PROVE  revAge'[r] <= d + 1
  BY DEF BehindNext
<1>1. EntryInvalid(r) /\ ~ShowsRevoked(t, r)
  BY DEF Tick, storeVars, EntryInvalid, ShowsRevoked, SL!HasEntry, SL!StatusOf
<1>2. revAge[r] <= d /\ revAge[r] \in Nat
  BY <1>1, TTLAssumption, MaxSignAssumption DEF Behind, TypeOK, MaxAge
<1>3. revAge'[r] \in {revAge[r], revAge[r] + 1}
  BY DEF Tick
<1> QED BY <1>2, <1>3

LEMMA AgeStep ==
  ASSUME TypeOK, CacheInv, AgeInv, [Next]_vars
  PROVE  AgeInv'
<1> DEFINE Young == \A r \in Records : ~EntryInvalid(r) => revAge[r] = 0
           left  == TTL - cacheLeft + MaxSign
<1>0. StoreGrows /\ SL!TypeOK
  BY NextGrows DEF TypeOK
<1>1. left \in Nat /\ cacheLeft \in 0..TTL /\ \A g \in Getters : signFor[g] \in Nat
  BY TTLAssumption, MaxSignAssumption DEF TypeOK
<1>2. ASSUME UNCHANGED revAge PROVE Young'
  BY <1>0, <1>2, GrowKeeps DEF AgeInv
<1>3. ASSUME UNCHANGED <<revAge, statusCacheToken, cacheLeft>>
      PROVE  CacheFresh' => Behind(statusCacheToken, left)'
  <2>1. CacheFresh' => Behind(statusCacheToken, left)
    BY <1>3 DEF AgeInv, CacheFresh
  <2>2. CacheFresh' => BehindNext(statusCacheToken, left)
    BY <1>0, <1>1, <1>3, <2>1, BehindKept
  <2> QED BY <1>3, <2>2 DEF Behind, BehindNext, ShowsRevoked
<1>4. ASSUME NEW h \in Getters, UNCHANGED revAge, gpc[h] = "sign", tok'[h] = tok[h], signFor'[h] = signFor[h]
      PROVE  Behind(tok[h], signFor[h])'
  <2>1. BehindNext(tok[h], signFor[h])
    BY <1>0, <1>1, <1>4, BehindKept DEF AgeInv
  <2> QED BY <1>4, <2>1 DEF Behind, BehindNext, ShowsRevoked
\* Steps that leave the tokens alone.
<1>5. ASSUME UNCHANGED <<revAge, statusCacheToken, cacheLeft, gpc, tok, signFor>> PROVE AgeInv'
  BY <1>2, <1>3, <1>4, <1>5 DEF AgeInv
<1>6. ASSUME NEW g \in Getters, GetStart(g) \/ GetMiss(g) \/ GetCached(g) \/ GetFails(g) PROVE AgeInv'
  <2>1. UNCHANGED <<revAge, statusCacheToken, cacheLeft>>
    BY <1>6 DEF GetStart, GetMiss, GetCached, GetFails, cacheVars
  <2>2. ASSUME NEW h \in Getters, gpc'[h] = "sign"
        PROVE  gpc[h] = "sign" /\ tok'[h] = tok[h] /\ signFor'[h] = signFor[h]
    BY <1>6, <2>2 DEF GetStart, GetMiss, GetCached, GetFails, Answer, TypeOK
  <2> QED BY <1>2, <1>3, <1>4, <2>1, <2>2 DEF AgeInv
<1>7. ASSUME NEW g \in Getters, GetLoad(g) PROVE AgeInv'
  <2>1. UNCHANGED <<revAge, statusCacheToken, cacheLeft, storeVars>>
    BY <1>7 DEF GetLoad, cacheVars
  <2>2. Behind(tok[g], signFor[g])'
    <3>1. tok'[g] = statusByIdx /\ signFor'[g] = 0
      BY <1>7, BuildDense DEF GetLoad, TypeOK, SL!TypeOK
    <3>2. \A r \in Records : EntryInvalid(r) => ShowsRevoked(statusByIdx, r)
      BY DEF EntryInvalid, ShowsRevoked, SL!HasEntry, SL!StatusOf, TypeOK, SL!TypeOK
    <3> QED BY <2>1, <3>1, <3>2 DEF Behind, ShowsRevoked, EntryInvalid, SL!HasEntry, SL!StatusOf, storeVars
  <2>3. ASSUME NEW h \in Getters, h # g, gpc'[h] = "sign"
        PROVE  gpc[h] = "sign" /\ tok'[h] = tok[h] /\ signFor'[h] = signFor[h]
    BY <1>7, <2>3 DEF GetLoad, TypeOK
  <2>4. ASSUME NEW h \in Getters, gpc'[h] = "sign" PROVE Behind(tok[h], signFor[h])'
    BY <1>4, <2>1, <2>2, <2>3, <2>4
  <2> QED BY <1>2, <1>3, <2>1, <2>4 DEF AgeInv
<1>8. ASSUME NEW g \in Getters, GetSigned(g) PROVE AgeInv'
  <2>1. /\ UNCHANGED <<revAge, storeVars>> /\ gpc[g] = "sign"
        /\ statusCacheToken' = tok[g] /\ cacheLeft' = TTL
    BY <1>8 DEF GetSigned
  <2>2. Behind(tok[g], signFor[g]) /\ signFor[g] <= MaxSign /\ left' = MaxSign
    BY <2>1, TTLAssumption, MaxSignAssumption DEF AgeInv, TypeOK
  <2>3. Behind(tok[g], MaxSign)
    BY <1>1, <2>2, TTLAssumption, MaxSignAssumption DEF Behind, TypeOK, MaxAge
  <2>4. BehindNext(tok[g], MaxSign)
    BY <1>0, <2>1, <2>3, BehindKept, MaxSignAssumption
  <2>5. Behind(statusCacheToken, left)'
    BY <2>1, <2>2, <2>4 DEF Behind, BehindNext, ShowsRevoked
  <2>6. ASSUME NEW h \in Getters, gpc'[h] = "sign"
        PROVE  gpc[h] = "sign" /\ tok'[h] = tok[h] /\ signFor'[h] = signFor[h]
    BY <1>8, <2>6 DEF GetSigned, Answer, TypeOK
  <2> QED BY <1>2, <1>4, <2>1, <2>5, <2>6 DEF AgeInv
<1>9. ASSUME NEW v \in Revokers, (\E r \in Records : RevokeStart(v, r)) \/ RevokeStep(v) PROVE AgeInv'
  <2>1. UNCHANGED <<revAge, gpc, tok, signFor, cacheLeft>>
    BY <1>9 DEF RevokeStart, RevokeStep, RevokeFind, RevokeLookup, RevokeSet, RevokeFails,
                RevokeClear, RevokeGoto, getVars, cacheVars
  <2>2. statusCacheToken' \in {statusCacheToken, NoToken}
    BY <1>9 DEF RevokeStart, RevokeStep, RevokeFind, RevokeLookup, RevokeSet, RevokeFails,
                RevokeClear, cacheVars
  <2>3. CacheFresh' => Behind(statusCacheToken, left)'
    BY <1>3, <2>1, <2>2 DEF CacheFresh
  <2> QED BY <1>2, <1>4, <2>1, <2>3 DEF AgeInv
<1>10. ASSUME NEW r \in Records, IssueAllocate(r) \/ IssueMark(r) PROVE AgeInv'
  BY <1>5, <1>10 DEF IssueAllocate, IssueMark, cacheVars, getVars
<1>11. ASSUME Restart PROVE AgeInv'
  <2>1. UNCHANGED revAge /\ statusCacheToken' = NoToken /\ \A g \in Getters : gpc'[g] = "idle"
    BY <1>11 DEF Restart
  <2> QED BY <1>2, <2>1 DEF AgeInv, CacheFresh
<1>12. ASSUME Tick PROVE AgeInv'
  <2>1. Young'
    BY <1>12 DEF AgeInv, Tick, storeVars, EntryInvalid, SL!HasEntry, SL!StatusOf
  <2>2. ASSUME CacheFresh' PROVE Behind(statusCacheToken, left)'
    <3>1. CacheFresh /\ statusCacheToken' = statusCacheToken /\ left' = left + 1
      BY <1>1, <1>12, <2>2, TTLAssumption, MaxSignAssumption DEF Tick, CacheFresh
    <3>2. BehindNext(statusCacheToken, left + 1)
      BY <1>1, <1>12, <3>1, BehindTicks DEF AgeInv
    <3> QED BY <3>1, <3>2 DEF Behind, BehindNext, ShowsRevoked
  <2>3. ASSUME NEW h \in Getters, gpc'[h] = "sign" PROVE Behind(tok[h], signFor[h])'
    <3>1. gpc[h] = "sign" /\ tok'[h] = tok[h] /\ signFor'[h] = signFor[h] + 1
      BY <1>12, <2>3 DEF Tick
    <3>2. BehindNext(tok[h], signFor[h] + 1)
      BY <1>1, <1>12, <3>1, BehindTicks DEF AgeInv
    <3> QED BY <3>1, <3>2 DEF Behind, BehindNext, ShowsRevoked
  <2> QED BY <2>1, <2>2, <2>3 DEF AgeInv
<1>13. ASSUME UNCHANGED vars PROVE AgeInv'
  BY <1>5, <1>13 DEF vars, cacheVars, getVars
<1> QED BY <1>6, <1>7, <1>8, <1>9, <1>10, <1>11, <1>12, <1>13 DEF Next, GetStep

\* A revocation whose handler failed or died before it cleared the cache is in every
\* token that GetStatusListToken answers once the cache lifetime and the time of one
\* rebuild have passed, for any lifetime and any signing delay.
THEOREM StaleForABoundedTime == Spec => StalenessBounded
<1>1. Init => AgeInv
  BY DEF Init, AgeInv, CacheFresh
<1>2. TypeOK /\ CacheInv /\ AgeInv /\ [Next]_vars => AgeInv'
  BY AgeStep
<1>3. TypeOK /\ AgeInv /\ [Next]_vars =>
        [\A g \in Getters : gpc[g] # "served" /\ gpc'[g] = "served" =>
           \A r \in Records : revAge[r] > TTL + MaxSign => ShowsRevoked(tok'[g], r)]_vars
  <2> SUFFICES ASSUME TypeOK, AgeInv, Next, NEW g \in Getters, gpc[g] # "served", gpc'[g] = "served",
                      NEW r \in Records, revAge[r] > TTL + MaxSign
               PROVE  ShowsRevoked(tok'[g], r)
    BY DEF vars, getVars
  <2>1. revAge[r] \in Nat /\ TTL \in Nat /\ MaxSign \in Nat /\ cacheLeft \in 0..TTL /\ signFor[g] \in 0..MaxSign
    BY TTLAssumption, MaxSignAssumption DEF TypeOK, MaxAge
  <2>2. EntryInvalid(r)
    BY <2>1 DEF AgeInv
  <2>3. CASE GetCached(g)
    <3>1. tok'[g] = statusCacheToken /\ Behind(statusCacheToken, TTL - cacheLeft + MaxSign)
      BY <2>3 DEF GetCached, Answer, AgeInv, TypeOK
    <3> QED BY <2>1, <2>2, <3>1 DEF Behind
  <2>4. CASE GetSigned(g)
    <3>1. tok'[g] = tok[g] /\ Behind(tok[g], signFor[g])
      BY <2>4 DEF GetSigned, Answer, AgeInv, TypeOK
    <3> QED BY <2>1, <2>2, <3>1 DEF Behind
  \* No other step moves g to "served".
  <2>5. ASSUME NEW h \in Getters, GetStart(h) \/ GetStep(h) PROVE GetCached(g) \/ GetSigned(g)
    <3>1. CASE h = g
      BY <2>5, <3>1 DEF GetStart, GetStep, GetMiss, GetLoad, GetFails, TypeOK
    <3>2. CASE h # g
      BY <2>5, <3>2 DEF GetStart, GetStep, GetMiss, GetCached, GetLoad, GetSigned, GetFails, Answer, TypeOK
    <3> QED BY <3>1, <3>2
  <2>6. ASSUME NEW v \in Revokers, (\E t \in Records : RevokeStart(v, t)) \/ RevokeStep(v) PROVE gpc' = gpc
    BY <2>6 DEF RevokeStart, RevokeStep, RevokeFind, RevokeLookup, RevokeSet, RevokeFails,
                RevokeClear, RevokeGoto, getVars
  <2>7. ASSUME NEW t \in Records, IssueAllocate(t) \/ IssueMark(t) PROVE gpc' = gpc
    BY <2>7 DEF IssueAllocate, IssueMark, getVars
  <2>8. ~Restart /\ ~Tick
    BY DEF Restart, Tick
  <2> QED BY <2>3, <2>4, <2>5, <2>6, <2>7, <2>8 DEF Next
<1> QED BY <1>1, <1>2, <1>3, TypeCorrect, CacheCorrect, PTL DEF Spec, StalenessBounded

-----------------------------------------------------------------------------
(* Handlers, cache and restarts use the store as StatusListStore says.     *)

\* Every step is a step of the store, or leaves it alone.
LEMMA StoreStep == TypeOK /\ [Next]_vars => [SL!Next]_(SL!storeVars)
<1> SUFFICES ASSUME TypeOK, [Next]_vars PROVE [SL!Next]_(SL!storeVars)
  OBVIOUS
<1>1. ASSUME UNCHANGED storeVars PROVE UNCHANGED SL!storeVars
  BY <1>1 DEF storeVars, SL!storeVars
<1>2. ASSUME NEW v \in Revokers, RevokeSet(v) PROVE SL!Next
  <2>1. rrec[v] \in Records
    BY DEF TypeOK
  <2> QED BY <1>2, <2>1 DEF RevokeSet, SL!Next
<1>3. ASSUME NEW r \in Records, IssueAllocate(r) PROVE SL!Next
  BY <1>3 DEF IssueAllocate, SL!Next
<1>4. ASSUME Next PROVE [SL!Next]_(SL!storeVars)
  BY <1>1, <1>2, <1>3, <1>4
  DEF Next, GetStart, GetStep, GetMiss, GetCached, GetLoad, GetSigned, GetFails,
      RevokeStart, RevokeStep, RevokeFind, RevokeLookup, RevokeFails, RevokeClear,
      IssueMark, Restart, Tick
<1> QED BY <1>1, <1>4 DEF vars

\* GetStatusListToken and RevokeCredential use the status list only through the
\* operations of the StatusListStore interface, and change nothing else in it.
THEOREM UsesStore == Spec => SL!Spec
<1>1. Init => SL!Init
  BY DEF Init
<1> QED
  BY <1>1, StoreStep, TypeCorrect, PTL DEF Spec, SL!Spec

\* So a token may be trusted to be outdated in one direction only: whatever
\* handlers fail and processes restart, RevokeCredential's SetStatus is never undone
\* and no record's index is given away.
THEOREM EntriesForGood == Spec => SL!EntriesPersist
<1>1. TypeOK /\ [Next]_vars => [SL!EntryPersists]_(SL!storeVars)
  <2> SUFFICES ASSUME TypeOK, [Next]_vars, NEW r \in Records, SL!HasEntry(r)
               PROVE  /\ statusByRecID'[r] = statusByRecID[r]
                      /\ SL!StatusOf(r) = 1 => SL!StatusOf(r)' = 1
    BY DEF SL!EntryPersists
  <2>1. statusByRecID[r] \in DOMAIN statusByIdx
    BY DEF TypeOK, SL!TypeOK, SL!HasEntry
  <2> QED
    BY <2>1, NextGrows DEF StoreGrows, SL!StatusOf
<1> QED
  BY <1>1, TypeCorrect, PTL DEF Spec, SL!EntriesPersist
=============================================================================
