---------------------- MODULE AccessTokenVerifierProofs ----------------------
(***************************************************************************)
(* AccessTokenVerifier, for any tokens, keys, lifetimes, timeout and       *)
(* number of concurrent calls: a refusal is final, and how old the         *)
(* denylist and the keys are that a decision rests on.                     *)
(***************************************************************************)
EXTENDS AccessTokenVerifier, TLAPS

\* The mutex is held across a fetch.
MutexInv == \A c \in Calls : Fetching(c) => mu = c

\* What the AS's own history says.
ASInv ==
  /\ \A k \in asKeys : keyGoneFor[k] = 0
  /\ \A j \in JTIs \ asRevoked : revFor[j] = 0

\* No denylist that a decision may rest on misses a jti that was reported.
DenylistInv ==
  /\ reportedRevoked \subseteq asRevoked /\ revoked \subseteq asRevoked
  /\ RevokedFresh => reportedRevoked \subseteq revoked
  /\ \A c \in Calls : pc[c] = "revGot" =>
       reportedRevoked \subseteq resp[c] /\ resp[c] \subseteq asRevoked
  /\ \A c \in Calls : mustReject[c] \subseteq reportedRevoked

\* What an answer or a cache misses, it has missed for a bounded time: an answer
\* since it was composed, a cache also for the part of its lifetime that is over.
AgeInv ==
  /\ \A c \in Calls : pc[c] = "revGot" => \A j \in JTIs \ resp[c] : revFor[j] <= sentFor[c]
  /\ RevokedFresh => \A j \in JTIs \ revoked :
       revFor[j] <= (RevokedTTL - revokedLeft) + HTTPTimeout
  /\ \A c \in Calls : pc[c] = "keysGot" => \A k \in resp[c] : keyGoneFor[k] <= 1 + sentFor[c]
  /\ KeysFresh => \A k \in keys : keyGoneFor[k] <= 1 + (KeysTTL - keysLeft) + HTTPTimeout

IInv ==
  /\ TypeOK
  /\ MutexInv
  /\ ASInv
  /\ DenylistInv
  /\ AgeInv
  /\ RefusalIsFinal
  /\ StaleKeysOnlyInOutage

-----------------------------------------------------------------------------
\* The times are numbers.
LEMMA Numbers ==
  ASSUME TypeOK
  PROVE  /\ KeysTTL \in Nat \ {0} /\ RevokedTTL \in Nat \ {0} /\ HTTPTimeout \in Nat
         /\ keysLeft \in Nat /\ keysLeft <= KeysTTL
         /\ revokedLeft \in Int /\ -1 <= revokedLeft /\ revokedLeft <= RevokedTTL
         /\ \A c \in Calls : sentFor[c] \in Nat /\ sentFor[c] <= HTTPTimeout
         /\ \A k \in Keys : keyGoneFor[k] \in Nat
         /\ \A j \in JTIs : revFor[j] \in Nat
BY TimesAssumption DEF TypeOK, KeysBound, RevokedBound

LEMMA JTIType == ASSUME TypeOK, NEW c \in Calls PROVE token[c] \in Tokens /\ token[c].jti \in JTIs
BY DEF TypeOK, JTIs

LEMMA InitInv == Init => IInv
<1> SUFFICES ASSUME Init PROVE IInv
  OBVIOUS
<1>1. TypeOK
  BY TimesAssumption DEF Init, TypeOK, KeysBound, RevokedBound, Labels, Done
<1>2. MutexInv /\ ASInv
  BY DEF Init, MutexInv, ASInv, Fetching
<1>3. DenylistInv /\ AgeInv
  BY DEF Init, DenylistInv, AgeInv, RevokedFresh, KeysFresh
<1>4. RefusalIsFinal /\ StaleKeysOnlyInOutage
  BY DEF Init, RefusalIsFinal, StaleKeysOnlyInOutage
<1> QED
  BY <1>1, <1>2, <1>3, <1>4 DEF IInv

LEMMA TypeStep == IInv /\ [Next]_vars => TypeOK'
<1> SUFFICES ASSUME IInv, [Next]_vars PROVE TypeOK'
  OBVIOUS
<1> USE DEF IInv, TypeOK, Labels, Done, asVars, cacheVars, callVars
<1>1. ASSUME NEW c \in Calls, NEW t \in Tokens, VerifyStart(c, t) PROVE TypeOK'
  BY <1>1 DEF VerifyStart
<1>2. ASSUME NEW c \in Calls, KeysCached(c) PROVE TypeOK'
  BY <1>2 DEF KeysCached, KeysFresh, HaveKeys
<1>3. ASSUME NEW c \in Calls, FetchKeys(c) \/ FetchRevoked(c) PROVE TypeOK'
  BY <1>3, TimesAssumption DEF FetchKeys, FetchRevoked, SendRequest
<1>4. ASSUME NEW c \in Calls, ASAnswer(c) PROVE TypeOK'
  BY <1>4 DEF ASAnswer
<1>5. ASSUME NEW c \in Calls, KeysArrive(c) PROVE TypeOK'
  BY <1>5, TimesAssumption DEF KeysArrive, HaveKeys, EndFetch
<1>6. ASSUME NEW c \in Calls, KeysFetchFails(c) PROVE TypeOK'
  <2>1. CASE keys # NoKeys
    <3>1. pc' \in [Calls -> Labels] /\ keysUsed' \in [Calls -> SUBSET Keys] /\ keysFailed' \in [Calls -> BOOLEAN]
      BY <1>6, <2>1 DEF KeysFetchFails, HaveKeys
    <3>2. mu' \in Calls \cup {NoCall} /\ sentFor' \in [Calls -> 0..HTTPTimeout]
      BY <1>6, TimesAssumption DEF KeysFetchFails, EndFetch
    <3>3. /\ resp' \in [Calls -> (SUBSET Keys) \cup (SUBSET JTIs)]
          /\ \A b \in Calls : \/ pc'[b] = "keysGot" /\ resp'[b] \subseteq Keys
                              \/ pc'[b] = "revGot" /\ resp'[b] \subseteq JTIs
                              \/ resp'[b] = {}
      BY <1>6, <2>1 DEF KeysFetchFails, HaveKeys, EndFetch
    <3> QED
      BY <1>6, <3>1, <3>2, <3>3 DEF KeysFetchFails
  <2>2. CASE keys = NoKeys
    BY <1>6, <2>2, TimesAssumption DEF KeysFetchFails, EndFetch
  <2> QED
    BY <2>1, <2>2
<1>7. ASSUME NEW c \in Calls, CheckToken(c) PROVE TypeOK'
  BY <1>7 DEF CheckToken
<1>8. ASSUME NEW c \in Calls, RevokedCached(c) PROVE TypeOK'
  BY <1>8, JTIType DEF RevokedCached, Decide
<1>9. ASSUME NEW c \in Calls, RevokedArrives(c) PROVE TypeOK'
  BY <1>9, JTIType, TimesAssumption DEF RevokedArrives, Decide, EndFetch
<1>10. ASSUME NEW c \in Calls, RevokedFetchFails(c) PROVE TypeOK'
  BY <1>10, TimesAssumption DEF RevokedFetchFails, EndFetch
<1>11. ASSUME NEW k \in Keys, ASPublishKey(k) \/ ASWithdrawKey(k) PROVE TypeOK'
  BY <1>11, TimesAssumption DEF ASPublishKey, ASWithdrawKey, KeysBound
<1>12. ASSUME NEW j \in JTIs, ASRevoke(j) PROVE TypeOK'
  BY <1>12 DEF ASRevoke
<1>13. CASE Restart
  BY <1>13, TimesAssumption DEF Restart
<1>14. CASE Tick
  BY <1>14, TimesAssumption DEF Tick, Fetching, KeysBound, RevokedBound
<1>15. CASE UNCHANGED vars
  BY <1>15 DEF vars
<1> QED
  BY <1>1, <1>2, <1>3, <1>4, <1>5, <1>6, <1>7, <1>8, <1>9, <1>10, <1>11, <1>12, <1>13, <1>14, <1>15
     DEF Next, CallStep, TakeLock, FetchStep

\* The lock is taken with the request and released with the answer.
LEMMA MutexStep == IInv /\ [Next]_vars => MutexInv'
<1> SUFFICES ASSUME IInv, [Next]_vars PROVE MutexInv'
  OBVIOUS
<1> USE NoCallAssumption DEF IInv, TypeOK, MutexInv, Fetching, asVars, cacheVars, callVars
<1>1. ASSUME NEW c \in Calls, NEW t \in Tokens, VerifyStart(c, t) PROVE MutexInv'
  BY <1>1 DEF VerifyStart
<1>2. ASSUME NEW c \in Calls, FetchKeys(c) \/ FetchRevoked(c) \/ ASAnswer(c) PROVE MutexInv'
  BY <1>2 DEF FetchKeys, FetchRevoked, SendRequest, ASAnswer
<1>3. ASSUME NEW c \in Calls, KeysArrive(c) \/ KeysFetchFails(c) PROVE MutexInv'
  BY <1>3 DEF KeysArrive, KeysFetchFails, HaveKeys, EndFetch
<1>4. ASSUME NEW c \in Calls, RevokedArrives(c) \/ RevokedFetchFails(c) PROVE MutexInv'
  BY <1>4 DEF RevokedArrives, RevokedFetchFails, Decide, EndFetch
<1>5. ASSUME NEW c \in Calls, KeysCached(c) \/ CheckToken(c) \/ RevokedCached(c) PROVE MutexInv'
  BY <1>5 DEF KeysCached, CheckToken, RevokedCached, HaveKeys, Decide
<1>6. CASE \/ \E k \in Keys : ASPublishKey(k) \/ ASWithdrawKey(k)
           \/ \E j \in JTIs : ASRevoke(j)
           \/ Restart \/ Tick \/ UNCHANGED vars
  BY <1>6 DEF ASPublishKey, ASWithdrawKey, ASRevoke, Restart, Tick, vars
<1> QED
  BY <1>1, <1>2, <1>3, <1>4, <1>5, <1>6 DEF Next, CallStep, TakeLock, FetchStep

\* The steps of the calls, which leave the AS alone.
LEMMA CallsLeaveAS ==
  ASSUME NEW c \in Calls, CallStep(c) \/ \E t \in Tokens : VerifyStart(c, t)
  PROVE  UNCHANGED asVars
BY DEF CallStep, TakeLock, FetchStep, VerifyStart, KeysCached, FetchKeys, RevokedCached, FetchRevoked,
   SendRequest, ASAnswer, KeysArrive, KeysFetchFails, RevokedArrives, RevokedFetchFails, CheckToken

LEMMA ASStep == IInv /\ [Next]_vars => ASInv'
<1> SUFFICES ASSUME IInv, [Next]_vars PROVE ASInv'
  OBVIOUS
<1> USE DEF IInv, TypeOK, ASInv
<1>1. CASE UNCHANGED asVars
  BY <1>1 DEF asVars
<1>2. ASSUME NEW k \in Keys, ASPublishKey(k) \/ ASWithdrawKey(k) PROVE ASInv'
  BY <1>2 DEF ASPublishKey, ASWithdrawKey
<1>3. ASSUME NEW j \in JTIs, ASRevoke(j) PROVE ASInv'
  BY <1>3 DEF ASRevoke
<1>4. CASE Tick
  BY <1>4, TimesAssumption DEF Tick
<1>5. CASE Restart \/ UNCHANGED vars
  BY <1>1, <1>5 DEF Restart, vars
<1> QED
  BY <1>1, <1>2, <1>3, <1>4, <1>5, CallsLeaveAS DEF Next

\* While a denylist is on its way nothing is reported, for that takes the lock.
LEMMA DenylistStep == IInv /\ [Next]_vars => DenylistInv'
<1> SUFFICES ASSUME IInv, [Next]_vars PROVE DenylistInv'
  OBVIOUS
<1> USE NoCallAssumption DEF IInv, TypeOK, MutexInv, Fetching, DenylistInv, RevokedFresh, asVars, cacheVars, callVars
<1>1. ASSUME NEW c \in Calls, NEW t \in Tokens, VerifyStart(c, t) PROVE DenylistInv'
  BY <1>1 DEF VerifyStart
<1>2. ASSUME NEW c \in Calls, FetchKeys(c) \/ FetchRevoked(c) PROVE DenylistInv'
  BY <1>2 DEF FetchKeys, FetchRevoked, SendRequest
<1>3. ASSUME NEW c \in Calls, ASAnswer(c) PROVE DenylistInv'
  BY <1>3 DEF ASAnswer
<1>4. ASSUME NEW c \in Calls, KeysArrive(c) \/ KeysFetchFails(c) PROVE DenylistInv'
  BY <1>4 DEF KeysArrive, KeysFetchFails, HaveKeys, EndFetch
<1>5. ASSUME NEW c \in Calls, RevokedFetchFails(c) PROVE DenylistInv'
  BY <1>5 DEF RevokedFetchFails, EndFetch
<1>6. ASSUME NEW c \in Calls, KeysCached(c) \/ CheckToken(c) PROVE DenylistInv'
  BY <1>6 DEF KeysCached, CheckToken, HaveKeys
<1>7. ASSUME NEW c \in Calls, RevokedCached(c) PROVE DenylistInv'
  BY <1>7 DEF RevokedCached, Decide
<1>8. ASSUME NEW c \in Calls, RevokedArrives(c) PROVE DenylistInv'
  <2>1. /\ revoked' = resp[c] /\ resp[c] \subseteq asRevoked /\ reportedRevoked \subseteq resp[c]
        /\ reportedRevoked' \subseteq resp[c] /\ reportedRevoked \subseteq reportedRevoked'
        /\ UNCHANGED <<asRevoked, mustReject>>
    BY <1>8 DEF RevokedArrives, Decide
  <2>2. \A b \in Calls : pc'[b] # "revGot"
    BY <1>8 DEF RevokedArrives, Decide
  <2> QED
    BY <2>1, <2>2
<1>9. CASE \/ \E k \in Keys : ASPublishKey(k) \/ ASWithdrawKey(k)
           \/ \E j \in JTIs : ASRevoke(j)
           \/ Restart \/ UNCHANGED vars
  BY <1>9 DEF ASPublishKey, ASWithdrawKey, ASRevoke, Restart, vars
<1>10. CASE Tick
  BY <1>10, TimesAssumption DEF Tick
<1> QED
  BY <1>1, <1>2, <1>3, <1>4, <1>5, <1>6, <1>7, <1>8, <1>9, <1>10 DEF Next, CallStep, TakeLock, FetchStep

\* A call that is let through decided on a denylist with all it must reject.
LEMMA RefusalStep == IInv /\ [Next]_vars => RefusalIsFinal'
<1> SUFFICES ASSUME IInv, [Next]_vars PROVE RefusalIsFinal'
  OBVIOUS
<1> USE DEF IInv, TypeOK, DenylistInv, RefusalIsFinal, asVars, cacheVars, callVars
<1>1. ASSUME NEW c \in Calls, NEW t \in Tokens, VerifyStart(c, t) PROVE RefusalIsFinal'
  BY <1>1 DEF VerifyStart
<1>2. ASSUME NEW c \in Calls, FetchKeys(c) \/ FetchRevoked(c) \/ ASAnswer(c) PROVE RefusalIsFinal'
  BY <1>2 DEF FetchKeys, FetchRevoked, SendRequest, ASAnswer
<1>3. ASSUME NEW c \in Calls, KeysArrive(c) \/ KeysFetchFails(c) \/ RevokedFetchFails(c) PROVE RefusalIsFinal'
  BY <1>3 DEF KeysArrive, KeysFetchFails, RevokedFetchFails, HaveKeys
<1>4. ASSUME NEW c \in Calls, KeysCached(c) \/ CheckToken(c) PROVE RefusalIsFinal'
  BY <1>4 DEF KeysCached, CheckToken, HaveKeys
<1>5. ASSUME NEW c \in Calls, RevokedCached(c) \/ RevokedArrives(c) PROVE RefusalIsFinal'
  BY <1>5 DEF RevokedCached, RevokedArrives, Decide
<1>6. CASE \/ \E k \in Keys : ASPublishKey(k) \/ ASWithdrawKey(k)
           \/ \E j \in JTIs : ASRevoke(j)
           \/ Restart \/ Tick \/ UNCHANGED vars
  BY <1>6 DEF ASPublishKey, ASWithdrawKey, ASRevoke, Restart, Tick, vars
<1> QED
  BY <1>1, <1>2, <1>3, <1>4, <1>5, <1>6 DEF Next, CallStep, TakeLock, FetchStep

\* Ages and times left move together with the clock.
LEMMA AgeTick == IInv /\ Tick => AgeInv'
<1> SUFFICES ASSUME IInv, Tick PROVE AgeInv'
  OBVIOUS
<1>0. /\ \A j \in JTIs : revFor'[j] <= revFor[j] + 1 /\ revFor'[j] \in Nat
      /\ \A k \in Keys : keyGoneFor'[k] <= keyGoneFor[k] + 1 /\ keyGoneFor'[k] \in Nat
      /\ \A c \in Calls : Fetching(c) => sentFor'[c] = sentFor[c] + 1
  BY Numbers DEF Tick, IInv
<1>1. ASSUME NEW c \in Calls, pc'[c] = "revGot", NEW j \in JTIs \ resp'[c] PROVE revFor'[j] <= sentFor'[c]
  BY <1>0, <1>1, Numbers DEF Tick, IInv, AgeInv, Fetching
<1>2. ASSUME RevokedFresh', NEW j \in JTIs \ revoked'
      PROVE  revFor'[j] <= (RevokedTTL - revokedLeft') + HTTPTimeout
  BY <1>0, <1>2, Numbers DEF Tick, IInv, AgeInv, RevokedFresh
<1>3. ASSUME NEW c \in Calls, pc'[c] = "keysGot", NEW k \in resp'[c] PROVE keyGoneFor'[k] <= 1 + sentFor'[c]
  <2>1. k \in Keys
    BY <1>3 DEF Tick, IInv, TypeOK
  <2> QED
    BY <1>0, <1>3, <2>1, Numbers DEF Tick, IInv, AgeInv, Fetching
<1>4. ASSUME KeysFresh', NEW k \in keys'
      PROVE  keyGoneFor'[k] <= 1 + (KeysTTL - keysLeft') + HTTPTimeout
  <2>1. k \in Keys /\ KeysFresh
    BY <1>4, Numbers DEF Tick, IInv, TypeOK, KeysFresh
  <2> QED
    BY <1>0, <1>4, <2>1, Numbers DEF Tick, IInv, AgeInv, KeysFresh
<1> QED
  BY <1>1, <1>2, <1>3, <1>4 DEF AgeInv

\* Between two ticks an answer is composed young, and a cache filled with it.
LEMMA AgeStep == IInv /\ [Next]_vars => AgeInv'
<1> SUFFICES ASSUME IInv, [Next]_vars PROVE AgeInv'
  OBVIOUS
<1> USE Numbers DEF IInv, AgeInv, RevokedFresh, KeysFresh, asVars, cacheVars, callVars
<1>1. ASSUME NEW c \in Calls, NEW t \in Tokens, VerifyStart(c, t) PROVE AgeInv'
  BY <1>1 DEF VerifyStart, TypeOK
<1>2. ASSUME NEW c \in Calls, FetchKeys(c) \/ FetchRevoked(c) PROVE AgeInv'
  BY <1>2 DEF FetchKeys, FetchRevoked, SendRequest, TypeOK
<1>3. ASSUME NEW c \in Calls, ASAnswer(c) PROVE AgeInv'
  BY <1>3 DEF ASAnswer, ASInv, TypeOK
<1>4. ASSUME NEW c \in Calls, KeysArrive(c) PROVE AgeInv'
  <2>1. \A k \in resp[c] : k \in Keys /\ keyGoneFor[k] <= 1 + HTTPTimeout
    BY <1>4 DEF KeysArrive, TypeOK
  <2>2. \A b \in Calls : pc'[b] \notin {"keysGot", "revGot"}
    BY <1>4, NoCallAssumption DEF KeysArrive, HaveKeys, MutexInv, Fetching, TypeOK
  <2> QED
    BY <1>4, <2>1, <2>2 DEF KeysArrive
<1>5. ASSUME NEW c \in Calls, RevokedArrives(c) PROVE AgeInv'
  <2>1. \A j \in JTIs \ resp[c] : revFor[j] <= HTTPTimeout
    BY <1>5 DEF RevokedArrives
  <2>2. \A b \in Calls : pc'[b] \notin {"keysGot", "revGot"}
    BY <1>5, NoCallAssumption DEF RevokedArrives, Decide, MutexInv, Fetching, TypeOK
  <2> QED
    BY <1>5, <2>1, <2>2 DEF RevokedArrives
<1>6. ASSUME NEW c \in Calls, KeysFetchFails(c) \/ RevokedFetchFails(c) PROVE AgeInv'
  BY <1>6 DEF KeysFetchFails, RevokedFetchFails, HaveKeys, EndFetch, TypeOK
<1>7. ASSUME NEW c \in Calls, KeysCached(c) \/ CheckToken(c) \/ RevokedCached(c) PROVE AgeInv'
  BY <1>7 DEF KeysCached, CheckToken, RevokedCached, HaveKeys, Decide, TypeOK
<1>8. ASSUME NEW k \in Keys, ASPublishKey(k) PROVE AgeInv'
  BY <1>8 DEF ASPublishKey
<1>9. ASSUME NEW k \in Keys, ASWithdrawKey(k) PROVE AgeInv'
  <2>1. \A l \in Keys : keyGoneFor'[l] = keyGoneFor[l] \/ keyGoneFor'[l] = 1
    BY <1>9 DEF ASWithdrawKey, TypeOK
  <2>2. \A c \in Calls : pc[c] = "keysGot" => resp[c] \subseteq Keys
    BY DEF TypeOK
  <2>3. keys # NoKeys => keys \subseteq Keys
    BY DEF TypeOK
  <2>4. ASSUME KeysFresh, NEW l \in keys PROVE keyGoneFor'[l] <= 1 + (KeysTTL - keysLeft) + HTTPTimeout
    BY <2>1, <2>3, <2>4
  <2>5. ASSUME NEW c \in Calls, pc[c] = "keysGot", NEW l \in resp[c] PROVE keyGoneFor'[l] <= 1 + sentFor[c]
    BY <2>1, <2>2, <2>5
  <2> QED
    BY <1>9, <2>4, <2>5 DEF ASWithdrawKey
<1>10. CASE \/ \E j \in JTIs : ASRevoke(j)
            \/ UNCHANGED vars
  BY <1>10 DEF ASRevoke, vars
<1>11. CASE Restart
  BY <1>11 DEF Restart
<1> HIDE DEF IInv, AgeInv
<1> QED
  BY <1>1, <1>2, <1>3, <1>4, <1>5, <1>6, <1>7, <1>8, <1>9, <1>10, <1>11, AgeTick
     DEF Next, CallStep, TakeLock, FetchStep

\* Keys that were fetched or found fresh are young enough, and no time passes
\* until they are used.
LEMMA StaleStep == IInv /\ [Next]_vars => StaleKeysOnlyInOutage'
<1> SUFFICES ASSUME IInv, [Next]_vars PROVE StaleKeysOnlyInOutage'
  OBVIOUS
<1> USE Numbers DEF IInv, StaleKeysOnlyInOutage, KeysBound, asVars, cacheVars, callVars
<1>1. ASSUME NEW c \in Calls, NEW t \in Tokens, VerifyStart(c, t) PROVE StaleKeysOnlyInOutage'
  BY <1>1 DEF VerifyStart, TypeOK
<1>2. ASSUME NEW c \in Calls, FetchKeys(c) \/ FetchRevoked(c) \/ ASAnswer(c) PROVE StaleKeysOnlyInOutage'
  BY <1>2 DEF FetchKeys, FetchRevoked, SendRequest, ASAnswer, TypeOK
<1>3. ASSUME NEW c \in Calls, KeysCached(c) PROVE StaleKeysOnlyInOutage'
  <2>0. KeysFresh /\ keys \subseteq Keys
    BY <1>3 DEF KeysCached, KeysFresh, TypeOK
  <2>1. \A k \in keys : k \in Keys /\ keyGoneFor[k] <= KeysTTL + HTTPTimeout
    BY <2>0 DEF KeysFresh, AgeInv
  <2> QED
    BY <1>3, <2>1 DEF KeysCached, HaveKeys, TypeOK
<1>4. ASSUME NEW c \in Calls, KeysArrive(c) PROVE StaleKeysOnlyInOutage'
  <2>0. pc[c] = "keysGot" /\ resp[c] \subseteq Keys
    BY <1>4 DEF KeysArrive, TypeOK
  <2>1. \A k \in resp[c] : k \in Keys /\ keyGoneFor[k] <= KeysTTL + HTTPTimeout
    BY <2>0 DEF AgeInv
  <2> QED
    BY <1>4, <2>1 DEF KeysArrive, HaveKeys, TypeOK
<1>5. ASSUME NEW c \in Calls, KeysFetchFails(c) PROVE StaleKeysOnlyInOutage'
  BY <1>5 DEF KeysFetchFails, HaveKeys, TypeOK
<1>6. ASSUME NEW c \in Calls, CheckToken(c) PROVE StaleKeysOnlyInOutage'
  BY <1>6 DEF CheckToken, TypeOK
<1>7. ASSUME NEW c \in Calls, RevokedCached(c) \/ RevokedArrives(c) \/ RevokedFetchFails(c)
      PROVE  StaleKeysOnlyInOutage'
  BY <1>7 DEF RevokedCached, RevokedArrives, RevokedFetchFails, Decide, TypeOK
<1>8. ASSUME NEW k \in Keys, ASPublishKey(k) \/ ASWithdrawKey(k) PROVE StaleKeysOnlyInOutage'
  <2>1. \A l \in Keys : keyGoneFor'[l] = keyGoneFor[l] \/ keyGoneFor'[l] = 1
    BY <1>8 DEF ASPublishKey, ASWithdrawKey, TypeOK
  <2>2. \A c \in Calls : keysUsed[c] \subseteq Keys
    BY DEF TypeOK
  <2> QED
    BY <1>8, <2>1, <2>2 DEF ASPublishKey, ASWithdrawKey
<1>9. CASE \/ \E j \in JTIs : ASRevoke(j)
           \/ Restart \/ Tick \/ UNCHANGED vars
  BY <1>9 DEF ASRevoke, Restart, Tick, vars
<1> HIDE DEF IInv, StaleKeysOnlyInOutage
<1> QED
  BY <1>1, <1>2, <1>3, <1>4, <1>5, <1>6, <1>7, <1>8, <1>9 DEF Next, CallStep, TakeLock, FetchStep

LEMMA StepInv == IInv /\ [Next]_vars => IInv'
BY TypeStep, MutexStep, ASStep, DenylistStep, AgeStep, RefusalStep, StaleStep DEF IInv

\* A call is let through under a cached denylist, or under one that just arrived.
LEMMA AcceptedIsRecent ==
  ASSUME IInv, [Next]_vars, NEW c \in Calls, pc[c] # "accepted", pc'[c] = "accepted"
  PROVE  revFor[token[c].jti] <= RevokedBound
<1>1. RevokedCached(c) \/ RevokedArrives(c)
  <2>1. ASSUME NEW b \in Calls, NEW t \in Tokens, VerifyStart(b, t) PROVE FALSE
    BY <2>1 DEF VerifyStart, IInv, TypeOK
  <2>2. ASSUME NEW b \in Calls, KeysCached(b) \/ FetchKeys(b) \/ FetchRevoked(b) \/ CheckToken(b) PROVE FALSE
    BY <2>2 DEF KeysCached, FetchKeys, FetchRevoked, CheckToken, HaveKeys, SendRequest, IInv, TypeOK
  <2>3. ASSUME NEW b \in Calls, ASAnswer(b) \/ KeysArrive(b) \/ KeysFetchFails(b) \/ RevokedFetchFails(b)
        PROVE  FALSE
    BY <2>3 DEF ASAnswer, KeysArrive, KeysFetchFails, RevokedFetchFails, HaveKeys, IInv, TypeOK
  <2>4. ASSUME NEW b \in Calls, RevokedCached(b) \/ RevokedArrives(b) PROVE b = c
    BY <2>4 DEF RevokedCached, RevokedArrives, Decide, IInv, TypeOK
  <2>5. ASSUME \/ \E k \in Keys : ASPublishKey(k) \/ ASWithdrawKey(k)
               \/ \E j \in JTIs : ASRevoke(j)
               \/ Restart \/ Tick \/ UNCHANGED vars
        PROVE  FALSE
    BY <2>5 DEF ASPublishKey, ASWithdrawKey, ASRevoke, Restart, Tick, vars, callVars
  <2> QED
    BY <2>1, <2>2, <2>3, <2>4, <2>5 DEF Next, CallStep, TakeLock, FetchStep
<1>2. token[c].jti \in JTIs
  BY JTIType DEF IInv
<1>3. CASE RevokedCached(c)
  <2>1. token[c].jti \notin revoked /\ RevokedFresh
    BY <1>3 DEF RevokedCached, Decide, IInv, TypeOK
  <2> QED
    BY <1>2, <2>1, Numbers DEF IInv, AgeInv, RevokedFresh, RevokedBound
<1>4. CASE RevokedArrives(c)
  <2>1. token[c].jti \notin resp[c] /\ pc[c] = "revGot"
    BY <1>4 DEF RevokedArrives, Decide, IInv, TypeOK
  <2> QED
    BY <1>2, <2>1, Numbers DEF IInv, AgeInv, RevokedBound
<1> QED
  BY <1>1, <1>3, <1>4

-----------------------------------------------------------------------------
(* Theorems.                                                               *)

\* The inductive invariant of the two caches and the calls that share them.
THEOREM Inductive == Spec => []IInv
BY InitInv, StepInv, PTL DEF Spec

\* Once one Verify was refused for a revoked token, no later one lets it through,
\* whatever fetches, failures and restarts come between: an older denylist never
\* replaces a newer one, for the mutex is held across the fetch.
THEOREM RefusalForGood == Spec => []RefusalIsFinal
BY Inductive, PTL DEF IInv

\* The keys of a Verify whose own fetch did not fail were all published within
\* jwksCacheTTL and one fetch.
THEOREM KeysRecent == Spec => []StaleKeysOnlyInOutage
BY Inductive, PTL DEF IInv

\* A revoked token is let through no later than revokedCacheTTL and one fetch
\* after its revocation, for any lifetimes and timeout.
THEOREM RevocationTakesEffect == Spec => RevocationBounded
<1>1. IInv /\ [Next]_vars =>
        [\A c \in Calls : pc[c] # "accepted" /\ pc'[c] = "accepted" =>
           revFor[token[c].jti] <= RevokedBound]_vars
  BY AcceptedIsRecent
<1> QED
  BY <1>1, Inductive, PTL DEF Spec, RevocationBounded
=============================================================================
