----------------------- MODULE CredentialRequestProofs -----------------------
(***************************************************************************)
(* DPoPReplay: the bounded memory of jtis, for any sizes of the store and  *)
(* any number of proofs.                                                   *)
(*                                                                         *)
(* CredentialRequest: for any set of requests, wallets, tokens and         *)
(* handlers, the jti store is used as DPoPReplay says, so that its         *)
(* theorems hold here, and what passes the checks was asked for by the     *)
(* holder of the token's key.                                              *)
(***************************************************************************)
EXTENDS CredentialRequest, FiniteSetTheorems, TLAPS

(* The jti store.                                                          *)

\* The inductive invariant.  NoReplayWhileRemembered is not inductive alone: a
\* jti that is not in the store must not have been counted since.
IInv ==
  /\ TypeOK
  /\ SizeBounded
  /\ NoReplayWhileRemembered
  /\ LatestRemembered
  /\ \A j \in JTIs : j \notin set => passed[j] = 0

\* Whatever the eviction keeps, there is room for one more.
LEMMA KeptHasRoom ==
  ASSUME TypeOK, SizeBounded, NEW s \in Kept
  PROVE  s \subseteq set /\ IsFiniteSet(s) /\ Cardinality(s) \in Nat /\ Cardinality(s) < MaxSize
<1>1. IsFiniteSet(set) /\ Cardinality(set) \in Nat /\ Cardinality(set) <= MaxSize
  BY FS_CardinalityType DEF TypeOK, SizeBounded
<1>2. EvictCount \in Nat /\ EvictCount >= 1 /\ MaxSize \in Nat
  BY SizesAssumption
<1>3. CASE Cardinality(set) >= MaxSize
  <2>1. s \subseteq set /\ Cardinality(set \ s) = EvictCount
    BY <1>3 DEF Kept
  <2>2. IsFiniteSet(s) /\ Cardinality(s) \in Nat
    BY <1>1, <2>1, FS_Subset, FS_CardinalityType
  <2>3. Cardinality(set \ s) = Cardinality(set) - Cardinality(set \cap s)
    BY <1>1, FS_Difference
  <2>4. set \cap s = s
    BY <2>1
  <2>5. Cardinality(set \ s) = Cardinality(set) - Cardinality(s)
    BY <2>3, <2>4
  <2> QED
    BY <1>1, <1>2, <2>1, <2>2, <2>5
<1>4. CASE ~(Cardinality(set) >= MaxSize)
  <2>1. s = set
    BY <1>4 DEF Kept
  <2> QED
    BY <1>1, <1>2, <1>4, <2>1
<1> QED
  BY <1>3, <1>4

\* Letting a proof through preserves the invariant.
LEMMA ValidateStep ==
  ASSUME IInv, NEW p \in Proofs, NEW htu \in Endpoints, UseJTI(p, htu)
  PROVE  IInv'
<1> DEFINE j == p.jti
<1>1. j \in JTIs /\ j \notin set
  BY DEF JTIs, UseJTI, Seen
<1>2. PICK s \in Kept : set' = s \cup {j}
  BY DEF UseJTI, Remember
<1>3. s \subseteq set /\ IsFiniteSet(s) /\ Cardinality(s) \in Nat /\ Cardinality(s) < MaxSize
  BY KeptHasRoom DEF IInv
<1>4. IsFiniteSet(set') /\ Cardinality(set') = Cardinality(s) + 1
  BY <1>1, <1>2, <1>3, FS_AddElement
<1>5. SizeBounded'
  BY <1>3, <1>4, SizesAssumption DEF SizeBounded
<1>6. /\ passed' = [i \in JTIs |-> IF i \in set \ set' THEN 0
                                   ELSE IF i = j THEN passed[i] + 1 ELSE passed[i]]
      /\ latest' = {j} /\ age' = age
  BY DEF UseJTI
<1>7. passed \in [JTIs -> Nat] /\ set \subseteq JTIs /\ passed[j] = 0
  BY <1>1 DEF IInv, TypeOK
<1>8. TypeOK'
  <2>1. set' \subseteq JTIs
    BY <1>1, <1>2, <1>3, <1>7
  <2>2. passed' \in [JTIs -> Nat]
    BY <1>6, <1>7
  <2> QED
    BY <1>1, <1>4, <1>6, <2>1, <2>2 DEF IInv, TypeOK, JTIs
<1>9. NoReplayWhileRemembered'
  BY <1>6, <1>7 DEF IInv, NoReplayWhileRemembered, JTIs
<1>10. LatestRemembered'
  BY <1>2, <1>6 DEF LatestRemembered
<1>11. \A i \in JTIs : i \notin set' => passed'[i] = 0
  <2> SUFFICES ASSUME NEW i \in JTIs, i \notin set'
               PROVE  passed'[i] = 0
    OBVIOUS
  <2>1. i # j
    BY <1>2
  <2>2. i \notin set => passed[i] = 0
    BY DEF IInv
  <2> QED
    BY <1>6, <2>1, <2>2
<1> QED
  BY <1>5, <1>8, <1>9, <1>10, <1>11 DEF IInv, JTIs

\* IInv is inductive.
LEMMA InvStep == IInv /\ [Next]_vars => IInv'
<1> SUFFICES ASSUME IInv, [Next]_vars
             PROVE  IInv'
  OBVIOUS
<1>1. CASE UNCHANGED vars
  BY <1>1 DEF vars, IInv, TypeOK, SizeBounded, NoReplayWhileRemembered, LatestRemembered
<1>2. CASE \E p \in Proofs, htu \in Endpoints : Refuse(p, htu)
  BY <1>1, <1>2 DEF Refuse
<1>3. CASE \E p \in Proofs, htu \in Endpoints : UseJTI(p, htu)
  BY <1>3, ValidateStep
<1>4. CASE Restart
  <2>1. IsFiniteSet({}) /\ Cardinality({}) = 0 /\ 0 <= MaxSize
    BY FS_EmptySet, SizesAssumption
  <2> QED
    BY <1>4, <2>1
    DEF Restart, IInv, TypeOK, SizeBounded, NoReplayWhileRemembered, LatestRemembered
<1>5. CASE Tick
  <2>1. age' \in [Proofs -> (-MaxSkew)..(Window + 1)]
    BY <1>5, SizesAssumption DEF Tick, IInv, TypeOK
  <2> QED
    BY <1>5, <2>1
    DEF Tick, IInv, TypeOK, SizeBounded, NoReplayWhileRemembered, LatestRemembered
<1> QED
  BY <1>1, <1>2, <1>3, <1>4, <1>5 DEF Next

\* IInv holds initially.
LEMMA InitInv == Init => IInv
<1>1. IsFiniteSet({}) /\ Cardinality({}) = 0 /\ 0 <= MaxSize
  BY FS_EmptySet, SizesAssumption
<1>2. (-MaxSkew)..0 \subseteq (-MaxSkew)..(Window + 1)
  BY SizesAssumption
<1> QED
  BY <1>1, <1>2
  DEF Init, IInv, TypeOK, SizeBounded, NoReplayWhileRemembered, LatestRemembered

\* The invariant of the jti store holds in every behaviour.
THEOREM Invariance == Spec => []IInv
BY InitInv, InvStep, PTL DEF Spec

\* JTIStore never grows past jtiStoreMaxSize, whatever its two limits are.
THEOREM StoreBounded == Spec => []SizeBounded
BY Invariance, PTL DEF IInv

\* A jti lets one proof through until the store forgets it.
THEOREM NoReplay == Spec => []NoReplayWhileRemembered
BY Invariance, PTL DEF IInv

\* An immediate duplicate is refused, also right after an eviction.
THEOREM LastIsRemembered == Spec => []LatestRemembered
BY Invariance, PTL DEF IInv

-----------------------------------------------------------------------------
(* The handlers of the two endpoints.                                      *)

Live == [pc : {"verify", "dpop", "bound"}, msg : Messages, drawn : Nonces \cup {""}]

ConnOK == conn \in [Handlers -> {Idle} \cup Live]

\* What the step of ValidateDPoPProof has established of a request.
ProofShown(m) ==
  m.dpop # <<>> /\ m.dpop[1].htu[1] = m.to /\ m.dpop[1].ath = m.token

\* The inductive invariant: a request under way is one that could be sent, and one
\* whose proof was let through showed a proof for this endpoint and token.
RInv ==
  /\ ConnOK
  /\ nonces \subseteq Nonces
  /\ \A h \in Handlers : conn[h] # Idle /\ conn[h].msg.to = "credential" => Sendable(conn[h].msg)
  /\ \A h \in Handlers : conn[h].pc = "bound" => ProofShown(conn[h].msg)
  /\ IssuedToHolder

LEMMA IdleIsNotLive == Idle.pc = "idle" /\ \A c \in Live : c # Idle /\ c.pc # "idle"
<1>1. Idle.pc = "idle"
  BY DEF Idle
<1>2. \A c \in Live : c.pc # "idle"
  BY DEF Live
<1> QED
  BY <1>1, <1>2

\* Every step changes one handler, and what it becomes decides.
LEMMA ConnStep ==
  ASSUME RInv, NEW h \in Handlers, NEW c \in {Idle} \cup Live, conn' = [conn EXCEPT ![h] = c],
         nonces' \subseteq Nonces, shown \subseteq shown', IssuedToHolder',
         c # Idle /\ c.msg.to = "credential" => Sendable(c.msg),
         c.pc = "bound" => ProofShown(c.msg)
  PROVE  RInv'
<1>1. conn' \in [Handlers -> {Idle} \cup Live] /\ conn'[h] = c /\ \A g \in Handlers \ {h} : conn'[g] = conn[g]
  BY DEF RInv, ConnOK
<1>2. \A m : Sendable(m) => Sendable(m)'
  BY DEF Sendable
<1>3. \A g \in Handlers : conn'[g] # Idle /\ conn'[g].msg.to = "credential" => Sendable(conn'[g].msg)
  BY <1>1 DEF RInv
<1>4. ASSUME NEW g \in Handlers, conn'[g] # Idle, conn'[g].msg.to = "credential"
      PROVE  Sendable(conn[g].msg)'
  BY <1>3, <1>4 DEF Sendable
<1>5. \A g \in Handlers : conn'[g].pc = "bound" => ProofShown(conn'[g].msg)
  BY <1>1 DEF RInv
<1>6. (\A g \in Handlers : conn[g].pc = "bound" => ProofShown(conn[g].msg))'
  BY <1>5 DEF ProofShown
<1> QED
  BY <1>1, <1>4, <1>6 DEF RInv, ConnOK

\* What the checks let through stays as good as it was while nonces are answered.
LEMMA IssuedStays ==
  ASSUME IssuedToHolder, UNCHANGED issued, shown \subseteq shown'
  PROVE  IssuedToHolder'
BY DEF IssuedToHolder

\* A request under way has a proof of Proofs, if it has one, and a known endpoint.
LEMMA MessageFacts ==
  ASSUME ConnOK, NEW h \in Handlers, conn[h].pc \in {"verify", "dpop", "bound"}
  PROVE  /\ conn[h] \in Live /\ conn[h] # Idle
         /\ conn[h].msg \in Messages /\ conn[h].msg.to \in Endpoints
         /\ conn[h].msg.dpop # <<>> => conn[h].msg.dpop[1] \in Proofs
<1>1. conn[h] \in Live /\ conn[h] # Idle
  BY IdleIsNotLive DEF ConnOK
<1>2. conn[h].msg \in Messages
  BY <1>1 DEF Live
<1>3. conn[h].msg.to \in Endpoints /\ conn[h].msg.dpop \in Seq(Proofs)
  BY <1>2, RequestAssumption
<1> QED
  BY <1>1, <1>2, <1>3

\* Every step is a step of the jti store, or leaves it alone.
LEMMA StoreStep ==
  ASSUME ConnOK, [RequestNext]_requestVars
  PROVE  [Next]_vars
<1>1. ASSUME NEW h \in Handlers, NEW m \in Messages, ReceiveCredential(h, m)
      PROVE  UNCHANGED vars
  BY <1>1 DEF ReceiveCredential
<1>2. ASSUME NEW h \in Handlers, NEW m \in Messages, NEW n \in Nonces, ReceiveNonce(h, m, n)
      PROVE  UNCHANGED vars
  BY <1>2 DEF ReceiveNonce
<1>3. ASSUME NEW h \in Handlers, VerifyToken(h) \/ AnswerNonce(h) \/ CheckBody(h)
      PROVE  UNCHANGED vars
  BY <1>3 DEF VerifyToken, AnswerNonce, CheckBody
<1>4. ASSUME NEW h \in Handlers, ValidateDPoPProof(h)
      PROVE  [Next]_vars
  <2> DEFINE m == conn[h].msg
  <2>1. m.to \in Endpoints /\ (m.dpop # <<>> => m.dpop[1] \in Proofs)
    BY <1>4, MessageFacts DEF ValidateDPoPProof
  <2>2. UNCHANGED vars \/ (m.dpop # <<>> /\ UseJTI(m.dpop[1], m.to))
    BY <1>4 DEF ValidateDPoPProof
  <2> QED
    BY <2>1, <2>2 DEF Next
<1>5. CASE RequestRestart
  BY <1>5 DEF RequestRestart, Next
<1>6. CASE TimePasses
  BY <1>6 DEF TimePasses, Next
<1>7. CASE UNCHANGED requestVars
  BY <1>7 DEF requestVars
<1> QED
  BY <1>1, <1>2, <1>3, <1>4, <1>5, <1>6, <1>7 DEF RequestNext

LEMMA RInit == RequestInit => RInv
<1> SUFFICES ASSUME RequestInit PROVE RInv
  OBVIOUS
<1>1. \A h \in Handlers : conn[h] = Idle /\ conn[h].pc = "idle"
  BY IdleIsNotLive DEF RequestInit
<1>2. ConnOK
  BY DEF RequestInit, ConnOK
<1> QED
  BY <1>1, <1>2 DEF RInv, RequestInit, IssuedToHolder

LEMMA ReceiveStep ==
  ASSUME RInv, NEW h \in Handlers, NEW m \in Messages,
         ReceiveCredential(h, m) \/ \E n \in Nonces : ReceiveNonce(h, m, n)
  PROVE  RInv'
<1>1. CASE ReceiveCredential(h, m)
  <2> DEFINE c == [pc |-> "verify", msg |-> m, drawn |-> ""]
  <2>1. c \in Live /\ c.pc = "verify" /\ c.msg = m /\ conn' = [conn EXCEPT ![h] = c] /\ Sendable(m)
    BY <1>1 DEF ReceiveCredential, Go, Live
  <2>2. UNCHANGED <<nonces, shown, issued>>
    BY <1>1 DEF ReceiveCredential
  <2> HIDE DEF c
  <2> QED
    BY <2>1, <2>2, ConnStep, IssuedStays DEF RInv
<1>2. ASSUME NEW n \in Nonces, ReceiveNonce(h, m, n)
      PROVE  RInv'
  <2> DEFINE c == [pc |-> "verify", msg |-> m, drawn |-> n]
  <2>1. c \in Live /\ c.pc = "verify" /\ c.msg = m /\ m.to # "credential"
    BY <1>2 DEF ReceiveNonce, Live
  <2>2. nonces' \subseteq Nonces /\ shown \subseteq shown' /\ UNCHANGED issued
    BY <1>2 DEF ReceiveNonce, RInv
  <2>3. conn' = [conn EXCEPT ![h] = c] \/ conn' = conn
    BY <1>2 DEF ReceiveNonce, Go
  <2>4. conn[h] = Idle /\ (conn' = conn => conn' = [conn EXCEPT ![h] = Idle])
    BY <1>2 DEF ReceiveNonce, RInv, ConnOK
  <2> HIDE DEF c
  <2> QED
    BY <2>1, <2>2, <2>3, <2>4, ConnStep, IssuedStays, IdleIsNotLive DEF RInv
<1> QED
  BY <1>1, <1>2

LEMMA VerifyStep ==
  ASSUME RInv, NEW h \in Handlers, VerifyToken(h) \/ ValidateDPoPProof(h)
  PROVE  RInv'
<1> DEFINE m == conn[h].msg
           c(label) == [pc |-> label, msg |-> m, drawn |-> conn[h].drawn]
<1>1. conn[h] \in Live /\ conn[h] # Idle
  BY MessageFacts DEF RInv, VerifyToken, ValidateDPoPProof
<1>2. \A label \in {"dpop", "bound"} : c(label) \in Live /\ c(label).pc = label /\ c(label).msg = m
  BY <1>1 DEF Live
<1>3. UNCHANGED <<nonces, shown, issued>>
  BY DEF VerifyToken, ValidateDPoPProof
<1>4. \/ conn' = [conn EXCEPT ![h] = Idle]
      \/ conn' = [conn EXCEPT ![h] = c("dpop")]
      \/ conn' = [conn EXCEPT ![h] = c("bound")] /\ ProofShown(m)
  <2>1. CASE VerifyToken(h)
    BY <2>1 DEF VerifyToken, Goto, Go, Return
  <2>2. CASE ValidateDPoPProof(h)
    BY <2>2 DEF ValidateDPoPProof, Goto, Go, Return, UseJTI, InOrder, htuMatches, AthMatches, ProofShown
  <2> QED
    BY <2>1, <2>2
<1>5. m.to = "credential" => Sendable(m)
  BY <1>1 DEF RInv
<1>6. IssuedToHolder' /\ nonces' \subseteq Nonces /\ shown \subseteq shown'
  BY <1>3, IssuedStays DEF RInv
<1>7. CASE conn' = [conn EXCEPT ![h] = Idle]
  BY <1>6, <1>7, ConnStep, IdleIsNotLive
<1>8. CASE conn' = [conn EXCEPT ![h] = c("dpop")]
  BY <1>2, <1>5, <1>6, <1>8, ConnStep
<1>9. CASE conn' = [conn EXCEPT ![h] = c("bound")] /\ ProofShown(m)
  BY <1>2, <1>5, <1>6, <1>9, ConnStep
<1> QED
  BY <1>4, <1>7, <1>8, <1>9

LEMMA AnswerStep ==
  ASSUME RInv, NEW h \in Handlers, AnswerNonce(h)
  PROVE  RInv'
<1>1. conn' = [conn EXCEPT ![h] = Idle] /\ shown \subseteq shown' /\ UNCHANGED <<nonces, issued>>
  BY DEF AnswerNonce, Return
<1> QED
  BY <1>1, ConnStep, IssuedStays, IdleIsNotLive DEF RInv

\* The one step that adds to what was let through.
LEMMA BodyStep ==
  ASSUME RInv, NEW h \in Handlers, CheckBody(h)
  PROVE  RInv'
<1> DEFINE m == conn[h].msg
           w == ExtractProofJWT(m)[1]
           i == [token |-> m.token, dpop |-> m.dpop[1], holder |-> w.key, nonce |-> w.nonce]
<1>1. /\ conn' = [conn EXCEPT ![h] = Idle] /\ UNCHANGED shown
      /\ conn[h].pc = "bound" /\ m.to = "credential"
  BY DEF CheckBody, Return
<1>2. conn[h] # Idle /\ m \in Messages /\ ProofShown(m) /\ Sendable(m)
  BY <1>1, MessageFacts DEF RInv
<1>3. nonces' \subseteq Nonces
  BY DEF CheckBody, CheckKeyProof, validateProofNonce, RInv
<1>4. IssuedToHolder'
  <2>1. CASE UNCHANGED issued
    BY <1>1, <2>1, IssuedStays DEF RInv
  <2>2. CASE issued' # issued
    <3>1. /\ requireBoundThumbprint(m) /\ ExtractProofJWT(m) # <<>>
          /\ ValidateProofJWT(w) /\ NonceAccepted(w.nonce, Claims[m.token].CNonce)
          /\ issued' = issued \cup {i}
      BY <2>2 DEF CheckBody, CheckKeyProof, validateProofNonce, Admit
    <3>2. m.proofs \in Seq(KeyProofs(m)) /\ m.proof \in Seq(KeyProofs(m))
      BY <1>1, <1>2, RequestAssumption
    <3>3. w \in KeyProofs(m)
      BY <3>1, <3>2 DEF ExtractProofJWT
    <3>4. w.nonce # "" /\ w.nonce \in shown \cup {Claims[m.token].CNonce}
      BY <1>2, <3>1, <3>3 DEF NonceAccepted, RInv, Sendable
    <3>5. w.aud = "issuer"
      BY <3>1 DEF ValidateProofJWT
    <3>6. m.dpop[1].key = Claims[m.token].JKT /\ m.dpop[1].ath = m.token /\ m.dpop[1].htu[1] = "credential"
      BY <1>1, <1>2, <3>1 DEF requireBoundThumbprint, ProofShown
    <3>7. i.token = m.token /\ i.dpop = m.dpop[1] /\ i.holder = w.key /\ i.nonce = w.nonce
      OBVIOUS
    <3> HIDE DEF m, w, i
    <3> QED
      BY <1>1, <1>2, <3>1, <3>3, <3>4, <3>5, <3>6, <3>7 DEF RInv, IssuedToHolder
  <2> QED
    BY <2>1, <2>2
<1> QED
  BY <1>1, <1>3, <1>4, ConnStep, IdleIsNotLive

LEMMA RNext == RInv /\ [RequestNext]_requestVars => RInv'
<1> SUFFICES ASSUME RInv, [RequestNext]_requestVars PROVE RInv'
  OBVIOUS
<1>1. CASE RequestRestart
  <2>1. conn' = [h \in Handlers |-> Idle] /\ nonces' = {} /\ UNCHANGED <<shown, issued>>
    BY <1>1 DEF RequestRestart
  <2>2. \A h \in Handlers : conn'[h] = Idle /\ conn'[h].pc = "idle"
    BY <2>1, IdleIsNotLive
  <2>3. IssuedToHolder'
    BY <2>1, IssuedStays DEF RInv
  <2>4. ConnOK'
    BY <2>1 DEF ConnOK
  <2> QED
    BY <2>1, <2>2, <2>3, <2>4 DEF RInv
<1>2. CASE TimePasses \/ UNCHANGED requestVars
  <2>1. UNCHANGED <<nonces, shown, conn, issued>>
    BY <1>2 DEF TimePasses, requestVars
  <2> QED
    BY <2>1, IssuedStays DEF RInv, ConnOK, Sendable, ProofShown
<1> QED
  BY <1>1, <1>2, ReceiveStep, VerifyStep, AnswerStep, BodyStep DEF RequestNext

\* Whatever is sent, repeated, interleaved and cut off by restarts: only a request
\* with a proof for its token and this endpoint, made by the key the token is bound
\* to, passes the checks of IssueCredential.
THEOREM RequestHolder == RequestSpec => []IssuedToHolder
<1>1. RInv => IssuedToHolder
  BY DEF RInv
<1> QED
  BY RInit, RNext, <1>1, PTL DEF RequestSpec

\* The handlers use the jti store as DPoPReplay says.
THEOREM RequestRefines == RequestSpec => Spec
<1>1. RequestInit => Init
  BY DEF RequestInit
<1>2. RInv => ConnOK
  BY DEF RInv
<1> QED
  BY RInit, RNext, StoreStep, <1>1, <1>2, PTL DEF RequestSpec, Spec

\* A nonce is spent only by a request that passed every other check of
\* IssueCredential, or lost in a restart.
THEOREM RequestNonces == RequestSpec => NonceSpentOnAdmission
<1>1. ASSUME [RequestNext]_requestVars, NEW n \in nonces \ nonces'
      PROVE  RequestRestart \/ \E i \in issued' : i.nonce = n
  <2>1. ASSUME NEW h \in Handlers, CheckBody(h)
        PROVE  \E i \in issued' : i.nonce = n
    <3> DEFINE m == conn[h].msg
               w == ExtractProofJWT(m)[1]
               i == [token |-> m.token, dpop |-> m.dpop[1], holder |-> w.key, nonce |-> w.nonce]
    <3>1. nonces' = nonces \ {w.nonce} /\ issued' = issued \cup {i}
      BY <1>1, <2>1 DEF CheckBody, CheckKeyProof, validateProofNonce, Admit
    <3>2. i.nonce = n
      BY <1>1, <3>1
    <3> QED
      BY <3>1, <3>2
  <2>2. ASSUME ~RequestRestart, \A h \in Handlers : ~CheckBody(h)
        PROVE  nonces \subseteq nonces'
    BY <1>1, <2>2 DEF RequestNext, ReceiveCredential, ReceiveNonce, VerifyToken, ValidateDPoPProof,
                      AnswerNonce, TimePasses, requestVars
  <2> QED
    BY <1>1, <2>1, <2>2
<1>2. [RequestNext]_requestVars =>
        [\A n \in nonces \ nonces' : RequestRestart \/ \E i \in issued' : i.nonce = n]_requestVars
  BY <1>1
<1> QED
  BY <1>2, PTL DEF RequestSpec, NonceSpentOnAdmission

\* So the jti store keeps its promises among all the handlers that use it.
COROLLARY RequestReplay == RequestSpec => [](SizeBounded /\ NoReplayWhileRemembered /\ LatestRemembered)
BY RequestRefines, StoreBounded, NoReplay, LastIsRemembered, PTL
=============================================================================
