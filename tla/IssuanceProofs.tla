---------------------------- MODULE IssuanceProofs ----------------------------
(***************************************************************************)
(* Issuance, for any sets of records, tokens, nonces and handlers: what    *)
(* wallets hold stays tied to the record and its status list entry, and    *)
(* nonces and record states only move forward.                             *)
(*                                                                         *)
(* The theorems of StatusListStore come first, about the instance that     *)
(* Issuance uses; it uses it as StatusListStore says, so that they hold    *)
(* here.                                                                   *)
(***************************************************************************)
EXTENDS Issuance, TLAPS

\* The records that exist, as the trigger that makes one goes on: until it has
\* answered, the record has not been offered, and no token leads to it.
TriggerInv ==
  /\ \A t \in Triggers : trec[t] \in {t, NoRec}
  /\ \A t \in Triggers : tpc[t] = "idle" => recStatus[t] = "none"
  /\ \A t \in Triggers : tpc[t] # "answered" => recStatus[t] \in {"none", "pending"}
  /\ \A k \in Tokens : tokRec[k] \in Triggers => tpc[tokRec[k]] = "answered"

\* An unused nonce has let nothing through.
NonceInv == \A n \in Nonces : n \in nonces => admitted[n] = 0

\* What a request has established of its record when it gets to a step.
RequestInv ==
  \A q \in Requests :
    /\ qpc[q] \in {"alloc", "build", "mark", "reply"} =>
         Rec(q) \in Triggers \ EmptyTriggers /\ recStatus[Rec(q)] # "none"
    /\ qpc[q] \in {"build", "mark", "reply"} =>
         SL!HasEntry(Rec(q)) /\ qidx[q] = statusByRecID[Rec(q)]

\* The index of a credential that was handed out is its record's.
DeliveredInv ==
  \A d \in delivered : SL!HasEntry(d[1]) /\ d[2] = statusByRecID[d[1]]

\* What is lost when a query fails and the store swallows the error.
FaultFreeInv ==
  ~DBFaults =>
    /\ \A t \in Triggers : tpc[t] \in {"link", "offer", "mark", "answered"} =>
         trec[t] = t /\ recStatus[t] # "none"
    /\ \A t \in Triggers : tpc[t] \in {"offer", "mark", "answered"} => t \in linked
    /\ \A k \in Tokens : tokRec[k] # NoRec
    /\ \A q \in Requests : qpc[q] = "reply" => recStatus[Rec(q)] = "credential_issued"
    /\ \A d \in delivered : recStatus[d[1]] = "credential_issued"

IInv ==
  /\ TypeOK
  /\ TriggerInv
  /\ NonceInv /\ NonceSingleUse
  /\ RequestInv
  /\ DeliveredInv
  /\ FaultFreeInv

-----------------------------------------------------------------------------
(* The status list store.                                                  *)

\* The domains of the maps follow the counter through AllocateIdx and SetStatus.
LEMMA StoreTypeStep == SL!TypeOK /\ [SL!Next]_(SL!storeVars) => SL!TypeOK'
<1> SUFFICES ASSUME SL!TypeOK, [SL!Next]_(SL!storeVars) PROVE SL!TypeOK'
  OBVIOUS
<1>1. ASSUME NEW r \in Triggers, SL!AllocateIdx(r) PROVE SL!TypeOK'
  <2>1. CASE SL!HasEntry(r)
    BY <1>1, <2>1 DEF SL!AllocateIdx, SL!TypeOK, SL!storeVars
  <2>2. CASE ~SL!HasEntry(r)
    <3>1. statusNextIdx' \in Nat /\ 0..(statusNextIdx' - 1) = 0..statusNextIdx
      BY <1>1, <2>2 DEF SL!AllocateIdx, SL!TypeOK
    <3>2. statusByIdx' \in [0..statusNextIdx -> SL!Statuses]
      BY <1>1, <2>2 DEF SL!AllocateIdx, SL!TypeOK, SL!Statuses
    <3>3. statusByRecID' \in [Triggers -> 0..statusNextIdx \cup {SL!NoIdx}]
      BY <1>1, <2>2 DEF SL!AllocateIdx, SL!TypeOK
    <3> QED BY <3>1, <3>2, <3>3 DEF SL!TypeOK
  <2> QED BY <2>1, <2>2
<1>2. ASSUME NEW r \in Triggers, SL!SetStatus(r, SL!StatusInvalid) PROVE SL!TypeOK'
  BY <1>2 DEF SL!SetStatus, SL!TypeOK, SL!Statuses, SL!StatusInvalid, SL!HasEntry
<1>3. ASSUME UNCHANGED SL!storeVars PROVE SL!TypeOK'
  BY <1>3 DEF SL!TypeOK, SL!storeVars
<1> QED BY <1>1, <1>2, <1>3 DEF SL!Next

\* Allocating and revoking keep the indices dense and the maps total: every
\* index below the counter has a status, every record an index below it or none.
THEOREM StoreTypeCorrect == SL!Spec => []SL!TypeOK
<1>1. SL!Init => SL!TypeOK
  BY DEF SL!Init, SL!TypeOK, SL!Statuses
<1> QED BY <1>1, StoreTypeStep, PTL DEF SL!Spec

\* Whatever the sequence of calls, AllocateIdx never gives one index to two
\* records and never leaks one.
THEOREM IndexOwnership == SL!Spec => []SL!OneRecordPerIdx
<1>1. SL!Init => SL!OneRecordPerIdx
  BY DEF SL!Init, SL!OneRecordPerIdx
<1>2. SL!TypeOK /\ SL!OneRecordPerIdx /\ [SL!Next]_(SL!storeVars) => SL!OneRecordPerIdx'
  <2> SUFFICES ASSUME SL!TypeOK, SL!OneRecordPerIdx, [SL!Next]_(SL!storeVars) PROVE SL!OneRecordPerIdx'
    OBVIOUS
  <2>1. ASSUME NEW r \in Triggers, SL!AllocateIdx(r), ~SL!HasEntry(r) PROVE SL!OneRecordPerIdx'
    <3> SUFFICES ASSUME NEW i \in 0..(statusNextIdx' - 1)
                 PROVE  \E t \in Triggers : /\ statusByRecID'[t] = i
                                           /\ \A s \in Triggers : statusByRecID'[s] = i => s = t
      BY DEF SL!OneRecordPerIdx
    <3>1. CASE i = statusNextIdx
      <4>1. statusByRecID'[r] = i
        BY <2>1, <3>1 DEF SL!AllocateIdx, SL!TypeOK
      <4>2. ASSUME NEW s \in Triggers, s # r PROVE statusByRecID'[s] # i
        BY <2>1, <3>1, <4>2 DEF SL!AllocateIdx, SL!TypeOK, SL!NoIdx
      <4> QED BY <4>1, <4>2
    <3>2. CASE i # statusNextIdx
      <4>1. i \in 0..(statusNextIdx - 1)
        BY <2>1, <3>2 DEF SL!AllocateIdx, SL!TypeOK
      <4>2. PICK t \in Triggers : /\ statusByRecID[t] = i
                                 /\ \A s \in Triggers : statusByRecID[s] = i => s = t
        BY <4>1 DEF SL!OneRecordPerIdx
      <4>3. t # r
        BY <2>1, <4>1, <4>2 DEF SL!HasEntry, SL!NoIdx, SL!TypeOK
      <4> QED BY <2>1, <3>2, <4>2, <4>3 DEF SL!AllocateIdx, SL!TypeOK
    <3> QED BY <3>1, <3>2
  <2>2. ASSUME NEW r \in Triggers, SL!AllocateIdx(r), SL!HasEntry(r) PROVE SL!OneRecordPerIdx'
    BY <2>2 DEF SL!AllocateIdx, SL!storeVars, SL!OneRecordPerIdx
  <2>3. ASSUME NEW r \in Triggers, SL!SetStatus(r, SL!StatusInvalid) PROVE SL!OneRecordPerIdx'
    BY <2>3 DEF SL!SetStatus, SL!OneRecordPerIdx
  <2>4. ASSUME UNCHANGED SL!storeVars PROVE SL!OneRecordPerIdx'
    BY <2>4 DEF SL!storeVars, SL!OneRecordPerIdx
  <2> QED BY <2>1, <2>2, <2>3, <2>4 DEF SL!Next
<1> QED BY <1>1, <1>2, StoreTypeCorrect, PTL DEF SL!Spec

\* What a signed credential relies on: its record's index is never reassigned
\* and a revoked entry is never valid again.
THEOREM StorePermanence == SL!Spec => SL!EntriesPersist
<1>1. SL!TypeOK /\ [SL!Next]_(SL!storeVars) => [SL!EntryPersists]_(SL!storeVars)
  <2> SUFFICES ASSUME SL!TypeOK, [SL!Next]_(SL!storeVars),
                      NEW r \in Triggers, SL!HasEntry(r)
               PROVE  /\ statusByRecID'[r] = statusByRecID[r]
                      /\ SL!StatusOf(r) = SL!StatusInvalid => SL!StatusOf(r)' = SL!StatusInvalid
    BY DEF SL!EntryPersists
  <2>0. statusByRecID[r] \in 0..(statusNextIdx - 1) /\ statusNextIdx \in Nat
    BY DEF SL!HasEntry, SL!TypeOK
  <2>1. ASSUME NEW t \in Triggers, SL!AllocateIdx(t)
        PROVE  /\ statusByRecID'[r] = statusByRecID[r]
               /\ SL!StatusOf(r)' = SL!StatusOf(r)
    BY <2>0, <2>1 DEF SL!AllocateIdx, SL!HasEntry, SL!TypeOK, SL!StatusOf, SL!storeVars
  <2>2. ASSUME NEW t \in Triggers, SL!SetStatus(t, SL!StatusInvalid)
        PROVE  /\ statusByRecID'[r] = statusByRecID[r]
               /\ SL!StatusOf(r) = SL!StatusInvalid => SL!StatusOf(r)' = SL!StatusInvalid
    BY <2>0, <2>2 DEF SL!SetStatus, SL!HasEntry, SL!TypeOK, SL!StatusOf
  <2>3. ASSUME UNCHANGED SL!storeVars
        PROVE  /\ statusByRecID'[r] = statusByRecID[r]
               /\ SL!StatusOf(r)' = SL!StatusOf(r)
    BY <2>3 DEF SL!storeVars, SL!StatusOf
  <2> QED BY <2>1, <2>2, <2>3 DEF SL!Next
<1> QED BY <1>1, StoreTypeCorrect, PTL DEF SL!Spec, SL!EntriesPersist

\* Every step is a step of the store, or leaves it alone.
LEMMA StoreStep == RequestInv /\ [Next]_vars => [SL!Next]_(SL!storeVars)
<1> SUFFICES ASSUME RequestInv, [Next]_vars PROVE [SL!Next]_(SL!storeVars)
  OBVIOUS
<1>1. CASE UNCHANGED storeVars
  BY <1>1 DEF storeVars, SL!storeVars
<1>2. ASSUME NEW q \in Requests, qpc[q] = "alloc", SL!AllocateIdx(Rec(q)) PROVE SL!Next
  BY <1>2 DEF RequestInv, SL!Next
<1>3. ASSUME NEW t \in Triggers, RevokeCredential(t) PROVE SL!Next
  BY <1>3 DEF RevokeCredential, SL!Next
<1>4. ASSUME NEW t \in Triggers, TriggerStep(t) PROVE UNCHANGED storeVars
  BY <1>4 DEF TriggerStep, TriggerCreate, TriggerLink, TriggerStoreOffer, TriggerAnswer
<1>5. ASSUME NEW q \in Requests, Succeeds(q)
      PROVE  UNCHANGED storeVars \/ (qpc[q] = "alloc" /\ SL!AllocateIdx(Rec(q)))
  BY <1>5 DEF Succeeds, VerifyRequest, ValidateProofNonce, FindRecord, AllocateIdx, BuildCredential,
              MarkIssued, Reply
<1>6. ASSUME NEW q \in Requests, RequestFails(q)
      PROVE  UNCHANGED storeVars \/ (qpc[q] = "alloc" /\ SL!AllocateIdx(Rec(q)))
  BY <1>6 DEF RequestFails
<1>7. ASSUME NEW k \in Tokens, NEW t \in Triggers, MintToken(k, t) PROVE UNCHANGED storeVars
  BY <1>7 DEF MintToken
<1>8. ASSUME NEW n \in Nonces, GenerateNonce(n) PROVE UNCHANGED storeVars
  BY <1>8 DEF GenerateNonce
<1>9. ASSUME NEW q \in Requests, NEW k \in Tokens, NEW n \in Nonces \cup {k}, RequestStart(q, k, n)
      PROVE  UNCHANGED storeVars
  BY <1>9 DEF RequestStart
<1>10. CASE Restart \/ UNCHANGED vars
  BY <1>1, <1>10 DEF Restart, vars
<1> QED
  BY <1>1, <1>2, <1>3, <1>4, <1>5, <1>6, <1>7, <1>8, <1>9, <1>10 DEF Next

\* Whatever happens to the store, entries stay where they are.
LEMMA EntriesStay ==
  ASSUME SL!TypeOK, [SL!Next]_(SL!storeVars), NEW r \in Triggers, statusByRecID[r] # SL!NoIdx
  PROVE  statusByRecID'[r] = statusByRecID[r]
<1>1. ASSUME NEW t \in Triggers, SL!AllocateIdx(t) PROVE statusByRecID'[r] = statusByRecID[r]
  BY <1>1 DEF SL!AllocateIdx, SL!HasEntry, SL!TypeOK, SL!storeVars
<1>2. ASSUME NEW t \in Triggers, SL!SetStatus(t, SL!StatusInvalid)
      PROVE  statusByRecID'[r] = statusByRecID[r]
  BY <1>2 DEF SL!SetStatus
<1> QED
  BY <1>1, <1>2 DEF SL!Next, SL!storeVars

\* AllocateIdx leaves its record with an index that is a number.
LEMMA Allocated ==
  ASSUME SL!TypeOK, NEW r \in Triggers, SL!AllocateIdx(r)
  PROVE  statusByRecID'[r] \in Nat /\ statusByRecID'[r] # SL!NoIdx
BY DEF SL!AllocateIdx, SL!HasEntry, SL!TypeOK, SL!storeVars, SL!NoIdx

-----------------------------------------------------------------------------
(* The invariant.                                                          *)

LEMMA InitInv == Init => IInv
<1> SUFFICES ASSUME Init PROVE IInv
  OBVIOUS
<1>1. SL!TypeOK
  BY DEF Init, SL!Init, SL!TypeOK, SL!Statuses
<1>2. TypeOK
  BY <1>1, ConstantsAssumption DEF Init, TypeOK, Stages
<1>3. TriggerInv /\ NonceInv /\ NonceSingleUse /\ RequestInv /\ DeliveredInv /\ FaultFreeInv
  BY ConstantsAssumption DEF Init, TriggerInv, NonceInv, NonceSingleUse, RequestInv, DeliveredInv, FaultFreeInv
<1> QED
  BY <1>2, <1>3 DEF IInv

LEMMA TypeStep == IInv /\ [Next]_vars => TypeOK'
<1> SUFFICES ASSUME IInv, [Next]_vars PROVE TypeOK'
  OBVIOUS
<1>0. SL!TypeOK'
  BY StoreStep, StoreTypeStep DEF IInv, TypeOK
<1>1. ASSUME NEW t \in Triggers, TriggerStep(t) PROVE TypeOK'
  BY <1>0, <1>1 DEF IInv, TypeOK, Stages, TriggerStep, TriggerCreate, TriggerLink, TriggerStoreOffer,
     TriggerAnswer, UpdateStatus, UpdateIssuerState, StoreCredentialOffer, recordVars, sessionVars,
     walletVars, reqVars
<1>2. ASSUME NEW t \in Triggers, RevokeCredential(t) PROVE TypeOK'
  BY <1>0, <1>2 DEF IInv, TypeOK, RevokeCredential, recordVars, sessionVars, trigVars, walletVars, reqVars
<1>3. ASSUME NEW k \in Tokens, NEW t \in Triggers, MintToken(k, t) PROVE TypeOK'
  BY <1>0, <1>3 DEF IInv, TypeOK, MintToken, FindByIssuerState, recordVars, sessionVars, trigVars, reqVars
<1>4. ASSUME NEW n \in Nonces, GenerateNonce(n) PROVE TypeOK'
  BY <1>0, <1>4 DEF IInv, TypeOK, GenerateNonce, RegisterNonce, recordVars, trigVars, reqVars
<1>5. ASSUME NEW q \in Requests, NEW k \in Tokens, NEW n \in Nonces \cup {k}, RequestStart(q, k, n)
      PROVE  TypeOK'
  BY <1>0, <1>5 DEF IInv, TypeOK, RequestStart, QGoto, RequestFrame, trigVars
<1>6. ASSUME NEW q \in Requests, VerifyRequest(q) \/ FindRecord(q) \/ BuildCredential(q) \/ RequestFails(q)
      PROVE  TypeOK'
  BY <1>0, <1>6 DEF IInv, TypeOK, VerifyRequest, FindRecord, BuildCredential, RequestFails, QGoto,
     RequestFrame, trigVars
<1>7. ASSUME NEW q \in Requests, ValidateProofNonce(q) PROVE TypeOK'
  BY <1>0, <1>7 DEF IInv, TypeOK, ValidateProofNonce, ValidateNonce, QGoto, RequestFrame, trigVars
<1>8. ASSUME NEW q \in Requests, AllocateIdx(q) PROVE TypeOK'
  <2>1. statusByRecID'[Rec(q)] \in Nat
    BY <1>8, Allocated DEF AllocateIdx, IInv, TypeOK, RequestInv
  <2> QED
    BY <1>0, <1>8, <2>1 DEF IInv, TypeOK, AllocateIdx, QGoto, RequestFrame, trigVars
<1>9. ASSUME NEW q \in Requests, MarkIssued(q) PROVE TypeOK'
  BY <1>0, <1>9 DEF IInv, TypeOK, Stages, MarkIssued, UpdateStatus, InvalidateNonce, QGoto, RequestFrame, trigVars
<1>10. ASSUME NEW q \in Requests, Reply(q) PROVE TypeOK'
  <2>1. <<Rec(q), qidx[q]>> \in Triggers \X Nat
    BY <1>10 DEF Reply, IInv, TypeOK, RequestInv
  <2> QED
    BY <1>0, <1>10, <2>1 DEF IInv, TypeOK, Reply, QGoto, RequestFrame, trigVars
<1>11. CASE Restart
  BY <1>0, <1>11, ConstantsAssumption DEF IInv, TypeOK, Restart, recordVars, walletVars
<1>12. CASE UNCHANGED vars
  BY <1>0, <1>12 DEF IInv, TypeOK, vars, recordVars, sessionVars, trigVars, walletVars, reqVars
<1> QED
  BY <1>1, <1>2, <1>3, <1>4, <1>5, <1>6, <1>7, <1>8, <1>9, <1>10, <1>11, <1>12 DEF Next, Succeeds

\* A step gives a new state to the record of a trigger under way, or issues one
\* that a token leads to.
LEMMA TriggerInvStep == IInv /\ [Next]_vars => TriggerInv'
<1> SUFFICES ASSUME IInv, [Next]_vars PROVE TriggerInv'
  OBVIOUS
<1> USE DEF IInv, TypeOK, TriggerInv
<1>1. ASSUME NEW t \in Triggers, TriggerStep(t) PROVE TriggerInv'
  BY <1>1, ConstantsAssumption DEF TriggerStep, TriggerCreate, TriggerLink, TriggerStoreOffer,
     TriggerAnswer, UpdateStatus, recordVars, walletVars
<1>2. ASSUME NEW k \in Tokens, NEW t \in Triggers, MintToken(k, t) PROVE TriggerInv'
  BY <1>2, ConstantsAssumption DEF MintToken, FindByIssuerState, recordVars, trigVars
<1>3. ASSUME NEW q \in Requests, MarkIssued(q) PROVE TriggerInv'
  BY <1>3, ConstantsAssumption DEF MarkIssued, UpdateStatus, RequestInv, Rec, RequestFrame, trigVars
<1>4. CASE Restart
  BY <1>4 DEF Restart, recordVars, walletVars
<1>5. CASE UNCHANGED <<recStatus, trigVars, tokRec>>
  BY <1>5 DEF trigVars
<1>6. ASSUME NEW q \in Requests,
             \/ \E k \in Tokens : \E n \in Nonces \cup {k} : RequestStart(q, k, n)
             \/ VerifyRequest(q) \/ ValidateProofNonce(q) \/ FindRecord(q) \/ AllocateIdx(q)
             \/ BuildCredential(q) \/ Reply(q) \/ RequestFails(q)
      PROVE  UNCHANGED <<recStatus, trigVars, tokRec>>
  BY <1>6 DEF RequestStart, VerifyRequest, ValidateProofNonce, FindRecord, AllocateIdx, BuildCredential,
     Reply, RequestFails, RequestFrame
<1>7. CASE \/ \E t \in Triggers : RevokeCredential(t)
           \/ \E n \in Nonces : GenerateNonce(n)
           \/ UNCHANGED vars
  BY <1>5, <1>7 DEF RevokeCredential, GenerateNonce, vars, recordVars, walletVars
<1> QED
  BY <1>1, <1>2, <1>3, <1>4, <1>5, <1>6, <1>7 DEF Next, Succeeds

\* A nonce is drawn once and leaves the store when it lets a request through.
LEMMA NonceInvStep == IInv /\ [Next]_vars => NonceInv' /\ NonceSingleUse'
<1> SUFFICES ASSUME IInv, [Next]_vars PROVE NonceInv' /\ NonceSingleUse'
  OBVIOUS
<1> USE DEF IInv, TypeOK, NonceInv, NonceSingleUse
<1>1. ASSUME NEW n \in Nonces, GenerateNonce(n) PROVE NonceInv' /\ NonceSingleUse'
  BY <1>1 DEF GenerateNonce, RegisterNonce
<1>2. ASSUME NEW q \in Requests, ValidateProofNonce(q) PROVE NonceInv' /\ NonceSingleUse'
  BY <1>2 DEF ValidateProofNonce, ValidateNonce
<1>3. CASE nonces' \subseteq nonces /\ UNCHANGED admitted
  BY <1>3
<1>4. ASSUME NEW q \in Requests,
             \/ \E k \in Tokens : \E n \in Nonces \cup {k} : RequestStart(q, k, n)
             \/ VerifyRequest(q) \/ FindRecord(q) \/ AllocateIdx(q) \/ BuildCredential(q)
             \/ MarkIssued(q) \/ Reply(q) \/ RequestFails(q)
      PROVE  nonces' \subseteq nonces /\ UNCHANGED admitted
  BY <1>4 DEF RequestStart, VerifyRequest, FindRecord, AllocateIdx, BuildCredential, MarkIssued,
     InvalidateNonce, Reply, RequestFails
<1>5. ASSUME NEW t \in Triggers, TriggerStep(t) PROVE nonces' \subseteq nonces /\ UNCHANGED admitted
  BY <1>5 DEF TriggerStep, TriggerCreate, TriggerLink, TriggerStoreOffer, TriggerAnswer, sessionVars
<1>6. CASE \/ \E t \in Triggers : RevokeCredential(t)
           \/ \E k \in Tokens, t \in Triggers : MintToken(k, t)
           \/ Restart \/ UNCHANGED vars
  BY <1>3, <1>6 DEF RevokeCredential, MintToken, Restart, vars, sessionVars
<1> QED
  BY <1>1, <1>2, <1>3, <1>4, <1>5, <1>6 DEF Next, Succeeds

\* Records, the tokens that lead to them, and their entries are there for good.
LEMMA NothingVanishes ==
  ASSUME IInv, [Next]_vars
  PROVE  /\ \A r \in Triggers : recStatus[r] # "none" => recStatus'[r] # "none"
         /\ \A k \in Tokens : tokRec[k] # "none" => tokRec'[k] = tokRec[k]
         /\ \A r \in Triggers : statusByRecID[r] # SL!NoIdx => statusByRecID'[r] = statusByRecID[r]
<1> USE DEF IInv, TypeOK
<1>1. \A r \in Triggers : statusByRecID[r] # SL!NoIdx => statusByRecID'[r] = statusByRecID[r]
  BY StoreStep, EntriesStay
<1>2. ASSUME NEW t \in Triggers, TriggerStep(t)
      PROVE  /\ \A r \in Triggers : recStatus[r] # "none" => recStatus'[r] # "none"
             /\ UNCHANGED tokRec
  BY <1>2 DEF TriggerStep, TriggerCreate, TriggerLink, TriggerStoreOffer, TriggerAnswer, UpdateStatus,
     recordVars, walletVars
<1>3. ASSUME NEW q \in Requests, MarkIssued(q)
      PROVE  /\ \A r \in Triggers : recStatus[r] # "none" => recStatus'[r] # "none"
             /\ UNCHANGED tokRec
  BY <1>3 DEF MarkIssued, UpdateStatus, RequestFrame
<1>4. ASSUME NEW k \in Tokens, NEW t \in Triggers, MintToken(k, t)
      PROVE  /\ UNCHANGED recStatus
             /\ \A l \in Tokens : tokRec[l] # "none" => tokRec'[l] = tokRec[l]
  BY <1>4 DEF MintToken, recordVars
<1>5. ASSUME NEW q \in Requests,
             \/ \E k \in Tokens : \E n \in Nonces \cup {k} : RequestStart(q, k, n)
             \/ VerifyRequest(q) \/ ValidateProofNonce(q) \/ FindRecord(q) \/ AllocateIdx(q)
             \/ BuildCredential(q) \/ Reply(q) \/ RequestFails(q)
      PROVE  UNCHANGED <<recStatus, tokRec>>
  BY <1>5 DEF RequestStart, VerifyRequest, ValidateProofNonce, FindRecord, AllocateIdx, BuildCredential,
     Reply, RequestFails, RequestFrame
<1>6. CASE \/ \E t \in Triggers : RevokeCredential(t)
           \/ \E n \in Nonces : GenerateNonce(n)
           \/ Restart \/ UNCHANGED vars
  BY <1>1, <1>6 DEF RevokeCredential, GenerateNonce, Restart, vars, recordVars, walletVars
<1> QED
  BY <1>1, <1>2, <1>3, <1>4, <1>5, <1>6 DEF Next, Succeeds

\* What a request established stays true while others run.
LEMMA RequestInvStep == IInv /\ [Next]_vars => RequestInv'
<1> SUFFICES ASSUME IInv, [Next]_vars PROVE RequestInv'
  OBVIOUS
<1> DEFINE Kept(q) == qpc'[q] = qpc[q] /\ qtok'[q] = qtok[q] /\ qidx'[q] = qidx[q]
           Good(q) ==
             /\ qpc'[q] \in {"alloc", "build", "mark", "reply"} =>
                  Rec(q)' \in Triggers \ EmptyTriggers /\ recStatus'[Rec(q)'] # "none"
             /\ qpc'[q] \in {"build", "mark", "reply"} =>
                  statusByRecID'[Rec(q)'] # SL!NoIdx /\ qidx'[q] = statusByRecID'[Rec(q)']
<1>0. (\A q \in Requests : Good(q)) => RequestInv'
  BY DEF RequestInv, SL!HasEntry
<1>1. ASSUME NEW q \in Requests, Rec(q) \in Triggers, qtok'[q] = qtok[q] PROVE Rec(q)' = Rec(q)
  BY <1>1, NothingVanishes, ConstantsAssumption DEF IInv, TypeOK, Rec
<1>2. ASSUME NEW q \in Requests, Kept(q) PROVE Good(q)
  BY <1>1, <1>2, NothingVanishes DEF IInv, RequestInv, SL!HasEntry
<1>3. ASSUME NEW q \in Requests, qpc'[q] \notin {"alloc", "build", "mark", "reply"} PROVE Good(q)
  BY <1>3
<1>4. ASSUME NEW q \in Requests, FindRecord(q) PROVE Good(q)
  BY <1>4 DEF FindRecord, HasData, QGoto, RequestFrame, Rec, IInv, TypeOK
<1>5. ASSUME NEW q \in Requests, AllocateIdx(q) PROVE Good(q)
  <2>1. Rec(q) \in Triggers \ EmptyTriggers /\ recStatus[Rec(q)] # "none" /\ SL!AllocateIdx(Rec(q))
    BY <1>5 DEF AllocateIdx, IInv, RequestInv
  <2>2. Rec(q)' = Rec(q) /\ recStatus' = recStatus
    BY <1>5 DEF AllocateIdx, RequestFrame, Rec
  <2>3. statusByRecID'[Rec(q)] # SL!NoIdx
    BY <2>1, Allocated DEF IInv, TypeOK
  <2>4. qidx'[q] = statusByRecID'[Rec(q)]
    BY <1>5 DEF AllocateIdx, IInv, TypeOK
  <2> QED
    BY <2>1, <2>2, <2>3, <2>4
<1>6. ASSUME NEW q \in Requests, BuildCredential(q) \/ MarkIssued(q) PROVE Good(q)
  <2>1. qtok'[q] = qtok[q] /\ qidx'[q] = qidx[q] /\ qpc[q] \in {"build", "mark"}
    BY <1>6 DEF BuildCredential, MarkIssued
  <2> QED
    BY <1>1, <2>1, NothingVanishes DEF IInv, RequestInv, SL!HasEntry
<1>7. ASSUME NEW q \in Requests,
             \/ \E k \in Tokens : \E n \in Nonces \cup {k} : RequestStart(q, k, n)
             \/ VerifyRequest(q) \/ ValidateProofNonce(q) \/ Reply(q) \/ RequestFails(q)
      PROVE  qpc'[q] \notin {"alloc", "build", "mark", "reply"}
  BY <1>7 DEF RequestStart, VerifyRequest, ValidateProofNonce, Reply, RequestFails, QGoto, IInv, TypeOK
<1>8. ASSUME NEW q \in Requests,
             \/ \E k \in Tokens : \E n \in Nonces \cup {k} : RequestStart(q, k, n)
             \/ Succeeds(q) \/ RequestFails(q)
      PROVE  \A p \in Requests \ {q} : Kept(p)
  BY <1>8 DEF RequestStart, Succeeds, VerifyRequest, ValidateProofNonce, FindRecord, AllocateIdx,
     BuildCredential, MarkIssued, Reply, RequestFails, QGoto, IInv, TypeOK
<1>9. CASE Restart
  BY <1>0, <1>3, <1>9 DEF Restart
<1>10. ASSUME NEW t \in Triggers, TriggerStep(t) \/ RevokeCredential(t) PROVE UNCHANGED reqVars
  BY <1>10 DEF TriggerStep, TriggerCreate, TriggerLink, TriggerStoreOffer, TriggerAnswer, RevokeCredential
<1>11. CASE \/ \E k \in Tokens, t \in Triggers : MintToken(k, t)
            \/ \E n \in Nonces : GenerateNonce(n)
            \/ UNCHANGED vars
  BY <1>0, <1>2, <1>11 DEF MintToken, GenerateNonce, vars, reqVars
<1> HIDE DEF Kept, Good
<1>12. ASSUME NEW q \in Requests,
              \/ \E k \in Tokens : \E n \in Nonces \cup {k} : RequestStart(q, k, n)
              \/ Succeeds(q) \/ RequestFails(q)
       PROVE  RequestInv'
  BY <1>0, <1>2, <1>3, <1>4, <1>5, <1>6, <1>7, <1>8, <1>12 DEF Succeeds
<1>13. CASE UNCHANGED reqVars
  BY <1>0, <1>2, <1>13 DEF reqVars, Kept
<1> QED
  BY <1>9, <1>10, <1>11, <1>12, <1>13 DEF Next

\* Only Reply hands a credential out.
LEMMA DeliveredFrame ==
  ASSUME [Next]_vars, \A q \in Requests : ~Reply(q)
  PROVE  UNCHANGED delivered
<1>1. ASSUME NEW t \in Triggers, TriggerStep(t) \/ RevokeCredential(t) PROVE UNCHANGED delivered
  BY <1>1 DEF TriggerStep, TriggerCreate, TriggerLink, TriggerStoreOffer, TriggerAnswer,
     RevokeCredential, walletVars
<1>2. ASSUME NEW q \in Requests,
             \/ \E k \in Tokens : \E n \in Nonces \cup {k} : RequestStart(q, k, n)
             \/ VerifyRequest(q) \/ ValidateProofNonce(q) \/ FindRecord(q) \/ AllocateIdx(q)
             \/ BuildCredential(q) \/ MarkIssued(q) \/ RequestFails(q)
      PROVE  UNCHANGED delivered
  BY <1>2 DEF RequestStart, VerifyRequest, ValidateProofNonce, FindRecord, AllocateIdx, BuildCredential,
     MarkIssued, RequestFails
<1>3. CASE \/ \E k \in Tokens, t \in Triggers : MintToken(k, t)
           \/ \E n \in Nonces : GenerateNonce(n)
           \/ Restart \/ UNCHANGED vars
  BY <1>3 DEF MintToken, GenerateNonce, Restart, vars, walletVars
<1> QED
  BY <1>1, <1>2, <1>3 DEF Next, Succeeds

LEMMA DeliveredInvStep == IInv /\ [Next]_vars => DeliveredInv'
<1> SUFFICES ASSUME IInv, [Next]_vars PROVE DeliveredInv'
  OBVIOUS
<1>1. \A d \in delivered : d[1] \in Triggers
  BY DEF IInv, TypeOK
<1>2. \A d \in delivered : statusByRecID'[d[1]] # SL!NoIdx /\ d[2] = statusByRecID'[d[1]]
  BY <1>1, NothingVanishes DEF IInv, DeliveredInv, SL!HasEntry
<1>3. ASSUME NEW q \in Requests, Reply(q) PROVE DeliveredInv'
  <2>1. /\ Rec(q) \in Triggers /\ statusByRecID[Rec(q)] # SL!NoIdx
        /\ qidx[q] = statusByRecID[Rec(q)] /\ UNCHANGED statusByRecID
    BY <1>3 DEF Reply, IInv, RequestInv, SL!HasEntry, storeVars
  <2> QED
    BY <1>2, <1>3, <2>1 DEF Reply, DeliveredInv, SL!HasEntry
<1> QED
  BY <1>2, <1>3, DeliveredFrame DEF DeliveredInv, SL!HasEntry

\* A record's status moves forward, and no trigger is left to overwrite a mark.
LEMMA StatusForward ==
  ASSUME IInv, [Next]_vars, NEW r \in Triggers
  PROVE  /\ Rank(recStatus[r]) <= Rank(recStatus'[r])
         /\ recStatus[r] = "credential_issued" => recStatus'[r] = "credential_issued"
<1> USE DEF IInv, TypeOK
<1>0. recStatus[r] \in Stages /\ recStatus'[r] \in Stages
  BY TypeStep
<1>1. ASSUME NEW t \in Triggers, TriggerCreate(t)
      PROVE  recStatus'[r] = recStatus[r] \/ recStatus[r] = "none"
  BY <1>1 DEF TriggerCreate, TriggerInv
<1>2. ASSUME NEW t \in Triggers, TriggerAnswer(t)
      PROVE  \/ recStatus'[r] = recStatus[r]
             \/ recStatus[r] = "pending" /\ recStatus'[r] = "offer_created"
  BY <1>2, ConstantsAssumption DEF TriggerAnswer, UpdateStatus, TriggerInv
<1>3. ASSUME NEW q \in Requests, MarkIssued(q)
      PROVE  recStatus'[r] = recStatus[r] \/ recStatus'[r] = "credential_issued"
  BY <1>3 DEF MarkIssued, UpdateStatus
<1>4. ASSUME NEW t \in Triggers, TriggerLink(t) \/ TriggerStoreOffer(t) \/ RevokeCredential(t)
      PROVE  UNCHANGED recStatus
  BY <1>4 DEF TriggerLink, TriggerStoreOffer, RevokeCredential, recordVars
<1>5. ASSUME NEW q \in Requests,
             \/ \E k \in Tokens : \E n \in Nonces \cup {k} : RequestStart(q, k, n)
             \/ VerifyRequest(q) \/ ValidateProofNonce(q) \/ FindRecord(q) \/ AllocateIdx(q)
             \/ BuildCredential(q) \/ Reply(q) \/ RequestFails(q)
      PROVE  UNCHANGED recStatus
  BY <1>5 DEF RequestStart, VerifyRequest, ValidateProofNonce, FindRecord, AllocateIdx, BuildCredential,
     Reply, RequestFails
<1>6. ASSUME \/ \E k \in Tokens, t \in Triggers : MintToken(k, t)
             \/ \E n \in Nonces : GenerateNonce(n)
             \/ Restart \/ UNCHANGED vars
      PROVE  UNCHANGED recStatus
  BY <1>6 DEF MintToken, GenerateNonce, Restart, vars, recordVars
<1> HIDE DEF IInv, TypeOK
<1>7. \/ recStatus'[r] = recStatus[r]
      \/ recStatus[r] = "none"
      \/ recStatus[r] = "pending" /\ recStatus'[r] = "offer_created"
      \/ recStatus'[r] = "credential_issued"
  BY <1>1, <1>2, <1>3, <1>4, <1>5, <1>6 DEF Next, Succeeds, TriggerStep
<1> QED
  BY <1>0, <1>7 DEF Rank, Stages

\* Without faults a trigger that goes on has its record, and links it first.
LEMMA FaultFreeStep == IInv /\ [Next]_vars => FaultFreeInv'
<1> SUFFICES ASSUME IInv, [Next]_vars, ~DBFaults PROVE FaultFreeInv'
  BY DEF FaultFreeInv
<1> DEFINE Linked == /\ \A t \in Triggers : tpc[t] \in {"link", "offer", "mark", "answered"} =>
                         trec[t] = t /\ recStatus[t] # "none"
                     /\ \A t \in Triggers : tpc[t] \in {"offer", "mark", "answered"} => t \in linked
                     /\ \A k \in Tokens : tokRec[k] # NoRec
           Marked == /\ \A q \in Requests : qpc[q] = "reply" => recStatus[Rec(q)] = "credential_issued"
                     /\ \A d \in delivered : recStatus[d[1]] = "credential_issued"
<1>0. Linked /\ Marked /\ (Linked' /\ Marked' => FaultFreeInv')
  BY DEF IInv, FaultFreeInv
<1>1. Linked'
  <2> USE <1>0 DEF IInv, TypeOK
  <2>1. ASSUME NEW t \in Triggers, TriggerStep(t) PROVE Linked'
    BY <2>1 DEF TriggerStep, TriggerCreate, TriggerLink, TriggerStoreOffer, TriggerAnswer, UpdateStatus,
       UpdateIssuerState, recordVars, walletVars
  <2>2. ASSUME NEW k \in Tokens, NEW t \in Triggers, MintToken(k, t) PROVE Linked'
    BY <2>2, ConstantsAssumption DEF MintToken, FindByIssuerState, recordVars, trigVars
  <2>3. CASE Restart
    BY <2>3 DEF Restart, recordVars, walletVars
  <2>4. CASE UNCHANGED <<linked, trigVars, tokRec>>
    BY <2>4, NothingVanishes DEF trigVars
  <2>5. ASSUME NEW q \in Requests,
               \/ \E k \in Tokens : \E n \in Nonces \cup {k} : RequestStart(q, k, n)
               \/ Succeeds(q) \/ RequestFails(q)
        PROVE  UNCHANGED <<linked, trigVars, tokRec>>
    BY <2>5 DEF RequestStart, Succeeds, VerifyRequest, ValidateProofNonce, FindRecord, AllocateIdx,
       BuildCredential, MarkIssued, Reply, RequestFails, RequestFrame
  <2>6. CASE \/ \E t \in Triggers : RevokeCredential(t)
             \/ \E n \in Nonces : GenerateNonce(n)
             \/ UNCHANGED vars
    BY <2>4, <2>6 DEF RevokeCredential, GenerateNonce, vars, recordVars, walletVars
  <2> HIDE DEF IInv, TypeOK, Linked
  <2> QED
    BY <2>1, <2>2, <2>3, <2>4, <2>5, <2>6 DEF Next
<1>2. ASSUME NEW q \in Requests, qpc'[q] = "reply" PROVE recStatus'[Rec(q)'] = "credential_issued"
  <2>1. qpc[q] = "reply" \/ MarkIssued(q)
    <3>1. ASSUME NEW p \in Requests,
                 \/ \E k \in Tokens : \E n \in Nonces \cup {k} : RequestStart(p, k, n)
                 \/ Succeeds(p) \/ RequestFails(p)
          PROVE  qpc[q] = "reply" \/ MarkIssued(q)
      BY <1>2, <3>1 DEF RequestStart, Succeeds, VerifyRequest, ValidateProofNonce, FindRecord, AllocateIdx,
         BuildCredential, MarkIssued, Reply, RequestFails, QGoto, IInv, TypeOK
    <3>2. ASSUME NEW t \in Triggers, TriggerStep(t) \/ RevokeCredential(t) PROVE UNCHANGED qpc
      BY <3>2 DEF TriggerStep, TriggerCreate, TriggerLink, TriggerStoreOffer, TriggerAnswer,
         RevokeCredential, reqVars
    <3>3. ASSUME \/ \E k \in Tokens, t \in Triggers : MintToken(k, t)
                 \/ \E n \in Nonces : GenerateNonce(n)
                 \/ UNCHANGED vars
          PROVE  UNCHANGED qpc
      BY <3>3 DEF MintToken, GenerateNonce, vars, reqVars
    <3>4. ~Restart
      BY <1>2 DEF Restart
    <3> QED
      BY <1>2, <3>1, <3>2, <3>3, <3>4 DEF Next
  <2>2. Rec(q) \in Triggers
    BY <2>1 DEF MarkIssued, IInv, RequestInv
  <2>3. CASE MarkIssued(q)
    <3>1. recStatus'[Rec(q)] = "credential_issued"
      BY <2>2, <2>3 DEF MarkIssued, UpdateStatus, IInv, RequestInv
    <3>2. Rec(q)' = Rec(q)
      BY <2>3 DEF MarkIssued, RequestFrame, Rec
    <3> QED
      BY <3>1, <3>2
  <2>4. CASE qpc[q] = "reply"
    <3>1. qtok'[q] = qtok[q]
      <4>1. ASSUME NEW p \in Requests, NEW k \in Tokens, NEW n \in Nonces \cup {k}, RequestStart(p, k, n)
            PROVE  qtok'[q] = qtok[q]
        BY <2>4, <4>1 DEF RequestStart, IInv, TypeOK
      <4>2. ASSUME NEW p \in Requests, Succeeds(p) \/ RequestFails(p) PROVE UNCHANGED qtok
        BY <4>2 DEF Succeeds, VerifyRequest, ValidateProofNonce, FindRecord, AllocateIdx,
           BuildCredential, MarkIssued, Reply, RequestFails
      <4>3. ASSUME NEW t \in Triggers, TriggerStep(t) \/ RevokeCredential(t) PROVE UNCHANGED qtok
        BY <4>3 DEF TriggerStep, TriggerCreate, TriggerLink, TriggerStoreOffer, TriggerAnswer,
           RevokeCredential, reqVars
      <4>4. ASSUME \/ \E k \in Tokens, t \in Triggers : MintToken(k, t)
                   \/ \E n \in Nonces : GenerateNonce(n)
                   \/ Restart \/ UNCHANGED vars
            PROVE  UNCHANGED qtok
        BY <4>4 DEF MintToken, GenerateNonce, Restart, vars, reqVars
      <4> QED
        BY <4>1, <4>2, <4>3, <4>4 DEF Next
    <3>2. Rec(q)' = Rec(q)
      BY <2>2, <3>1, NothingVanishes, ConstantsAssumption DEF IInv, TypeOK, Rec
    <3> QED
      BY <1>0, <2>2, <2>4, <3>2, StatusForward
  <2> QED
    BY <2>1, <2>3, <2>4
<1>3. ASSUME NEW d \in delivered' PROVE recStatus'[d[1]] = "credential_issued"
  <2>1. d \in delivered \/ \E q \in Requests : qpc[q] = "reply" /\ d = <<Rec(q), qidx[q]>>
    BY <1>3, DeliveredFrame DEF Reply
  <2>2. d[1] \in Triggers /\ recStatus[d[1]] = "credential_issued"
    BY <1>0, <2>1 DEF IInv, TypeOK, RequestInv
  <2> QED
    BY <2>2, StatusForward
<1> QED
  BY <1>0, <1>1, <1>2, <1>3

LEMMA StepInv == IInv /\ [Next]_vars => IInv'
BY TypeStep, TriggerInvStep, NonceInvStep, RequestInvStep, DeliveredInvStep, FaultFreeStep DEF IInv

-----------------------------------------------------------------------------
(* Theorems.                                                               *)

\* The inductive invariant of TriggerIssuance, IssueCredential and what they
\* share holds throughout, with faults and restarts.
THEOREM Inductive == Spec => []IInv
BY InitInv, StepInv, PTL DEF Spec

\* The handlers and the stores stay within their types; IInv has more.
THEOREM TypeCorrect == Spec => []TypeOK
BY Inductive, PTL DEF IInv

\* A nonce of GenerateNonce lets one request through, for any numbers of requests
\* that present it and of restarts, and whatever fails.
THEOREM NonceOnce == Spec => []NonceSingleUse
BY Inductive, PTL DEF IInv

\* The late UpdateStatus of TriggerIssuance never overwrites the mark of
\* IssueCredential, whatever fails.
THEOREM Forward == Spec => StatusNeverRegresses
<1>1. IInv /\ [Next]_vars => [\A r \in Triggers : Rank(recStatus[r]) <= Rank(recStatus'[r])]_vars
  BY StatusForward
<1> QED
  BY <1>1, Inductive, PTL DEF Spec, StatusNeverRegresses

\* TriggerIssuance, IssueCredential and RevokeCredential, interleaved, use the
\* status list store by its operations and for records that exist, so that they
\* implement its specification.
THEOREM UsesStore == Spec => SL!Spec
<1>1. Init => SL!Init
  BY DEF Init
<1>2. IInv /\ [Next]_vars => [SL!Next]_(SL!storeVars)
  BY StoreStep DEF IInv
<1> QED
  BY <1>1, <1>2, Inductive, PTL DEF Spec, SL!Spec

\* The index in a credential stays that of its record, and once revoked it is
\* never valid again, also when the credential is requested once more.
THEOREM EntriesForGood == Spec => SL!EntriesPersist
BY UsesStore, StorePermanence, PTL

\* Whatever the retries, formats, failures and restarts, credentials carry the
\* index that RevokeCredential would set for their record, and no other record's.
THEOREM IndexOfCredential == Spec => []DeliveredIdxIsEntry
<1>1. IInv /\ SL!OneRecordPerIdx => DeliveredIdxIsEntry
  <2> SUFFICES ASSUME IInv, SL!OneRecordPerIdx,
                      NEW d \in delivered, NEW e \in delivered, d[2] = e[2]
               PROVE  d[1] = e[1]
    BY DEF DeliveredIdxIsEntry, IInv, DeliveredInv
  <2>1. /\ d[1] \in Triggers /\ e[1] \in Triggers
        /\ statusByRecID[d[1]] = statusByRecID[e[1]] /\ statusByRecID[d[1]] # SL!NoIdx
    BY DEF IInv, TypeOK, DeliveredInv, SL!HasEntry
  <2>2. statusByRecID[d[1]] \in 0..(statusNextIdx - 1)
    BY <2>1 DEF IInv, TypeOK, SL!TypeOK
  <2> QED
    BY <2>1, <2>2 DEF SL!OneRecordPerIdx
<1> QED
  BY <1>1, Inductive, UsesStore, IndexOwnership, PTL

\* Where queries do not fail, a credential a wallet holds can be revoked: it was
\* marked before it was handed out, and the mark stays.  (IssuanceMarkFails.cfg
\* shows that this fails when the store swallows an error of UpdateStatus.)
THEOREM RevocableAlways == ASSUME ~DBFaults PROVE Spec => []DeliveredIsRevocable
<1>1. IInv => DeliveredIsRevocable
  BY DEF IInv, DeliveredInv, FaultFreeInv, DeliveredIsRevocable, Revocable
<1> QED
  BY <1>1, Inductive, PTL

\* Where queries do not fail, the AS finds the record behind every offer that can
\* be resolved, also after restarts.
THEOREM TokensLead == ASSUME ~DBFaults PROVE Spec => []TokenHasRecord
<1>1. IInv => TokenHasRecord
  BY DEF IInv, FaultFreeInv, TokenHasRecord
<1> QED
  BY <1>1, Inductive, PTL
=============================================================================
