------------------------------- MODULE Issuance -------------------------------
(***************************************************************************)
(* The life of an issuance record (internal/issuance/service.go with       *)
(* store.go, postgres_store.go and internal/session/store.go):             *)
(* POST /issuance creates a record and an offer in several store calls;    *)
(* the authorization server (AS, not under src/) turns the offer's         *)
(* issuer_state into an access token; POST /credential spends a nonce,     *)
(* allocates a status list index, signs, and marks the record issued; and  *)
(* an operator may revoke it.  All of it runs concurrently, any step may   *)
(* fail, and the process may restart, which loses the session store.       *)
(*                                                                         *)
(* A record id, an issuer_state and an offer id are random tokens made by  *)
(* one TriggerIssuance call; all three are modelled by that call.          *)
(***************************************************************************)
EXTENDS Integers

CONSTANTS Triggers,       \* TriggerIssuance calls, and the records they create
          EmptyTriggers,  \* those made without credential_data
          Tokens,         \* access tokens the AS may mint, and their c_nonces
          Nonces,         \* the nonces the Nonce Endpoint may draw
          Requests,       \* handlers of POST /credential
          NoRec,          \* no record: "" as a record id
          DBFaults,       \* TRUE if a query of the record or status store may fail
          MaxRestarts     \* bound on the number of restarts

ASSUME ConstantsAssumption ==
  /\ EmptyTriggers \subseteq Triggers
  /\ NoRec \notin Triggers
  /\ "none" \notin Triggers \cup {NoRec}
  /\ Tokens \cap Nonces = {}
  /\ DBFaults \in BOOLEAN
  /\ MaxRestarts \in Nat

VARIABLES
  recStatus,        \* Record.Status, "none" where the table has no row
  linked,           \* records whose issuer_state column is set
  statusNextIdx, statusByIdx, statusByRecID,   \* the status list store
  offers, nonces,   \* session store: credentialOffers, nonces
  tpc, trec,        \* TriggerIssuance: control, and rec.ID
  shown,            \* nonces a wallet was given
  tokRec,           \* AS: token -> issuance_record_id, "none" before it is minted
  qpc, qtok,        \* IssueCredential: control, access token
  qnonce, qidx,     \* ... proof nonce, status index
  admitted,         \* history: nonce -> number of requests it let through
  delivered,        \* history: <<record, idx>> of the credentials wallets hold
  restarts

SL == INSTANCE StatusListStore WITH Records <- Triggers

recordVars  == <<recStatus, linked>>
storeVars   == <<statusNextIdx, statusByIdx, statusByRecID>>
sessionVars == <<offers, nonces>>
trigVars    == <<tpc, trec>>
walletVars  == <<shown, tokRec, delivered>>
reqVars     == <<qpc, qtok, qnonce, qidx>>
vars == <<recordVars, storeVars, sessionVars, trigVars, walletVars, reqVars, admitted, restarts>>

Stages == {"none", "pending", "offer_created", "credential_issued"}
Rank(s) == CASE s = "none" -> 0 [] s = "pending" -> 1
             [] s = "offer_created" -> 2 [] s = "credential_issued" -> 3

TypeOK ==
  /\ recStatus \in [Triggers -> Stages]
  /\ linked \subseteq Triggers
  /\ SL!TypeOK
  /\ offers \subseteq Triggers /\ nonces \subseteq Nonces /\ shown \subseteq Nonces
  /\ tpc \in [Triggers -> {"idle", "link", "offer", "mark", "answered", "lost"}]
  /\ trec \in [Triggers -> Triggers \cup {NoRec}]
  /\ tokRec \in [Tokens -> Triggers \cup {NoRec, "none"}]
  /\ qpc \in [Requests -> {"idle", "verify", "nonce", "find", "alloc", "build", "mark", "reply"}]
  /\ qtok \in [Requests -> Tokens]
  /\ qnonce \in [Requests -> Nonces \cup Tokens]
  /\ qidx \in [Requests -> Nat]
  /\ admitted \in [Nonces -> Nat]
  /\ delivered \subseteq Triggers \X Nat
  /\ restarts \in 0..MaxRestarts

Init ==
  /\ recStatus = [t \in Triggers |-> "none"]
  /\ linked = {}
  /\ SL!Init
  /\ offers = {} /\ nonces = {} /\ shown = {}
  /\ tpc = [t \in Triggers |-> "idle"]
  /\ trec = [t \in Triggers |-> NoRec]
  /\ tokRec = [k \in Tokens |-> "none"]
  /\ qpc = [q \in Requests |-> "idle"]
  /\ \E k \in Tokens : qtok = [q \in Requests |-> k] /\ qnonce = [q \in Requests |-> k]
  /\ qidx = [q \in Requests |-> 0]
  /\ admitted = [n \in Nonces |-> 0]
  /\ delivered = {}
  /\ restarts = 0

-----------------------------------------------------------------------------
(* RecordStore.  A query that fails is swallowed by the Postgres store.    *)

\* UpdateStatus: no row, no effect.
UpdateStatus(id, status) ==
  \/ recStatus' = [r \in Triggers |->
       IF r = id /\ recStatus[r] # "none" THEN status ELSE recStatus[r]]
  \/ DBFaults /\ UNCHANGED recStatus

\* Variant: an issuer_state index with room for one record.
UpdateIssuerState_OneSlot(id) == linked' = {id}

\* UpdateIssuerState: no row, no effect.
UpdateIssuerState(id) ==
  \/ linked' = linked \cup {r \in Triggers : r = id /\ recStatus[r] # "none"}
  \/ DBFaults /\ UNCHANGED linked

\* FindByIssuerState: the record an issuer_state was linked to.
FindByIssuerState(t) == IF t \in linked THEN t ELSE NoRec

-----------------------------------------------------------------------------
(* The session store.                                                      *)

RegisterNonce(n) == nonces' = nonces \cup {n}

\* ValidateNonce: whether the nonce was there; if so it is consumed.
ValidateNonce(n) == n \in nonces /\ nonces' = nonces \ {n}

InvalidateNonce(n) == nonces' = nonces \ {n}

StoreCredentialOffer(t) == offers' = offers \cup {t}

GetCredentialOffer(t) == t \in offers

-----------------------------------------------------------------------------
(* TriggerIssuance.                                                        *)

\* Create; a failed INSERT gives the zero Record, whether or not the row made it.
TriggerCreate(t) ==
  /\ tpc[t] = "idle"
  /\ tpc' = [tpc EXCEPT ![t] = "link"]
  /\ \/ /\ recStatus' = [recStatus EXCEPT ![t] = "pending"]
        /\ trec' = [trec EXCEPT ![t] = t]
     \/ /\ DBFaults
        /\ recStatus' = [recStatus EXCEPT ![t] = "pending"] \/ UNCHANGED recStatus
        /\ UNCHANGED trec
  /\ UNCHANGED <<linked, storeVars, sessionVars, walletVars, reqVars, admitted, restarts>>

TriggerLink(t) ==
  /\ tpc[t] = "link"
  /\ tpc' = [tpc EXCEPT ![t] = "offer"]
  /\ UpdateIssuerState(trec[t])
  /\ UNCHANGED <<recStatus, storeVars, sessionVars, trec, walletVars, reqVars, admitted, restarts>>

\* Variant: the offer URI is answered before the record is marked.
TriggerStoreOffer_AnswersEarly(t) ==
  /\ tpc[t] \in {"offer", "answered"}
  /\ \/ /\ tpc[t] = "offer"
        /\ tpc' = [tpc EXCEPT ![t] = "answered"]
        /\ StoreCredentialOffer(t)
        /\ UNCHANGED recStatus
     \/ /\ tpc[t] = "answered"
        /\ UpdateStatus(trec[t], "offer_created")
        /\ UNCHANGED <<tpc, offers>>
  /\ UNCHANGED <<linked, storeVars, nonces, trec, walletVars, reqVars, admitted, restarts>>

TriggerStoreOffer(t) ==
  /\ tpc[t] = "offer"
  /\ tpc' = [tpc EXCEPT ![t] = "mark"]
  /\ StoreCredentialOffer(t)
  /\ UNCHANGED <<recordVars, storeVars, nonces, trec, walletVars, reqVars, admitted, restarts>>

\* UpdateStatus, and the answer with the offer URI: always a success.
TriggerAnswer(t) ==
  /\ tpc[t] = "mark"
  /\ tpc' = [tpc EXCEPT ![t] = "answered"]
  /\ UpdateStatus(trec[t], "offer_created")
  /\ UNCHANGED <<linked, storeVars, sessionVars, trec, walletVars, reqVars, admitted, restarts>>

-----------------------------------------------------------------------------
(* The wallet, the AS and the Nonce Endpoint.                              *)

\* The wallet resolves the offer and the AS asks for the record of its
\* issuer_state; an unknown one, which is also what the AS is told if the query
\* fails, still gives a token, without a record.
MintToken(k, t) ==
  /\ tokRec[k] = "none"
  /\ tpc[t] = "answered" /\ GetCredentialOffer(t)
  /\ \/ tokRec' = [tokRec EXCEPT ![k] = FindByIssuerState(t)]
     \/ DBFaults /\ tokRec' = [tokRec EXCEPT ![k] = NoRec]
  /\ UNCHANGED <<recordVars, storeVars, sessionVars, trigVars, shown, delivered, reqVars,
                 admitted, restarts>>

\* GenerateNonce registers first; the nonce is answered unless an access token
\* was presented and does not verify.
GenerateNonce(n) ==
  /\ n \notin nonces /\ n \notin shown /\ admitted[n] = 0
  /\ RegisterNonce(n)
  /\ shown' = shown \cup {n} \/ UNCHANGED shown
  /\ UNCHANGED <<recordVars, storeVars, offers, trigVars, tokRec, delivered, reqVars,
                 admitted, restarts>>

-----------------------------------------------------------------------------
(* IssueCredential.                                                        *)

\* What every step of a request leaves alone.
RequestFrame ==
  UNCHANGED <<linked, offers, trigVars, shown, tokRec, restarts>>

QGoto(q, label) == qpc' = [qpc EXCEPT ![q] = label]

\* A wallet sends any nonce it was given, used or not, or its token's c_nonce.
RequestStart(q, k, n) ==
  /\ qpc[q] = "idle"
  /\ tokRec[k] # "none"
  /\ n \in shown \cup {k}
  /\ QGoto(q, "verify")
  /\ qtok' = [qtok EXCEPT ![q] = k]
  /\ qnonce' = [qnonce EXCEPT ![q] = n]
  /\ UNCHANGED <<recStatus, storeVars, nonces, qidx, admitted, delivered>>
  /\ RequestFrame

\* The access token, the DPoP proof, the body and the key proof are all in order.
VerifyRequest(q) ==
  /\ qpc[q] = "verify"
  /\ QGoto(q, "nonce")
  /\ UNCHANGED <<recStatus, storeVars, nonces, qtok, qnonce, qidx, admitted, delivered>>
  /\ RequestFrame

\* Variant: the nonce is looked up and left in the store.
ValidateProofNonce_KeepsNonce(q) ==
  /\ qpc[q] = "nonce"
  /\ IF qnonce[q] \in nonces
     THEN /\ admitted' = [admitted EXCEPT ![qnonce[q]] = @ + 1]
          /\ QGoto(q, "find")
     ELSE /\ QGoto(q, IF qnonce[q] = qtok[q] THEN "find" ELSE "idle")
          /\ UNCHANGED admitted
  /\ UNCHANGED <<recStatus, storeVars, nonces, qtok, qnonce, qidx, delivered>>
  /\ RequestFrame

\* A registered nonce is consumed; otherwise only the token's own c_nonce passes.
ValidateProofNonce(q) ==
  /\ qpc[q] = "nonce"
  /\ \/ /\ ValidateNonce(qnonce[q])
        /\ admitted' = [admitted EXCEPT ![qnonce[q]] = @ + 1]
        /\ QGoto(q, "find")
     \/ /\ qnonce[q] \notin nonces
        /\ QGoto(q, IF qnonce[q] = qtok[q] THEN "find" ELSE "idle")
        /\ UNCHANGED <<nonces, admitted>>
  /\ UNCHANGED <<recStatus, storeVars, qtok, qnonce, qidx, delivered>>
  /\ RequestFrame

Rec(q) == tokRec[qtok[q]]

\* FindByID finds a record with credential data.
HasData(r) == r \in Triggers \ EmptyTriggers /\ recStatus[r] # "none"

FindRecord(q) ==
  /\ qpc[q] = "find"
  /\ QGoto(q, IF HasData(Rec(q)) THEN "alloc" ELSE "idle")
  /\ UNCHANGED <<recStatus, storeVars, nonces, qtok, qnonce, qidx, admitted, delivered>>
  /\ RequestFrame

\* Variant: every request allocates an index of its own.
AllocateIdx_Fresh(q) ==
  /\ qpc[q] = "alloc"
  /\ SL!AllocateIdx_NoLookup(Rec(q))
  /\ qidx' = [qidx EXCEPT ![q] = statusByRecID'[Rec(q)]]
  /\ QGoto(q, "build")
  /\ UNCHANGED <<recStatus, nonces, qtok, qnonce, admitted, delivered>>
  /\ RequestFrame

\* Variant: an entry left by an earlier attempt is not reused.
AllocateIdx_NoReuse(q) ==
  /\ qpc[q] = "alloc"
  /\ ~SL!HasEntry(Rec(q))
  /\ SL!AllocateIdx(Rec(q))
  /\ qidx' = [qidx EXCEPT ![q] = statusByRecID'[Rec(q)]]
  /\ QGoto(q, "build")
  /\ UNCHANGED <<recStatus, nonces, qtok, qnonce, admitted, delivered>>
  /\ RequestFrame

\* Variant: the index is read before it is allocated.
AllocateIdx_ReadsEarly(q) ==
  /\ qpc[q] = "alloc"
  /\ SL!AllocateIdx(Rec(q))
  /\ qidx' = [qidx EXCEPT ![q] = statusByRecID[Rec(q)]]
  /\ QGoto(q, "build")
  /\ UNCHANGED <<recStatus, nonces, qtok, qnonce, admitted, delivered>>
  /\ RequestFrame

AllocateIdx(q) ==
  /\ qpc[q] = "alloc"
  /\ SL!AllocateIdx(Rec(q))
  /\ qidx' = [qidx EXCEPT ![q] = statusByRecID'[Rec(q)]]
  /\ QGoto(q, "build")
  /\ UNCHANGED <<recStatus, nonces, qtok, qnonce, admitted, delivered>>
  /\ RequestFrame

\* buildSDJWTCredential or buildMdocCredential: the credential carries the index.
BuildCredential(q) ==
  /\ qpc[q] = "build"
  /\ QGoto(q, "mark")
  /\ UNCHANGED <<recStatus, storeVars, nonces, qtok, qnonce, qidx, admitted, delivered>>
  /\ RequestFrame

\* Variant: only a first issuance marks the record, any other resets it to offered.
MarkIssued_Toggles(q) ==
  /\ qpc[q] = "mark"
  /\ UpdateStatus(Rec(q), IF recStatus[Rec(q)] = "offer_created" THEN "credential_issued"
                                                                 ELSE "offer_created")
  /\ InvalidateNonce(qtok[q])
  /\ QGoto(q, "reply")
  /\ UNCHANGED <<storeVars, qtok, qnonce, qidx, admitted, delivered>>
  /\ RequestFrame

\* UpdateStatus, InvalidateNonce of the token's c_nonce (never registered here).
MarkIssued(q) ==
  /\ qpc[q] = "mark"
  /\ UpdateStatus(Rec(q), "credential_issued")
  /\ InvalidateNonce(qtok[q])
  /\ QGoto(q, "reply")
  /\ UNCHANGED <<storeVars, qtok, qnonce, qidx, admitted, delivered>>
  /\ RequestFrame

Reply(q) ==
  /\ qpc[q] = "reply"
  /\ QGoto(q, "idle")
  /\ delivered' = delivered \cup {<<Rec(q), qidx[q]>>}
  /\ UNCHANGED <<recStatus, storeVars, nonces, qtok, qnonce, qidx, admitted>>
  /\ RequestFrame

\* Another request for the same record allocated its entry: under PostgresStore
\* this one may have looked for it too early and then fails on the unique index.
LosesAllocRace(q) ==
  /\ qpc[q] = "alloc" /\ SL!HasEntry(Rec(q))
  /\ \E p \in Requests \ {q} : Rec(p) = Rec(q)

\* The error returns: the request does not verify, signing fails, or a race is
\* lost; and, with database faults, the lookup or the allocation fails (the latter
\* possibly after its commit).  Nothing that was done before is undone.
RequestFails(q) ==
  /\ \/ qpc[q] \in {"verify", "build"}
     \/ LosesAllocRace(q)
     \/ DBFaults /\ qpc[q] \in {"find", "alloc"}
  /\ \/ UNCHANGED storeVars
     \/ DBFaults /\ qpc[q] = "alloc" /\ SL!AllocateIdx(Rec(q))
  /\ QGoto(q, "idle")
  /\ UNCHANGED <<recStatus, nonces, qtok, qnonce, qidx, admitted, delivered>>
  /\ RequestFrame

-----------------------------------------------------------------------------
(* Revocation, and restarts.                                               *)

\* RevokeCredential's conditions; its cache is StatusListToken's subject.
Revocable(r) == recStatus[r] = "credential_issued" /\ SL!HasEntry(r)

RevokeCredential(r) ==
  /\ Revocable(r)
  /\ SL!SetStatus(r, SL!StatusInvalid)
  /\ UNCHANGED <<recordVars, sessionVars, trigVars, walletVars, reqVars, admitted, restarts>>

\* The database survives; offers, nonces and the handlers do not.
Restart ==
  /\ restarts < MaxRestarts
  /\ restarts' = restarts + 1
  /\ offers' = {} /\ nonces' = {}
  /\ tpc' = [t \in Triggers |-> IF tpc[t] \in {"idle", "answered"} THEN tpc[t] ELSE "lost"]
  /\ qpc' = [q \in Requests |-> "idle"]
  /\ UNCHANGED <<recordVars, storeVars, trec, walletVars, qtok, qnonce, qidx, admitted>>

-----------------------------------------------------------------------------
TriggerStep(t) == TriggerCreate(t) \/ TriggerLink(t) \/ TriggerStoreOffer(t) \/ TriggerAnswer(t)

Succeeds(q) ==
  \/ VerifyRequest(q)
  \/ ValidateProofNonce(q)
  \/ FindRecord(q)
  \/ AllocateIdx(q)
  \/ BuildCredential(q)
  \/ MarkIssued(q)
  \/ Reply(q)

Next ==
  \/ \E t \in Triggers : TriggerStep(t) \/ RevokeCredential(t)
  \/ \E k \in Tokens, t \in Triggers : MintToken(k, t)
  \/ \E n \in Nonces : GenerateNonce(n)
  \/ \E q \in Requests :
       \/ \E k \in Tokens : \E n \in Nonces \cup {k} : RequestStart(q, k, n)
       \/ Succeeds(q)
       \/ RequestFails(q)
  \/ Restart

Spec == Init /\ [][Next]_vars

\* The request presents token k with its own c_nonce.
Presents(q, k) == qtok[q] = k /\ qnonce[q] = k

\* A wallet with a token keeps asking with its c_nonce, a handler that can run
\* does, and what may fail transiently (the AS, the database, the signing
\* service) does not fail a wallet every time it tries.
FairSpec ==
  /\ Spec
  /\ \A k \in Tokens : SF_vars(\E q \in Requests : RequestStart(q, k, k))
  /\ \A q \in Requests : WF_vars(Succeeds(q))
  /\ \A q \in Requests, k \in Tokens :
       /\ SF_vars(Presents(q, k) /\ VerifyRequest(q))
       /\ SF_vars(Presents(q, k) /\ FindRecord(q))
       /\ SF_vars(Presents(q, k) /\ AllocateIdx(q))
       /\ SF_vars(Presents(q, k) /\ BuildCredential(q))

-----------------------------------------------------------------------------
(* Properties.                                                             *)

\* A nonce of the Nonce Endpoint lets at most one request through, whatever the
\* number of concurrent requests that present it and the restarts in between.
NonceSingleUse == \A n \in Nonces : admitted[n] <= 1

\* Credentials of one record, in whatever format and from whatever retry, carry
\* one index, credentials of two records never the same, and the index is the
\* entry that revoking the record would set.
DeliveredIdxIsEntry ==
  /\ \A d \in delivered : d[2] = statusByRecID[d[1]]
  /\ \A d, e \in delivered : d[2] = e[2] => d[1] = e[1]

\* A record's status only moves forward: the trigger that is still finishing
\* never overwrites the mark of the credential request it enabled.
StatusNeverRegresses ==
  [][\A r \in Triggers : Rank(recStatus[r]) <= Rank(recStatus'[r])]_vars

\* A credential that a wallet holds can be revoked (RevokeCredential refuses a
\* record that "isn't actually issued yet"): the record was marked before the
\* answer, and the mark survives concurrent requests and restarts.
DeliveredIsRevocable == \A d \in delivered : Revocable(d[1])

\* The AS finds the record behind every offer a wallet can resolve: the link is
\* stored before the offer can be known, and kept across restarts.
TokenHasRecord == \A k \in Tokens : tokRec[k] # NoRec

\* A wallet whose token has a usable record gets its credential by retrying: no
\* partial failure, spent nonce or restart leaves a record that can no longer be
\* issued.
RetrySucceeds ==
  \A k \in Tokens :
    (tokRec[k] \in Triggers \ EmptyTriggers) ~> (\E d \in delivered : d[1] = tokRec[k])
=============================================================================
