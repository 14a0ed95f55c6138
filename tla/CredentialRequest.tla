-------------------------- MODULE CredentialRequest --------------------------
(***************************************************************************)
(* What a request must show before anything is issued: the handlers of     *)
(* POST /credential and POST /nonce (internal/httpapi/issuance_handlers.go *)
(* and the first half of IssueCredential in internal/issuance/service.go), *)
(* with the key proof (internal/oid4vci/proof.go, request.go), composed    *)
(* with the DPoP proofs and the jti store of DPoPReplay.                   *)
(*                                                                         *)
(* Wallets send the requests in Messages.  The network, or a wallet that   *)
(* got no answer, may deliver any of them any number of times, to handlers *)
(* that run concurrently; time passes between their steps.  What leaves no *)
(* trace (a refused request) is a return to "idle".                        *)
(*                                                                         *)
(* A request to /credential is [to, scheme, token, dpop, config, ident,    *)
(* proofs, proof]: the Authorization scheme and the access token, the      *)
(* values of the DPoP header, the configuration id and the credential      *)
(* identifier of the body, and the key proofs in the plural and the older  *)
(* singular field (each a sequence); config "" is also a body that cannot  *)
(* be read.  One to /nonce is [to, scheme, token, dpop].  A key proof is   *)
(* [key, refs, aud, nonce, iat, form]: its key, the key references in its  *)
(* header, its claims (iat is a DPoP proof made at the same time), and     *)
(* "bad" if it is refused for its shape alone (parsing, number of          *)
(* signatures, typ, alg, signature, no iat).                               *)
(***************************************************************************)
EXTENDS DPoPReplay, Sequences

CONSTANTS Messages,     \* the requests wallets send
          Handlers,     \* goroutines of the HTTP server
          Nonces,       \* the nonces the Nonce Endpoint may draw
          Claims,       \* access token -> its claims: [JKT, CNonce], "" if there is none
          ProofWindow   \* proofIATWindow

\* All the key proofs in a body.
KeyProofs(m) == {m.proofs[i] : i \in DOMAIN m.proofs} \cup {m.proof[i] : i \in DOMAIN m.proof}

ASSUME RequestAssumption ==
  /\ ProofWindow \in Nat
  /\ Endpoints = {"nonce", "credential"}
  /\ "" \notin Nonces
  /\ \A m \in Messages :
       /\ m.to \in Endpoints /\ m.dpop \in Seq(Proofs)
       /\ m.to = "credential" => m.proofs \in Seq(KeyProofs(m)) /\ m.proof \in Seq(KeyProofs(m))

VARIABLES
  nonces,       \* session store: the registered nonces
  used,         \* the nonces drawn so far
  shown,        \* the nonces that were answered to a wallet
  conn,         \* handler -> [pc, msg, drawn]: control, request, nonce drawn
  issued        \* history: the requests let through, as [token, dpop, holder, nonce]

requestVars == <<vars, nonces, shown, used, conn, issued>>

Idle == [pc |-> "idle"]

RequestInit ==
  /\ Init
  /\ nonces = {} /\ shown = {} /\ used = {}
  /\ conn = [h \in Handlers |-> Idle]
  /\ issued = {}

Go(h, label, m, n) == conn' = [conn EXCEPT ![h] = [pc |-> label, msg |-> m, drawn |-> n]]
Goto(h, label)     == Go(h, label, conn[h].msg, conn[h].drawn)
Return(h)          == conn' = [conn EXCEPT ![h] = Idle]

-----------------------------------------------------------------------------
(* The handlers: headers.                                                  *)

\* Either scheme is stripped; without one of them, or with nothing after it, there
\* is no token.
extractAccessToken(m) == IF m.scheme \in {"Bearer", "DPoP"} THEN {m.token} \ {""} ELSE {}

SingleDPoPHeader(m) == Len(m.dpop) <= 1

\* credential: the token is there, not with the Bearer scheme, and at most one
\* DPoP header is.
credentialHeaders(m) ==
  /\ extractAccessToken(m) # {}
  /\ m.scheme # "Bearer"
  /\ SingleDPoPHeader(m)

\* A nonce of the Nonce Endpoint is in a key proof only after it was answered.
Sendable(m) == \A w \in KeyProofs(m) : w.nonce \in Nonces => w.nonce \in shown

ReceiveCredential(h, m) ==
  /\ conn[h] = Idle
  /\ m.to = "credential" /\ Sendable(m) /\ credentialHeaders(m)
  /\ Go(h, "verify", m, "")
  /\ UNCHANGED <<vars, nonces, shown, used, issued>>

\* GenerateNonce registers a fresh nonce whatever comes of the request; without an
\* access token it is answered at once.
ReceiveNonce(h, m, n) ==
  /\ conn[h] = Idle
  /\ m.to = "nonce" /\ SingleDPoPHeader(m)
  /\ n \notin used
  /\ used' = used \cup {n}
  /\ nonces' = nonces \cup {n}
  /\ \/ /\ extractAccessToken(m) = {}
        /\ shown' = shown \cup {n}
        /\ UNCHANGED conn
     \/ /\ extractAccessToken(m) # {}
        /\ Go(h, "verify", m, n)
        /\ UNCHANGED shown
  /\ UNCHANGED <<vars, issued>>

-----------------------------------------------------------------------------
(* IssueCredential and GenerateNonce: the access token and the DPoP proof. *)

\* Verify (the subject of AccessTokenVerifier) accepts or refuses the token.
VerifyToken(h) ==
  /\ conn[h].pc = "verify"
  /\ Goto(h, "dpop") \/ Return(h)
  /\ UNCHANGED <<vars, nonces, shown, used, issued>>

\* ValidateDPoPProof: no proof, or one that is refused; or its jti is used up and
\* the ath decides.
ValidateDPoPProof(h) ==
  /\ conn[h].pc = "dpop"
  /\ LET m == conn[h].msg IN
     \/ /\ m.dpop = <<>> \/ Refuse(m.dpop[1], m.to)
        /\ Return(h)
        /\ UNCHANGED vars
     \/ /\ m.dpop # <<>>
        /\ UseJTI(m.dpop[1], m.to)
        /\ IF AthMatches(m.dpop[1], m.token) THEN Goto(h, "bound") ELSE Return(h)
  /\ UNCHANGED <<nonces, shown, used, issued>>

\* Variant: any key will do.
requireBoundThumbprint_Any(m) == TRUE

requireBoundThumbprint(m) == m.dpop[1].key = Claims[m.token].JKT

\* The end of GenerateNonce.
AnswerNonce(h) ==
  /\ conn[h].pc = "bound" /\ conn[h].msg.to = "nonce"
  /\ shown' = IF requireBoundThumbprint(conn[h].msg) THEN shown \cup {conn[h].drawn} ELSE shown
  /\ Return(h)
  /\ UNCHANGED <<vars, nonces, used, issued>>

-----------------------------------------------------------------------------
(* IssueCredential: the body, the key proof and its nonce.                 *)

PIDConfigID     == "urn:eudi:pid:1"
PIDMdocConfigID == "urn:eudi:pid:1.mdoc"

KnownConfiguration(m) == m.ident = "" /\ m.config \in {PIDConfigID, PIDMdocConfigID}

\* The plural field first, then the singular one; <<>> if there is none.
ExtractProofJWT(m) == IF m.proofs # <<>> THEN <<m.proofs[1]>> ELSE m.proof

ValidateProofJWT(w) ==
  /\ w.form = "ok"
  /\ w.refs = {"jwk"}
  /\ w.aud = "issuer"
  /\ age[w.iat] \in (-ProofWindow)..ProofWindow

\* A registered nonce is good, or else the token's own c_nonce.
NonceAccepted(n, cNonce) == n # "" /\ (n \in nonces \/ (cNonce # "" /\ n = cNonce))

\* A registered nonce is consumed.
validateProofNonce(n, cNonce) == NonceAccepted(n, cNonce) /\ nonces' = nonces \ {n}

\* What the credential is bound to.
Admit(m, w) ==
  issued' = issued \cup {[token |-> m.token, dpop |-> m.dpop[1], holder |-> w.key, nonce |-> w.nonce]}

\* Variant: the nonce is spent before the key proof is verified.
CheckKeyProof_SpendsFirst(m, w) ==
  /\ validateProofNonce(w.nonce, Claims[m.token].CNonce)
  /\ IF ValidateProofJWT(w) THEN Admit(m, w) ELSE UNCHANGED issued

\* The key proof verifies, then its nonce is good, and its key becomes the holder
\* key of the credential.
CheckKeyProof(m, w) ==
  \/ /\ ValidateProofJWT(w)
     /\ validateProofNonce(w.nonce, Claims[m.token].CNonce)
     /\ Admit(m, w)
  \/ /\ ~(ValidateProofJWT(w) /\ NonceAccepted(w.nonce, Claims[m.token].CNonce))
     /\ UNCHANGED <<nonces, issued>>

CheckBody(h) ==
  /\ conn[h].pc = "bound" /\ conn[h].msg.to = "credential"
  /\ LET m == conn[h].msg
         w == ExtractProofJWT(m)
     IN  IF requireBoundThumbprint(m) /\ KnownConfiguration(m) /\ w # <<>>
         THEN CheckKeyProof(m, w[1])
         ELSE UNCHANGED <<nonces, issued>>
  /\ Return(h)
  /\ UNCHANGED <<vars, shown, used>>

-----------------------------------------------------------------------------
\* Both in-memory stores and every request are lost.
RequestRestart ==
  /\ Restart
  /\ nonces' = {}
  /\ conn' = [h \in Handlers |-> Idle]
  /\ UNCHANGED <<shown, used, issued>>

TimePasses == Tick /\ UNCHANGED <<nonces, shown, used, conn, issued>>

RequestNext ==
  \/ \E h \in Handlers, m \in Messages :
       ReceiveCredential(h, m) \/ \E n \in Nonces : ReceiveNonce(h, m, n)
  \/ \E h \in Handlers :
       VerifyToken(h) \/ ValidateDPoPProof(h) \/ AnswerNonce(h) \/ CheckBody(h)
  \/ RequestRestart
  \/ TimePasses

RequestSpec == RequestInit /\ [][RequestNext]_requestVars

-----------------------------------------------------------------------------
(* Properties.                                                             *)

\* Of all the requests that carry an access token, whoever sends them, only one
\* whose DPoP proof was made for that token and this endpoint, by the key the
\* token is bound to, passes the checks of IssueCredential; and the holder key of
\* its credential signed, for this issuer, a nonce which the Nonce Endpoint
\* answered or which belongs to that token.
IssuedToHolder ==
  \A i \in issued :
    /\ i.dpop.key = Claims[i.token].JKT /\ i.dpop.ath = i.token /\ i.dpop.htu[1] = "credential"
    /\ i.nonce # "" /\ i.nonce \in shown \cup {Claims[i.token].CNonce}
    /\ \E m \in {m \in Messages : m.to = "credential"} : \E w \in KeyProofs(m) :
         m.token = i.token /\ w.key = i.holder /\ w.nonce = i.nonce /\ w.aud = "issuer"

\* A nonce is spent only by a request that passed every other check: one that is
\* refused for its token, DPoP proof, configuration or key proof leaves every
\* wallet's nonce usable.
NonceSpentOnAdmission ==
  [][\A n \in nonces \ nonces' : RequestRestart \/ \E i \in issued' : i.nonce = n]_requestVars
=============================================================================
