-------------------------- MODULE CredentialFormats --------------------------
(***************************************************************************)
(* What a credential says once it has left the issuer: the SD-JWT and mdoc *)
(* encodings of a record's credential_data (internal/issuance/service.go,  *)
(* internal/sdjwt, internal/mdoc) and of the status list                   *)
(* (internal/statuslist/bitstring.go), read back by a relying party.       *)
(*                                                                         *)
(* The issuer encodes, the holder presents a part of what it was given,    *)
(* and the relying party verifies that part and looks the credential's     *)
(* status up in the packed list, which grows and changes meanwhile.        *)
(* Holder and relying party are not under src/; they follow the SD-JWT,    *)
(* ISO 18013-5 and Token Status List rules.  A digest is modelled by what  *)
(* it digests (no collisions), a byte of the list by the set of its bits   *)
(* that are 1, and an ECDSA signature by the pair of integers it consists  *)
(* of.  The JWS of an SD-JWT is made by a library.  Of the claims that are *)
(* in the payload of every SD-JWT only the names are kept, and salts,      *)
(* certificates and validity times are left out.                           *)
(***************************************************************************)
EXTENDS Integers, Sequences, FiniteSets, Functions

CONSTANTS ClaimNames,  \* the names credential_data may use
          Values,      \* the JSON values of claims: [json, text] records
          WalletKeys,  \* the jwk of a key proof: [id, d], d if it has a private part
          Signatures,  \* the <<r, s>> the signer may return
          Base, Width, \* of the bytes of r and s: 256 and 32 in the code
          MaxEntries   \* bound on the length of the status list

ASSUME BoundsAssumption == Base \in Nat \ {0, 1} /\ Width \in Nat \ {0} /\ MaxEntries \in Nat \ {0}

ASSUME KeysAssumption == \A k \in WalletKeys : k = [id |-> k.id, d |-> k.d]

VARIABLES data,   \* Record.CredentialData, parsed
          list,   \* what AllEntries returns: a status for every allocated idx
          idx,    \* the index of the record
          key,    \* the key that ValidateProofJWT returned
          cred,   \* the credential: its format, signed part, holder key, disclosable
                  \* parts and, for an mdoc, its signature
          signed, \* the signature the signer returned for it
          shown,  \* the disclosures or items that the holder presents
          pc

formatVars == <<data, list, idx, key, cred, signed, shown, pc>>

StatusValid   == 0
StatusInvalid == 1

\* The claims of an SD-JWT payload that Build sets itself: sub always has a subject,
\* cnf a key, and _sd a disclosure, since a record without data is refused.
RegisteredNames == {"iss", "iat", "exp", "vct", "sub", "_sd", "_sd_alg", "cnf"}

\* The names of what the issuer adds to the claims of every credential.
IssuerNames(format) ==
  {"issuing_authority", "issuing_country", "status"}
  \cup IF format = "dc+sd-jwt" THEN RegisteredNames ELSE {}

-----------------------------------------------------------------------------
(* The status list.                                                        *)

Bits == 2

BitsOf(n) == {b \in 0..7 : (n \div 2^b) % 2 = 1}

\* Variant: the most significant bits of a byte are filled first.
Shifted_MSBFirst(bits, offset) == {b + 8 - Bits - offset : b \in bits} \cap 0..7

\* << on an uint8.
Shifted(bits, offset) == {b + offset : b \in bits} \cap 0..7

numBytes(size) == (size * Bits + 7) \div 8

\* The entries of a byte, masked to Bits bits, shifted and or-ed.
packBitstring(entries, size) ==
  [byte \in 0..(numBytes(size) - 1) |->
     UNION {Shifted(BitsOf(entries[i]) \cap 0..(Bits - 1), (i * Bits) % 8) :
              i \in {j \in DOMAIN entries : j < size /\ (j * Bits) \div 8 = byte}}]

\* The relying party's side: the Bits bits of index i, least significant first.
ReadStatus(bytes, i) ==
  LET byte == (i * Bits) \div 8
      at   == (i * Bits) % 8
  IN  IF byte \notin DOMAIN bytes THEN -1
      ELSE (IF at \in bytes[byte] THEN 1 ELSE 0) + (IF at + 1 \in bytes[byte] THEN 2 ELSE 0)

-----------------------------------------------------------------------------
(* The SD-JWT encoding.  A claim is a <<name, value>> pair, a value is     *)
(* tagged with its type.                                                   *)

statusClaim(i) == <<"map", i>>

\* fmt.Sprintf("%v", value): a text, whatever the JSON type of the value was.
Sprintf(value) == <<"text", value.text>>

NewDisclosure(name, value) == <<name, value>>

Digest(part) == <<"sha-256", part>>

PlainClaims(i) == {<<"issuing_authority", <<"text", "Fikua Lab">>>>,
                   <<"issuing_country", <<"text", "ES">>>>, <<"status", statusClaim(i)>>}

RegisteredClaims == {<<n, <<"registered", n>>>> : n \in RegisteredNames}

\* PublicKey of the holder key.
cnf(k) == [k EXCEPT !.d = FALSE]

\* Build of sdjwt: registered and plain claims, and the digest of a disclosure for
\* every claim of the data, whatever its name.
buildSDJWTCredential(names, i) ==
  LET disclosures == {NewDisclosure(names[n], Sprintf(data[names[n]])) : n \in DOMAIN names}
  IN  [format |-> "dc+sd-jwt", claims |-> RegisteredClaims \cup PlainClaims(i),
       holder |-> cnf(key),
       digests |-> {Digest(d) : d \in disclosures}, parts |-> disclosures, signature |-> <<>>]

-----------------------------------------------------------------------------
(* The mdoc encoding.                                                      *)

\* Variant: every claim is a tstr.
NewElement_AllText(name, text) == <<name, text>>

\* birth_date is a full-date (CBOR tag 1004), any other claim a tstr.
NewElement(name, text) == <<name, IF name = "birth_date" THEN <<"full-date", text[2]>> ELSE text>>

MapElement(name, value) == <<name, value>>

\* The elements in the order buildMdocCredential adds them.
Elements(names, i) ==
  [n \in DOMAIN names |-> NewElement(names[n], Sprintf(data[names[n]]))]
  \o << NewElement("issuing_authority", <<"text", "Fikua Lab">>),
        NewElement("issuing_country", <<"text", "ES">>),
        MapElement("status", statusClaim(i)) >>

buildIssuerSignedItem(digestID, elem) == <<digestID, elem>>

\* digestID is the 0-based index within the namespace.
buildNamespaceItems(elems) ==
  [items   |-> {buildIssuerSignedItem(n - 1, elems[n]) : n \in DOMAIN elems},
   digests |-> [n \in 0..(Len(elems) - 1) |-> Digest(buildIssuerSignedItem(n, elems[n + 1]))]]

\* What is left of n once its last k bytes are dropped.
Quotients(n) ==
  LET q[k \in 0..Width] == IF k = 0 THEN n ELSE q[k - 1] \div Base
  IN  q

\* r and s are positive and have at most Width bytes.
ASSUME SignaturesAssumption ==
  \A sig \in Signatures : \A n \in {sig[1], sig[2]} :
    sig = <<sig[1], sig[2]>> /\ n \in Nat \ {0} /\ Quotients(n)[Width] = 0

\* The last w bytes of n, the most significant first.
LastBytes(n, w) == [b \in 1..w |-> Quotients(n)[w - b] % Base]

\* An integer as Width bytes, and in as few bytes as it needs, as DER has it (but for
\* the zero byte DER puts before a leading one bit, which SetBytes reads as nothing).
FillBytes(n) == LastBytes(n, Width)
MinimalBytes(n) ==
  LastBytes(n, CHOOSE w \in 1..Width : Quotients(n)[w] = 0 /\ Quotients(n)[w - 1] # 0)

SetBytes(bytes) ==
  LET v[k \in 0..Len(bytes)] == IF k = 0 THEN 0 ELSE v[k - 1] * Base + bytes[k]
  IN  v[Len(bytes)]

DER(sig) == <<MinimalBytes(sig[1]), MinimalBytes(sig[2])>>

parseECDSADER(der) == <<SetBytes(der[1]), SetBytes(der[2])>>

\* Variant: the integers are copied as they are in the DER encoding.
signRawP1363_Unpadded(der) == der[1] \o der[2]

\* The DER encoding that the signer returns, as r and s of fixed width.
signRawP1363(der) ==
  LET sig == parseECDSADER(der) IN FillBytes(sig[1]) \o FillBytes(sig[2])

\* Of the key only its coordinates.
deviceKeyFromJWK(k) == [k EXCEPT !.d = FALSE]

\* The MSO signs the digests and the device key; nothing but the items carries a
\* value.
buildMdocCredential(names, i, sig) ==
  LET nd == buildNamespaceItems(Elements(names, i))
  IN  [format |-> "mso_mdoc", claims |-> {}, holder |-> deviceKeyFromJWK(key),
       digests |-> nd.digests, parts |-> nd.items, signature |-> signRawP1363(DER(sig))]

-----------------------------------------------------------------------------
(* The issuer, the holder, and the other records of the list.              *)

NoCred == [format |-> "none", parts |-> {}]

FormatsInit ==
  /\ \E S \in SUBSET ClaimNames \ {{}} : IsFiniteSet(S) /\ data \in [S -> Values]
  /\ list = <<>>
  /\ idx = -1
  /\ key \in WalletKeys
  /\ cred = NoCred /\ signed = <<>>
  /\ shown = {}
  /\ pc = "requested"

\* AllocateIdx of a new record: the next idx, VALID.
Allocated(entries) ==
  [i \in DOMAIN entries \cup {Cardinality(DOMAIN entries)} |->
     IF i \in DOMAIN entries THEN entries[i] ELSE StatusValid]

OtherIssued ==
  /\ Cardinality(DOMAIN list) < MaxEntries
  /\ list' = Allocated(list)
  /\ UNCHANGED <<data, idx, key, cred, signed, shown, pc>>

\* The claims in some order: the range over a map has no fixed one.
Orders(S) == Bijection(1..Cardinality(S), S)

\* The part of IssueCredential that makes the credential, in either format.
BuildCredential ==
  /\ pc = "requested"
  /\ Cardinality(DOMAIN list) < MaxEntries
  /\ list' = Allocated(list)
  /\ idx' = Cardinality(DOMAIN list)
  /\ \E names \in Orders(DOMAIN data) :
       \/ cred' = buildSDJWTCredential(names, idx') /\ signed' = <<>>
       \/ \E sig \in Signatures : cred' = buildMdocCredential(names, idx', sig) /\ signed' = sig
  /\ pc' = "issued"
  /\ UNCHANGED <<data, key, shown>>

Present(parts) ==
  /\ pc = "issued"
  /\ shown' = parts
  /\ pc' = "presented"
  /\ UNCHANGED <<data, list, idx, key, cred, signed>>

\* RevokeCredential, of this record or of another one.
Revoke(i) ==
  /\ list' = [list EXCEPT ![i] = StatusInvalid]
  /\ UNCHANGED <<data, idx, key, cred, signed, shown, pc>>

FormatsNext ==
  \/ OtherIssued
  \/ BuildCredential
  \/ \E parts \in SUBSET cred.parts : Present(parts)
  \/ \E i \in DOMAIN list : Revoke(i)

FormatsSpec == FormatsInit /\ [][FormatsNext]_formatVars

-----------------------------------------------------------------------------
(* The relying party.                                                      *)

\* The <<name, value>> pair of a disclosure or of an item.
ClaimOf(part) == IF cred.format = "dc+sd-jwt" THEN part ELSE part[2]

\* SD-JWT: every disclosure has its digest in the signed part, and a name that is not
\* reserved and that no claim of the payload has already.  mdoc: the signature, cut in the middle, is the issuer's, and every
\* item matches the digest under its own digestID.
Verifies ==
  IF cred.format = "dc+sd-jwt"
  THEN \A d \in shown :
         /\ Digest(d) \in cred.digests
         /\ d[1] \notin {"_sd", "..."}
         /\ \A c \in cred.claims : c[1] # d[1]
  ELSE /\ Len(cred.signature) = 2 * Width
       /\ signed = <<SetBytes(SubSeq(cred.signature, 1, Width)),
                    SetBytes(SubSeq(cred.signature, Width + 1, 2 * Width))>>
       /\ \A it \in shown : it[1] \in DOMAIN cred.digests /\ cred.digests[it[1]] = Digest(it)

\* What the relying party learns from a presentation that verifies.
Learned == cred.claims \cup {ClaimOf(part) : part \in shown}

-----------------------------------------------------------------------------
(* Properties.                                                             *)

Presented == pc = "presented"

\* Any selection of disclosures or items, from claims added in any order, passes
\* the relying party's checks, except one thing: nothing keeps credential_data from
\* using a name that the payload of an SD-JWT has already, and the disclosure of such
\* a claim is refused, with all that is presented beside it.
SelectionVerifies ==
  Presented =>
    (Verifies <=> \/ cred.format = "mso_mdoc"
                  \/ \A d \in shown : d[1] \notin IssuerNames("dc+sd-jwt") \cup {"..."})

\* A presentation reveals exactly the claims selected, each with its own value,
\* in the type its format asks for (birth_date is a full-date in an mdoc), and
\* nothing of the other claims of credential_data, nor of a private key that the
\* wallet left in its key proof.
RevealsSelectionOnly ==
  Presented =>
    /\ ~cred.holder.d
    /\ \A n \in DOMAIN data \ IssuerNames(cred.format) :
         {c \in Learned : c[1] = n} =
           IF \E part \in shown : ClaimOf(part)[1] = n
           THEN {<<n, <<IF cred.format = "mso_mdoc" /\ n = "birth_date" THEN "full-date" ELSE "text",
                       data[n].text>>>>}
           ELSE {}

\* A relying party that follows the status claim of the credential into the
\* packed list, which may have grown since and in which others were revoked,
\* reads this record's own status: revoked if and only if it was revoked.
StatusReadsBack ==
  Presented /\ Verifies =>
    \A c \in Learned : c[1] = "status" /\ c[2][1] = "map" =>
      ReadStatus(packBitstring(list, Cardinality(DOMAIN list)), c[2][2]) = list[idx]
=============================================================================
