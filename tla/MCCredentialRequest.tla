-------------------------- MODULE MCCredentialRequest --------------------------
(***************************************************************************)
(* One wallet with key kA and two access tokens, t1 with a c_nonce and t2  *)
(* without one, and a second key kB that got hold of t1.  Two of the DPoP  *)
(* proofs share a jti.                                                     *)
(***************************************************************************)
EXTENDS CredentialRequest

MCClaims == [t1 |-> [JKT |-> "kA", CNonce |-> "c1"], t2 |-> [JKT |-> "kA", CNonce |-> ""]]

DPoP(jti, key, url, query, ath, form) ==
  [jti |-> jti, key |-> key, htu |-> <<url, query>>, ath |-> ath, form |-> form]

d1 == DPoP("j1", "kA", "credential", "", "t1", "ok")
d2 == DPoP("j2", "kA", "credential", "?q", "t2", "ok")
d3 == DPoP("j1", "kA", "nonce", "", "t1", "ok")
d4 == DPoP("j3", "kB", "credential", "", "t1", "ok")

MCProofs == {d1, d2, d3, d4}

KeyProof(key, refs, aud, nonce, iat, form) ==
  [key |-> key, refs |-> refs, aud |-> aud, nonce |-> nonce, iat |-> iat, form |-> form]

Credential(scheme, token, dpop, config, proofs, proof) ==
  [to |-> "credential", scheme |-> scheme, token |-> token, dpop |-> dpop,
   config |-> config, ident |-> "", proofs |-> proofs, proof |-> proof]

fresh == KeyProof("kA", {"jwk"}, "issuer", "n1", d1, "ok")
bound == KeyProof("kB", {"jwk"}, "issuer", "c1", d1, "ok")
alien == KeyProof("kB", {"jwk"}, "other", "n1", d1, "ok")
twice == KeyProof("kA", {"jwk", "kid"}, "issuer", "c1", d2, "ok")
plain == KeyProof("kA", {"jwk"}, "issuer", "", d1, "ok")

MCMessages ==
  { Credential("DPoP", "t1", <<d1>>, PIDConfigID, <<fresh>>, <<>>),
    Credential("DPoP", "t2", <<d2>>, PIDMdocConfigID, <<>>, <<fresh>>),
    Credential("DPoP", "t2", <<d2>>, PIDConfigID, <<>>, <<plain>>),
    Credential("DPoP", "t1", <<d4>>, PIDConfigID, <<bound>>, <<>>),
    Credential("DPoP", "t2", <<d1>>, PIDConfigID, <<fresh>>, <<>>),
    Credential("DPoP", "t1", <<d1>>, "urn:fikua:padro:barcelona:1", <<fresh>>, <<>>),
    Credential("DPoP", "t1", <<d1>>, PIDConfigID, <<alien>>, <<fresh>>),
    Credential("DPoP", "t1", <<d1>>, PIDConfigID, <<twice>>, <<>>),
    Credential("DPoP", "t1", <<d1, d4>>, PIDConfigID, <<fresh>>, <<>>),
    Credential("Bearer", "t1", <<>>, PIDConfigID, <<fresh>>, <<>>),
    [to |-> "nonce", scheme |-> "", token |-> "", dpop |-> <<>>],
    [to |-> "nonce", scheme |-> "DPoP", token |-> "t1", dpop |-> <<d3>>] }
=============================================================================
