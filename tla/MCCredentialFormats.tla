------------------------- MODULE MCCredentialFormats -------------------------
(***************************************************************************)
(* CredentialFormats for TLC: a date, and two claims that the issuer adds  *)
(* itself, one to every credential (issuing_country) and one to an SD-JWT  *)
(* only (sub); a JSON string and a JSON number; a key proof that gives     *)
(* away its private key; signatures in which r or s has a leading zero     *)
(* byte.                                                                   *)
(***************************************************************************)
EXTENDS CredentialFormats

SomeValues == {[json |-> "string", text |-> "18"], [json |-> "number", text |-> "19"]}

SomeKeys == {[id |-> "k1", d |-> TRUE]}

SomeSignatures == {<<3, 7>>, <<5, 1>>}
=============================================================================
