-------------------------- MODULE MCCredentialTypes --------------------------
(***************************************************************************)
(* Two schemes: the PID in both formats, whose second edition drops the    *)
(* mdoc, asks for one more claim and has another type identifier, and a    *)
(* scheme of which the registry has one of its formats only, in the second *)
(* edition one that the issuer does not know.                              *)
(***************************************************************************)
EXTENDS CredentialTypes, TLC

PIDScheme   == <<"urn:eudi:pid:1">>
PadroScheme == <<"urn:fikua:padro:barcelona:1">>

MCSchemes == <<PIDScheme, PadroScheme>>

Claim(path, type) == [path |-> path, type |-> type, presence |-> "mandatory"]
Schema(format, typ, claims) == [format |-> format, typ |-> typ, claims |-> claims]

Common == << Claim(<<"issuing_country">>, {"string"}),
             Claim(<<"status">>, {"object"}),
             Claim(<<"address", "formatted">>, {"string"}) >>

Birth == <<Claim(<<"birthdate">>, {"string", "yyyy-mm-dd"})>>

PIDDefinition(formats, vct, more) ==
  [formats |-> formats,
   schemas |-> << Schema(FormatSDJWTVC, vct, Common \o <<Claim(<<"given_name">>, {"string"})>> \o more),
                  Schema(FormatMDoc, pidDocType, Common \o Birth) >>]

Padro(format) ==
  [formats |-> <<format, FormatMDoc>>,
   schemas |-> <<Schema(format, "urn:fikua:padro:barcelona:1", Common \o Birth)>>]

MCDefinition ==
  PIDScheme :> << PIDDefinition(<<FormatSDJWTVC, FormatMDoc>>, pidVCT, <<>>),
                  PIDDefinition(<<FormatSDJWTVC>>, "urn:eudi:pid:es:1", Birth) >> @@
  PadroScheme :> <<Padro(FormatSDJWTVC), Padro("jwt_vc_json")>>
=============================================================================
