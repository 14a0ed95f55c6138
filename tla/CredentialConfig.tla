-------------------------- MODULE CredentialConfig --------------------------
(***************************************************************************)
(* The credential configurations the metadata advertises for a scheme of   *)
(* the attestation registry (internal/credentialconfig), and the form the  *)
(* issuance page makes of one of them (web/static/app.js).                 *)
(*                                                                         *)
(* A scheme definition is [formats, schemas]; a schema is [format, typ,    *)
(* claims] with its type identifier; a claim is [path, type, presence],    *)
(* and its free-form data type is the set of the words in it.  An          *)
(* identifier is the sequence of its parts, cut before each ".mdoc", so    *)
(* that Append concatenates as the code does.  Names, labels, locales and  *)
(* the algorithms offered are left out.                                    *)
(***************************************************************************)
EXTENDS Naturals, Sequences, Functions

FormatSDJWTVC == "dc+sd-jwt"
FormatMDoc    == "mso_mdoc"

\* The zero value of Config.Format, VCT and DocType.
unset == ""

\* The first schema of that format, if there is one, as a set.
SchemaFor(def, format) ==
  {def.schemas[i] : i \in {i \in DOMAIN def.schemas :
     /\ def.schemas[i].format = format
     /\ \A j \in 1..(i - 1) : def.schemas[j].format # format}}

\* Variant: both formats of a scheme share its id.
configurationID_NoSuffix(id, format) == id

\* The scheme's identifier, which may be that of a configuration of another scheme.
configurationID(id, format) == IF format = FormatMDoc THEN Append(id, ".mdoc") ELSE id

isScalarType(type) ==
  type \cap {"array", "object", "map", "nationalities", "place_of_birth"} = {}

isDateType(type) == type \cap {"full-date", "tdate", "yyyy-mm-dd"} # {}

\* Flat claims with a scalar type.
buildClaims(claims) ==
  {[name |-> c.path[1], mandatory |-> c.presence = "mandatory", isDate |-> isDateType(c.type)] :
     c \in {c \in Range(claims) : Len(c.path) = 1 /\ isScalarType(c.type)}}

\* cfg.VCT and cfg.DocType, of which a configuration has one, are typ.  The switch
\* leaves both empty, and the format too, for a format that it does not know.
buildConfig(schema) ==
  LET known == schema.format \in {FormatSDJWTVC, FormatMDoc}
  IN  [format |-> IF known THEN schema.format ELSE unset,
       typ    |-> IF known THEN schema.typ ELSE unset,
       claims |-> buildClaims(schema.claims)]

\* The last index at which a loop meets its case: what it assigns there stays.
Last(met) == CHOOSE i \in met : \A j \in met : j <= i

\* The formats in their order: an identifier met again is overwritten.
Build(id, def) ==
  LET supported == {i \in DOMAIN def.formats : SchemaFor(def, def.formats[i]) # {}}
      met(c)    == {i \in supported : configurationID(id, def.formats[i]) = c}
  IN  [c \in {configurationID(id, def.formats[i]) : i \in supported} |->
         buildConfig(CHOOSE s \in SchemaFor(def, def.formats[Last(met(c))]) : TRUE)]

HIDDEN_CLAIMS == {"issuing_authority", "issuing_country"}

\* The names of the inputs selectConfig renders.
FormFields(config) == {c.name : c \in config.claims} \ HIDDEN_CLAIMS
=============================================================================
