-------------------------- MODULE CredentialTypes --------------------------
(***************************************************************************)
(* From the catalogue to a credential: the metadata endpoint               *)
(* (internal/httpapi/handlers.go), the issuance page (web/static/app.js,   *)
(* S3 to S5), TriggerIssuance and the choice of format and type in         *)
(* IssueCredential (internal/issuance/service.go).                         *)
(*                                                                         *)
(* The page and the wallet each read the metadata once and act on their    *)
(* copy while the catalogue goes on changing.  The form of the page stays  *)
(* usable while a submission is under way.  How the catalogue is refreshed *)
(* is the subject of RegistryCache, how a record and its offer are stored  *)
(* that of Issuance, and what a request for a credential must show that of *)
(* CredentialRequest; here a request is honest.                            *)
(***************************************************************************)
EXTENDS CredentialConfig

CONSTANTS IssuableSchemes,  \* cfg.IssuableSchemes, a sequence
          Definition,       \* scheme -> version -> what the registry says of it then
          MaxVersion,       \* bound on the catalogues
          MaxRecords        \* bound on the submissions

pidVCT     == "urn:eudi:pid:1"
pidDocType == "eu.europa.ec.eudi.pid.1"

\* splitCSV yields no empty identifier.
ASSUME SchemesAssumption == IssuableSchemes \in Seq(Seq(STRING) \ {<<>>})

ASSUME VersionsAssumption ==
  /\ MaxVersion \in Nat \ {0}
  /\ \A s \in Range(IssuableSchemes), v \in 1..MaxVersion : Definition[s][v].formats \in Seq(STRING)

Schemes  == Range(IssuableSchemes)
Versions == 1..MaxVersion

VARIABLES
  catalogue,  \* Cache: scheme -> the version installed, 0 if it is not listed
  meta,       \* "page", "wallet" -> the catalogue its copy of the metadata was made from
  page,       \* the issuance tab: [step, selected, fields, result, disabled]
  pending,    \* submissions of the page without an answer
  records,    \* the records made, as [type, names]
  got         \* the credential the wallet got last, as a set

vars == <<catalogue, meta, page, pending, records, got>>

\* selectedConfigId before a choice.
null == <<>>

NewPage == [step |-> "select", selected |-> null, fields |-> {}, result |-> 0, disabled |-> FALSE]

Nothing == [s \in Schemes |-> 0]

Init ==
  /\ catalogue \in [Schemes -> {0, 1}]
  /\ meta = [r \in {"page", "wallet"} |-> Nothing]
  /\ page = NewPage /\ pending = {}
  /\ records = <<>>
  /\ got = {}

\* What Build makes of every edition of a scheme.
Built == [s \in Schemes |-> [v \in Versions |-> Build(s, Definition[s][v])]]

\* credentialIssuerMetadata: what Build makes of every scheme that is listed, a
\* later one overwriting an earlier one.
Configs(cat) ==
  LET listed == {i \in DOMAIN IssuableSchemes : cat[IssuableSchemes[i]] > 0}
      of(i)  == Built[IssuableSchemes[i]][cat[IssuableSchemes[i]]]
      met(c) == {i \in listed : c \in DOMAIN of(i)}
  IN  [c \in UNION {DOMAIN of(i) : i \in listed} |-> of(Last(met(c)))[c]]

\* A refresh installs another edition of a scheme, or a catalogue without it.
Refresh(s, v) ==
  /\ catalogue' = [catalogue EXCEPT ![s] = v]
  /\ UNCHANGED <<meta, page, pending, records, got>>

-----------------------------------------------------------------------------
(* The page.                                                               *)

\* The page is loaded, again or for the first time: what is left of its requests
\* is lost, and loadCredentialConfigs asks for the metadata, maybe in vain.
LoadPage ==
  /\ \E cat \in {catalogue, Nothing} : meta' = [meta EXCEPT !["page"] = cat]
  /\ page' = NewPage /\ pending' = {}
  /\ UNCHANGED <<catalogue, records, got>>

\* renderConfigGrid has a card for every configuration.
selectConfig(c) ==
  /\ page.step = "select"
  /\ c \in DOMAIN Configs(meta["page"])
  /\ page' = [page EXCEPT !.selected = c, !.step = "form",
                          !.fields = FormFields(Configs(meta["page"])[c])]
  /\ UNCHANGED <<catalogue, meta, pending, records, got>>

BackToSelect ==
  /\ page.step = "form"
  /\ page' = [page EXCEPT !.step = "select"]
  /\ UNCHANGED <<catalogue, meta, pending, records, got>>

IssueAnother ==
  /\ page.step = "result"
  /\ page' = [page EXCEPT !.step = "select", !.selected = null]
  /\ UNCHANGED <<catalogue, meta, pending, records, got>>

PIDConfigID     == <<"urn:eudi:pid:1">>
PIDMdocConfigID == <<"urn:eudi:pid:1", ".mdoc">>

\* TriggerIssuance accepts any type and any data; no type is the PID.
TriggerIssuance(type, names) ==
  records' = Append(records, [type |-> IF type = null THEN PIDConfigID ELSE type, names |-> names])

\* Variant: the button is not disabled.
Submit_StaysEnabled ==
  /\ page.step = "form" /\ ~page.disabled
  /\ Len(records) < MaxRecords
  /\ TriggerIssuance(page.selected, page.fields)
  /\ pending' = pending \cup {Len(records) + 1}
  /\ UNCHANGED <<catalogue, meta, page, got>>

\* The submit handler up to its await: every input is required, and the form and
\* the selection are read together.  Records are numbered by their submission; one
\* that never reaches the issuer fails like SubmitFails, with no record.
Submit ==
  /\ page.step = "form" /\ ~page.disabled
  /\ Len(records) < MaxRecords
  /\ page' = [page EXCEPT !.disabled = TRUE]
  /\ TriggerIssuance(page.selected, page.fields)
  /\ pending' = pending \cup {Len(records) + 1}
  /\ UNCHANGED <<catalogue, meta, got>>

\* renderResult, showStep("result") and the finally block.
ShowResult(n) ==
  /\ n \in pending
  /\ page' = [page EXCEPT !.step = "result", !.result = n, !.disabled = FALSE]
  /\ pending' = pending \ {n}
  /\ UNCHANGED <<catalogue, meta, records, got>>

\* Variant: the selection is reset as well.
SubmitFails_Resets(n) ==
  /\ n \in pending
  /\ page' = [page EXCEPT !.disabled = FALSE, !.selected = null]
  /\ pending' = pending \ {n}
  /\ UNCHANGED <<catalogue, meta, records, got>>

\* The answer is an error or is lost: an alert, and the finally block.
SubmitFails(n) ==
  /\ n \in pending
  /\ page' = [page EXCEPT !.disabled = FALSE]
  /\ pending' = pending \ {n}
  /\ UNCHANGED <<catalogue, meta, records, got>>

-----------------------------------------------------------------------------
(* The wallet.                                                             *)

LookUp ==
  /\ meta' = [meta EXCEPT !["wallet"] = catalogue]
  /\ UNCHANGED <<catalogue, page, pending, records, got>>

\* buildMdocCredential or buildSDJWTCredential, by the identifier of the request.
Credential(c) ==
  IF c = PIDMdocConfigID THEN [format |-> FormatMDoc, typ |-> pidDocType]
                         ELSE [format |-> FormatSDJWTVC, typ |-> pidVCT]

\* The wallet was offered record n and asks for a configuration it was shown, the
\* offered one or another: its identifier is a known one, and the record has data.
IssueCredential(n, c) ==
  /\ n \in DOMAIN records /\ c \in DOMAIN Configs(meta["wallet"])
  /\ c \in {PIDConfigID, PIDMdocConfigID}
  /\ records[n].names # {}
  /\ got' = {[advertised |-> Configs(meta["wallet"])[c], credential |-> Credential(c)]}
  /\ UNCHANGED <<catalogue, meta, page, pending, records>>

-----------------------------------------------------------------------------
Identifiers == {configurationID(s, f) : s \in Schemes, f \in {FormatSDJWTVC, FormatMDoc}}

Next ==
  \/ \E s \in Schemes, v \in 0..MaxVersion : Refresh(s, v)
  \/ LoadPage \/ BackToSelect \/ IssueAnother \/ Submit
  \/ \E c \in Identifiers : selectConfig(c)
  \/ \E n \in 1..MaxRecords : ShowResult(n) \/ SubmitFails(n)
  \/ LookUp
  \/ \E n \in 1..MaxRecords, c \in Identifiers : IssueCredential(n, c)

Spec == Init /\ [][Next]_vars

-----------------------------------------------------------------------------
(* Properties.                                                             *)

\* Every record of the page was made from one form: its data has exactly the
\* fields of the configuration it is for, however steps, errors and late answers
\* followed each other, and whatever copy of the metadata the page had.
RecordOfOneForm ==
  \A n \in DOMAIN records : \E s \in Schemes, v \in Versions :
    /\ records[n].type \in DOMAIN Built[s][v]
    /\ records[n].names = FormFields(Built[s][v][records[n].type])

\* The offer on the screen is that of the submission made last: a late answer
\* never puts an earlier person's offer there.
ResultIsLastSubmission == page.step = "result" => page.result = Len(records)

\* A credential has the format that the wallet's copy of the metadata, however old,
\* announces for the configuration it asked for, although the metadata has it from the
\* registry and IssueCredential from the identifier.  (A format the issuer does not
\* know is advertised as none.)  Of the type identifier the same cannot be said: the
\* metadata has it from the registry too, IssueCredential from constants of its own.
FormatAsAdvertised ==
  \A g \in got : g.advertised.format # unset => g.credential.format = g.advertised.format
=============================================================================
