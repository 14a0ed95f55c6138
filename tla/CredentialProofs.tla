-------------------------- MODULE CredentialProofs --------------------------
(***************************************************************************)
(* What becomes of a credential, from its form to its presentation.        *)
(*                                                                         *)
(* CredentialTypes, for any registry, any changes of the catalogue and any *)
(* use of the page: a record has the data of one form, an offer on the     *)
(* screen is the last one, and a credential has the format advertised.     *)
(*                                                                         *)
(* CredentialFormats, for any data, order of its claims, signature, key    *)
(* and status list: which selections verify, that one reveals itself only, *)
(* and that it leads to the record's own status.                           *)
(***************************************************************************)
EXTENDS CredentialTypes, CredentialFormats, FiniteSetTheorems, SequenceTheorems,
        WellFoundedInduction, TLAPS

\* The records a form makes: for a configuration of some edition, with its fields.
Forms(s, v) == {[type |-> c, names |-> FormFields(Built[s][v][c])] : c \in DOMAIN Built[s][v]}

Filled == UNION {Forms(s, v) : s \in Schemes, v \in Versions}

Catalogues == [Schemes -> 0..MaxVersion]

Pages == [step : {"select", "form", "result"}, selected : Identifiers \cup {null},
          fields : {r.names : r \in Filled} \cup {{}}, result : Nat, disabled : BOOLEAN]

TypeOK ==
  /\ catalogue \in Catalogues
  /\ meta \in [{"page", "wallet"} -> Catalogues]
  /\ page \in Pages
  /\ records \in Seq(Filled)

\* The form on the screen is that of the selection, and there is one.
FormInv ==
  page.step = "form" =>
    page.selected # null /\ [type |-> page.selected, names |-> page.fields] \in Filled

\* One submission at a time: the one without an answer was made last, and its
\* button waits for it.
SubmitInv ==
  /\ pending \subseteq {Len(records)}
  /\ pending # {} => page.disabled

IInv == TypeOK /\ FormInv /\ SubmitInv /\ ResultIsLastSubmission

-----------------------------------------------------------------------------
(* The operators.                                                          *)

\* A set of naturals that is not empty has a least element.
LEMMA Least ==
  ASSUME NEW T \in SUBSET Nat, T # {}
  PROVE  \E m \in T : \A k \in T : m <= k
<1> DEFINE R == OpToRel(<, Nat)
<1>1. IsWellFoundedOn(R, Nat)
  BY NatLessThanWellFounded
<1>2. \A a, b \in Nat : a < b => <<a, b>> \in R
  BY DEF OpToRel
<1> HIDE DEF R
<1>3. PICK m \in T : \A k \in T : ~(<<k, m>> \in R)
  BY <1>1, WFMin
<1>4. \A k \in T : ~(k < m)
  BY <1>2, <1>3
<1> QED
  BY <1>4

\* A loop that meets something meets it for a last time.
LEMMA LastIsMet ==
  ASSUME NEW n \in Nat, NEW T \in SUBSET (1..n), T # {}
  PROVE  Last(T) \in T
<1> DEFINE U == {n - k : k \in T}
<1>1. U \in SUBSET Nat
  OBVIOUS
<1>2. PICK t \in T : TRUE
  OBVIOUS
<1>3. n - t \in U
  OBVIOUS
<1> HIDE DEF U
<1>4. PICK u \in U : \A k \in U : u <= k
  BY <1>1, <1>3, Least
<1>5. PICK m \in T : u = n - m
  BY DEF U
<1>6. \A k \in T : n - m <= n - k
  BY <1>4, <1>5 DEF U
<1>7. \A k \in T : k <= m
  BY <1>6
<1> QED
  BY <1>7 DEF Last

\* A configuration of Build is made from a schema of the scheme, in a format that
\* gives it its identifier.
LEMMA BuildMakes ==
  ASSUME NEW id, NEW def, def.formats \in Seq(STRING), NEW c \in DOMAIN Build(id, def)
  PROVE  \E f \in Range(def.formats), schema \in Range(def.schemas) :
           /\ schema.format = f
           /\ c = configurationID(id, f)
           /\ Build(id, def)[c] = buildConfig(schema)
<1> DEFINE supported == {i \in DOMAIN def.formats : SchemaFor(def, def.formats[i]) # {}}
           met(d)    == {i \in supported : configurationID(id, def.formats[i]) = d}
           k         == Last(met(c))
           f         == def.formats[k]
           schema    == CHOOSE s \in SchemaFor(def, f) : TRUE
<1>1. /\ DOMAIN Build(id, def) = {configurationID(id, def.formats[i]) : i \in supported}
      /\ \A d \in DOMAIN Build(id, def) :
           Build(id, def)[d] = buildConfig(CHOOSE s \in SchemaFor(def, def.formats[Last(met(d))]) : TRUE)
  BY DEF Build
<1>2. met(c) # {}
  BY <1>1
<1>3. Len(def.formats) \in Nat /\ met(c) \in SUBSET (1..Len(def.formats))
  OBVIOUS
<1>4. k \in met(c)
  BY <1>2, <1>3, LastIsMet
<1>5. k \in DOMAIN def.formats /\ SchemaFor(def, f) # {} /\ c = configurationID(id, f)
  BY <1>4
<1>6. Build(id, def)[c] = buildConfig(schema)
  BY <1>1
<1> HIDE DEF k, supported, met
<1>7. f \in Range(def.formats)
  BY <1>5 DEF Range
<1>8. schema \in SchemaFor(def, f)
  BY <1>5
<1>9. schema \in Range(def.schemas) /\ schema.format = f
  BY <1>8 DEF SchemaFor, Range
<1> QED
  BY <1>5, <1>6, <1>7, <1>9

\* A configuration of the metadata is one of some edition of a listed scheme.
LEMMA ConfigsAreBuilt ==
  ASSUME NEW cat \in Catalogues, NEW c \in DOMAIN Configs(cat)
  PROVE  \E s \in Schemes, v \in Versions :
           c \in DOMAIN Built[s][v] /\ Configs(cat)[c] = Built[s][v][c]
<1> DEFINE n      == Len(IssuableSchemes)
           listed == {i \in DOMAIN IssuableSchemes : cat[IssuableSchemes[i]] > 0}
           of(i)  == Built[IssuableSchemes[i]][cat[IssuableSchemes[i]]]
           met(d) == {i \in listed : d \in DOMAIN of(i)}
           k      == Last(met(c))
           s      == IssuableSchemes[k]
<1>1. /\ DOMAIN Configs(cat) = UNION {DOMAIN of(i) : i \in listed}
      /\ \A d \in DOMAIN Configs(cat) : Configs(cat)[d] = of(Last(met(d)))[d]
  BY DEF Configs
<1>2. met(c) # {}
  BY <1>1
<1>3. n \in Nat /\ DOMAIN IssuableSchemes = 1..n
  BY SchemesAssumption, LenProperties
<1>4. met(c) \in SUBSET (1..n)
  BY <1>3
<1>5. k \in met(c)
  BY <1>2, <1>3, <1>4, LastIsMet
<1>6. k \in DOMAIN IssuableSchemes /\ cat[s] > 0 /\ c \in DOMAIN Built[s][cat[s]]
  BY <1>5
<1>7. Configs(cat)[c] = Built[s][cat[s]][c]
  BY <1>1
<1> HIDE DEF k, n, listed, of, met
<1>8. s \in Schemes
  BY <1>6 DEF Schemes, Range
<1>9. cat[s] \in Versions
  BY <1>6, <1>8, VersionsAssumption DEF Versions, Catalogues
<1> QED
  BY <1>6, <1>7, <1>8, <1>9

LEMMA FilledIs ==
  ASSUME NEW r \in Filled
  PROVE  \E s \in Schemes, v \in Versions : \E c \in DOMAIN Built[s][v] :
           r = [type |-> c, names |-> FormFields(Built[s][v][c])]
BY DEF Filled, Forms

LEMMA FilledHas ==
  ASSUME NEW s \in Schemes, NEW v \in Versions, NEW c \in DOMAIN Built[s][v]
  PROVE  [type |-> c, names |-> FormFields(Built[s][v][c])] \in Filled
<1>1. [type |-> c, names |-> FormFields(Built[s][v][c])] \in Forms(s, v)
  BY DEF Forms
<1> QED
  BY <1>1 DEF Filled

\* What Built says, without its functions.
LEMMA BuiltIs ==
  ASSUME NEW s \in Schemes, NEW v \in Versions
  PROVE  /\ Built[s][v] = Build(s, Definition[s][v])
         /\ Definition[s][v].formats \in Seq(STRING)
BY VersionsAssumption DEF Built, Schemes, Versions

\* A scheme's identifier has a part, and so has what configurationID makes of it.
LEMMA SchemeFacts ==
  ASSUME NEW s \in Schemes, NEW f
  PROVE  /\ Len(s) \in Nat /\ Len(s) >= 1
         /\ f = FormatMDoc => Len(configurationID(s, f)) = Len(s) + 1
         /\ f # FormatMDoc => configurationID(s, f) = s
         /\ configurationID(s, f) # null
<1>1. IssuableSchemes \in [1..Len(IssuableSchemes) -> Seq(STRING) \ {<<>>}]
  BY SchemesAssumption, LenProperties
<1>2. s \in Seq(STRING) /\ s # <<>>
  BY <1>1, Zenon DEF Schemes, Range
<1>3. Len(s) \in Nat /\ Len(s) >= 1
  BY <1>2, EmptySeq
<1>4. Len(Append(s, ".mdoc")) = Len(s) + 1
  BY <1>2, AppendProperties
<1>5. f = FormatMDoc => Len(configurationID(s, f)) = Len(s) + 1
  BY <1>4 DEF configurationID
<1>6. f # FormatMDoc => configurationID(s, f) = s
  BY DEF configurationID
<1>7. configurationID(s, f) # null
  <2>1. Len(null) = 0
    BY DEF null
  <2>2. Len(configurationID(s, f)) >= 1
    BY <1>3, <1>5, <1>6
  <2> QED
    BY <2>1, <2>2
<1> QED
  BY <1>3, <1>5, <1>6, <1>7

LEMMA IdentifierOf ==
  ASSUME NEW s \in Schemes, NEW v \in Versions, NEW c \in DOMAIN Built[s][v]
  PROVE  c # null
<1>1. PICK f \in Range(Definition[s][v].formats) : c = configurationID(s, f)
  BY BuiltIs, BuildMakes
<1> QED
  BY <1>1, SchemeFacts

\* The format IssueCredential takes from the identifier is the one that gave it.  That
\* needs one thing of the schemes: none is itself named like the PID's mdoc.
LEMMA FormatOfIdentifier ==
  ASSUME PIDMdocConfigID \notin Schemes,
         NEW s \in Schemes, NEW v \in Versions, NEW c \in DOMAIN Built[s][v],
         c \in {PIDConfigID, PIDMdocConfigID}, Built[s][v][c].format # unset
  PROVE  Credential(c).format = Built[s][v][c].format
<1> DEFINE def == Definition[s][v]
<1>1. PICK f \in Range(def.formats), schema \in Range(def.schemas) :
        schema.format = f /\ c = configurationID(s, f) /\ Built[s][v][c] = buildConfig(schema)
  BY BuiltIs, BuildMakes
<1>2. f \in {FormatSDJWTVC, FormatMDoc} /\ Built[s][v][c].format = f
  BY <1>1 DEF buildConfig
<1>3. Len(PIDConfigID) = 1 /\ Len(PIDMdocConfigID) = 2
  BY DEF PIDConfigID, PIDMdocConfigID
<1>4. CASE f = FormatMDoc
  <2>1. Len(c) = Len(s) + 1 /\ Len(s) \in Nat /\ Len(s) >= 1
    BY <1>1, <1>4, SchemeFacts
  <2>2. Len(c) # 1
    BY <2>1
  <2>3. c = PIDMdocConfigID
    BY <1>3, <2>2, Zenon
  <2> QED
    BY <1>2, <1>4, <2>3 DEF Credential
<1>5. CASE f # FormatMDoc
  <2>1. c # PIDMdocConfigID
    BY <1>1, <1>5, SchemeFacts
  <2> QED
    BY <1>2, <1>5, <2>1 DEF Credential
<1> QED
  BY <1>4, <1>5

-----------------------------------------------------------------------------
(* The steps.                                                              *)

LEMMA NothingIsACatalogue == Nothing \in Catalogues
BY VersionsAssumption DEF Nothing, Catalogues

LEMMA NewPageFacts == NewPage \in Pages /\ NewPage.step = "select" /\ NewPage.disabled = FALSE
<1>1. NewPage \in Pages
  BY DEF NewPage, Pages
<1> QED
  BY <1>1 DEF NewPage

\* Steps of the catalogue, and of who reads it, leave the form and the records alone.
LEMMA CatalogueStep ==
  ASSUME IInv, (\E s \in Schemes, v \in 0..MaxVersion : Refresh(s, v)) \/ LookUp \/ UNCHANGED vars
  PROVE  IInv'
<1>1. UNCHANGED <<page, pending, records, got>>
  BY DEF Refresh, LookUp, vars
<1>2. catalogue' \in Catalogues /\ meta' \in [{"page", "wallet"} -> Catalogues]
  BY DEF IInv, TypeOK, Refresh, LookUp, vars, Catalogues
<1> QED
  BY <1>1, <1>2 DEF IInv, TypeOK, FormInv, SubmitInv, ResultIsLastSubmission

LEMMA LoadStep == ASSUME IInv, LoadPage PROVE IInv'
<1>1. page' = NewPage /\ pending' = {} /\ UNCHANGED <<catalogue, records, got>>
  BY DEF LoadPage
<1>2. meta' \in [{"page", "wallet"} -> Catalogues]
  BY NothingIsACatalogue DEF IInv, TypeOK, LoadPage
<1>3. page' \in Pages /\ page'.step = "select"
  BY <1>1, NewPageFacts
<1> QED
  BY <1>1, <1>2, <1>3 DEF IInv, TypeOK, FormInv, SubmitInv, ResultIsLastSubmission

\* The form is made from the configuration that is selected, of one edition.
LEMMA SelectStep == ASSUME IInv, NEW c \in Identifiers, selectConfig(c) PROVE IInv'
<1> DEFINE cfgs == Configs(meta["page"])
           r    == [type |-> c, names |-> FormFields(cfgs[c])]
<1>1. /\ c \in DOMAIN cfgs
      /\ page' = [page EXCEPT !.selected = c, !.step = "form", !.fields = FormFields(cfgs[c])]
      /\ UNCHANGED <<catalogue, meta, pending, records, got>>
  BY DEF selectConfig
<1>2. meta["page"] \in Catalogues
  BY DEF IInv, TypeOK
<1>3. PICK s \in Schemes, v \in Versions : c \in DOMAIN Built[s][v] /\ cfgs[c] = Built[s][v][c]
  BY <1>1, <1>2, ConfigsAreBuilt
<1>4. r \in Filled /\ c # null
  BY <1>3, IdentifierOf, FilledHas
<1>5. r.names = FormFields(cfgs[c])
  OBVIOUS
<1>6. FormFields(cfgs[c]) \in {q.names : q \in Filled}
  BY <1>4, <1>5
<1> HIDE DEF cfgs
<1>7. page' \in Pages /\ page'.step = "form" /\ page'.selected = c /\ page'.fields = FormFields(cfgs[c])
      /\ page'.disabled = page.disabled
  BY <1>1, <1>6 DEF IInv, TypeOK, Pages
<1> QED
  BY <1>1, <1>4, <1>7 DEF IInv, TypeOK, FormInv, SubmitInv, ResultIsLastSubmission

LEMMA BackStep == ASSUME IInv, BackToSelect \/ IssueAnother PROVE IInv'
<1>1. UNCHANGED <<catalogue, meta, pending, records, got>>
  BY DEF BackToSelect, IssueAnother
<1>2. page' \in Pages /\ page'.step = "select" /\ page'.disabled = page.disabled
  BY DEF IInv, TypeOK, Pages, BackToSelect, IssueAnother
<1> QED
  BY <1>1, <1>2 DEF IInv, TypeOK, FormInv, SubmitInv, ResultIsLastSubmission

\* The record is that of the form, and no other submission is without an answer.
LEMMA SubmitStep == ASSUME IInv, Submit PROVE IInv'
<1> DEFINE r == [type |-> page.selected, names |-> page.fields]
<1>1. /\ page.step = "form" /\ ~page.disabled
      /\ page' = [page EXCEPT !.disabled = TRUE]
      /\ pending' = pending \cup {Len(records) + 1}
      /\ UNCHANGED <<catalogue, meta, got>>
  BY DEF Submit
<1>2. r \in Filled /\ page.selected # null
  BY <1>1 DEF IInv, FormInv
<1>3. records' = Append(records, r)
  BY <1>2 DEF Submit, TriggerIssuance
<1> HIDE DEF r
<1>4. records' \in Seq(Filled) /\ Len(records') = Len(records) + 1
  BY <1>2, <1>3, AppendProperties DEF IInv, TypeOK
<1>5. pending' = {Len(records')}
  BY <1>1, <1>4 DEF IInv, SubmitInv
<1>6. /\ page' \in Pages /\ page'.step = "form" /\ page'.disabled
      /\ page'.selected = page.selected /\ page'.fields = page.fields
  BY <1>1 DEF IInv, TypeOK, Pages
<1>7. TypeOK'
  BY <1>1, <1>4, <1>6 DEF IInv, TypeOK
<1>8. FormInv' /\ SubmitInv' /\ ResultIsLastSubmission'
  BY <1>2, <1>5, <1>6 DEF FormInv, SubmitInv, ResultIsLastSubmission, r
<1> QED
  BY <1>7, <1>8 DEF IInv

\* An answer is that of the last submission.
LEMMA AnswerStep == ASSUME IInv, NEW n \in Nat, ShowResult(n) \/ SubmitFails(n) PROVE IInv'
<1>1. n \in pending /\ pending' = pending \ {n} /\ UNCHANGED <<catalogue, meta, records, got>>
  BY DEF ShowResult, SubmitFails
<1>2. n = Len(records) /\ pending' = {}
  BY <1>1 DEF IInv, SubmitInv
<1>3. page' \in Pages
  BY DEF IInv, TypeOK, Pages, ShowResult, SubmitFails
<1>4. \/ page'.step = "result" /\ page'.result = n
      \/ page'.step = page.step /\ page'.result = page.result /\ page'.selected = page.selected
         /\ page'.fields = page.fields
  BY DEF IInv, TypeOK, Pages, ShowResult, SubmitFails
<1> QED
  BY <1>1, <1>2, <1>3, <1>4 DEF IInv, TypeOK, FormInv, SubmitInv, ResultIsLastSubmission

LEMMA IssueStep ==
  ASSUME IInv, NEW n \in Nat, NEW c \in Identifiers, IssueCredential(n, c)
  PROVE  IInv'
BY DEF IssueCredential, IInv, TypeOK, FormInv, SubmitInv, ResultIsLastSubmission

\* The wallet is given a format that its copy of the metadata announces.
LEMMA FormatStep ==
  ASSUME PIDMdocConfigID \notin Schemes, IInv, FormatAsAdvertised, [Next]_vars
  PROVE  FormatAsAdvertised'
<1>1. ASSUME NEW n \in Nat, NEW c \in Identifiers, IssueCredential(n, c) PROVE FormatAsAdvertised'
  <2> DEFINE cfgs == Configs(meta["wallet"])
  <2>1. /\ c \in DOMAIN cfgs /\ c \in {PIDConfigID, PIDMdocConfigID}
        /\ got' = {[advertised |-> cfgs[c], credential |-> Credential(c)]}
    BY <1>1 DEF IssueCredential
  <2>2. meta["wallet"] \in Catalogues
    BY DEF IInv, TypeOK
  <2>3. PICK s \in Schemes, v \in Versions : c \in DOMAIN Built[s][v] /\ cfgs[c] = Built[s][v][c]
    BY <2>1, <2>2, ConfigsAreBuilt
  <2> HIDE DEF cfgs
  <2>4. cfgs[c].format # unset => Credential(c).format = cfgs[c].format
    BY <2>1, <2>3, FormatOfIdentifier
  <2> QED
    BY <2>1, <2>4 DEF FormatAsAdvertised
<1>2. ASSUME UNCHANGED got PROVE FormatAsAdvertised'
  BY <1>2 DEF FormatAsAdvertised
<1>3. (\E n \in 1..MaxRecords, c \in Identifiers : IssueCredential(n, c)) \/ UNCHANGED got
  BY DEF Next, vars, Refresh, LoadPage, BackToSelect, IssueAnother, Submit, selectConfig, ShowResult,
    SubmitFails, LookUp
<1>4. 1..MaxRecords \subseteq Nat
  OBVIOUS
<1> QED
  BY <1>1, <1>2, <1>3, <1>4

LEMMA InitInv == Init => IInv
<1> SUFFICES ASSUME Init PROVE IInv
  OBVIOUS
<1>1. page = NewPage /\ page \in Pages /\ page.step = "select" /\ pending = {} /\ records = <<>> /\ got = {}
  BY NewPageFacts DEF Init
<1>2. meta \in [{"page", "wallet"} -> Catalogues]
  BY NothingIsACatalogue DEF Init
<1>3. catalogue \in Catalogues
  BY VersionsAssumption DEF Init, Catalogues
<1> QED
  BY <1>1, <1>2, <1>3 DEF IInv, TypeOK, FormInv, SubmitInv, ResultIsLastSubmission

\* The inductive invariant of the catalogue's readers, the form and its submissions
\* holds in every behaviour.
THEOREM Inductive == Spec => []IInv
<1>1. 1..MaxRecords \subseteq Nat
  OBVIOUS
<1>2. IInv /\ [Next]_vars => IInv'
  BY <1>1, CatalogueStep, LoadStep, SelectStep, BackStep, SubmitStep, AnswerStep, IssueStep DEF Next
<1> QED
  BY InitInv, <1>2, PTL DEF Spec

-----------------------------------------------------------------------------
(* The theorems.                                                           *)

\* For any catalogue, its changes and any use of the page: TriggerIssuance gets the
\* fields of the configuration it is for, from one edition of the scheme.
THEOREM FromOneForm == Spec => []RecordOfOneForm
<1>1. ASSUME TypeOK, NEW n \in DOMAIN records
      PROVE  \E s \in Schemes, v \in Versions :
               /\ records[n].type \in DOMAIN Built[s][v]
               /\ records[n].names = FormFields(Built[s][v][records[n].type])
  <2>1. records[n] \in Filled
    BY <1>1 DEF TypeOK
  <2> QED
    BY <2>1, FilledIs
<1>2. IInv => RecordOfOneForm
  BY <1>1 DEF IInv, RecordOfOneForm
<1> QED
  BY Inductive, <1>2, PTL

\* However answers are delayed or lost, renderResult shows the offer of the last
\* submission, since its button was disabled until then.
THEOREM ResultIsLast == Spec => []ResultIsLastSubmission
BY Inductive, PTL DEF IInv

\* IssueCredential builds the format that the wallet's copy of the metadata, however
\* old, announces for the configuration, whatever the registry says of its schemes,
\* provided that none of them is named "urn:eudi:pid:1.mdoc", like a configuration of
\* the PID.
THEOREM AsAdvertised == ASSUME PIDMdocConfigID \notin Schemes PROVE Spec => []FormatAsAdvertised
<1>1. Init => FormatAsAdvertised
  BY DEF Init, FormatAsAdvertised
<1>2. IInv /\ FormatAsAdvertised /\ [Next]_vars => FormatAsAdvertised'
  BY FormatStep
<1> QED
  BY Inductive, <1>1, <1>2, PTL DEF Spec

-----------------------------------------------------------------------------
(* CredentialFormats: the bytes of a signature.  The provers do not do     *)
(* induction; a proof by induction here takes the Least counterexample.    *)

\* Division by Base, with its remainder.
LEMMA Divided ==
  ASSUME NEW n \in Nat
  PROVE  /\ n \div Base \in Nat
         /\ n % Base \in Nat
         /\ n = (n \div Base) * Base + (n % Base)
BY BoundsAssumption

\* The equation that defines Quotients has a solution.
LEMMA QuotientsExist ==
  ASSUME NEW n \in Nat, NEW m \in Nat
  PROVE  \E q \in [0..m -> Nat] : q = [k \in 0..m |-> IF k = 0 THEN n ELSE q[k - 1] \div Base]
<1> DEFINE Solves(q, l) == q = [k \in 0..l |-> IF k = 0 THEN n ELSE q[k - 1] \div Base]
           Unsolved == {l \in Nat : ~ \E q \in [0..l -> Nat] : Solves(q, l)}
<1>0. Base \in Nat /\ Base >= 2
  BY BoundsAssumption
<1>1. SUFFICES ASSUME Unsolved # {} PROVE FALSE
  OBVIOUS
<1>2. PICK l \in Unsolved : \A k \in Unsolved : l <= k
  <2>1. Unsolved \in SUBSET Nat
    OBVIOUS
  <2> HIDE DEF Unsolved
  <2> QED BY <1>1, <2>1, Least
<1>3. l # 0
  <2>1. Solves([k \in 0..0 |-> n], 0)
    OBVIOUS
  <2> QED BY <2>1
<1>4. l - 1 \in Nat /\ l - 1 \notin Unsolved
  <2>1. l \in Nat /\ l - 1 \in Nat /\ ~(l <= l - 1)
    BY <1>3
  <2> HIDE DEF Unsolved
  <2> QED BY <1>2, <2>1
<1>5. PICK q \in [0..(l - 1) -> Nat] : Solves(q, l - 1)
  BY <1>4
<1> DEFINE qq == [k \in 0..l |-> IF k = l THEN q[l - 1] \div Base ELSE q[k]]
<1>6. qq \in [0..l -> Nat]
  <2>0. q[l - 1] \in Nat
    <3>1. l - 1 \in 0..(l - 1)
      BY <1>4
    <3> QED BY <1>5, <3>1
  <2>1. l \in Nat /\ q[l - 1] \div Base \in Nat
    BY <2>0, Divided
  <2> QED BY <1>3, <1>5, <2>1
<1>7. Solves(qq, l)
  <2>1. ASSUME NEW k \in 0..l PROVE qq[k] = IF k = 0 THEN n ELSE qq[k - 1] \div Base
    BY <1>3, <1>5
  <2> QED BY <2>1
<1> QED
  BY <1>6, <1>7

\* What Quotients computes: one byte less at each place.
LEMMA QuotientsAre ==
  ASSUME NEW n \in Nat
  PROVE  /\ Quotients(n) \in [0..Width -> Nat]
         /\ Quotients(n)[0] = n
         /\ \A k \in 1..Width : Quotients(n)[k] = Quotients(n)[k - 1] \div Base
<1> DEFINE Solves(q) == q = [k \in 0..Width |-> IF k = 0 THEN n ELSE q[k - 1] \div Base]
           Q == CHOOSE q : Solves(q)
<1>1. Quotients(n) = Q
  BY DEF Quotients
<1>0. Width \in Nat /\ Width >= 1 /\ Base \in Nat /\ Base >= 2
  BY BoundsAssumption
<1>2. \E q : Solves(q)
  BY QuotientsExist, <1>0
<1>3. Solves(Q)
  BY <1>2
<1> HIDE DEF Q
<1>4. /\ Q[0] = n
      /\ \A k \in 1..Width : Q[k] = Q[k - 1] \div Base
      /\ Q = [k \in 0..Width |-> Q[k]]
  BY <1>0, <1>3
<1> DEFINE Bad == {k \in 0..Width : Q[k] \notin Nat}
<1>5. Bad = {}
  <2>1. SUFFICES ASSUME Bad # {} PROVE FALSE
    OBVIOUS
  <2>2. PICK k \in Bad : \A j \in Bad : k <= j
    <3>1. Bad \in SUBSET Nat
      BY <1>0
    <3> HIDE DEF Bad
    <3> QED BY <2>1, <3>1, Least
  <2>3. k # 0
    BY <1>4
  <2>4. k \in 1..Width /\ Q[k] \notin Nat /\ Q[k - 1] \in Nat
    BY <1>0, <2>2, <2>3
  <2>5. Q[k - 1] \div Base \in Nat
    BY <2>4, Divided
  <2> QED
    BY <1>4, <2>4, <2>5
<1> QED
  BY <1>1, <1>4, <1>5

\* Written in enough bytes and read again, a number is itself.
LEMMA Recovered ==
  ASSUME NEW n \in Nat, NEW w \in 1..Width, Quotients(n)[w] = 0
  PROVE  SetBytes(LastBytes(n, w)) = n
<1> DEFINE Q == Quotients(n)
           bytes == LastBytes(n, w)
           Solves(v) == v = [k \in 0..w |-> IF k = 0 THEN 0 ELSE v[k - 1] * Base + bytes[k]]
           v == CHOOSE v : Solves(v)
<1>0. w \in Nat /\ w >= 1 /\ w <= Width /\ Width \in Nat
  BY BoundsAssumption
<1>1. /\ Q \in [0..Width -> Nat] /\ Q[0] = n /\ Q[w] = 0
      /\ \A k \in 1..Width : Q[k] = Q[k - 1] \div Base
  BY QuotientsAre
<1>2. bytes \in Seq(Nat) /\ Len(bytes) = w /\ \A b \in 1..w : bytes[b] = Q[w - b] % Base
  <2>1. ASSUME NEW b \in 1..w PROVE Q[w - b] % Base \in Nat
    <3> HIDE DEF Q
    <3>1. Q[w - b] \in Nat
      BY <1>0, <1>1
    <3> QED BY <3>1, Divided
  <2> QED BY <2>1, <1>0 DEF LastBytes
<1>3. SetBytes(bytes) = v[w]
  BY <1>2 DEF SetBytes
<1> HIDE DEF Q, bytes
<1>4. \A k \in 1..w : Q[w - k] = Q[w - (k - 1)] * Base + bytes[k]
  <2> SUFFICES ASSUME NEW k \in 1..w PROVE Q[w - k] = Q[w - (k - 1)] * Base + bytes[k]
    OBVIOUS
  <2> DEFINE j == w - (k - 1)
  <2>1. j \in 1..Width /\ j - 1 = w - k /\ w - k \in 0..Width
    BY <1>0
  <2>2. Q[j] = Q[w - k] \div Base
    BY <1>1, <2>1
  <2>3. Q[w - k] \in Nat
    BY <1>1, <2>1
  <2> QED
    BY <1>2, <2>2, <2>3, Divided
<1>5. Solves([k \in 0..w |-> Q[w - k]])
  <2> DEFINE u == [k \in 0..w |-> Q[w - k]]
  <2>1. ASSUME NEW k \in 0..w PROVE u[k] = IF k = 0 THEN 0 ELSE u[k - 1] * Base + bytes[k]
    <3>1. CASE k = 0
      BY <1>0, <1>1, <3>1
    <3>2. CASE k # 0
      BY <1>0, <1>4, <3>2
    <3> QED BY <3>1, <3>2
  <2> QED BY <2>1
<1>6. Solves(v)
  BY <1>5
<1> HIDE DEF v
<1>7. v[0] = 0 /\ \A k \in 1..w : v[k] = v[k - 1] * Base + bytes[k]
  BY <1>0, <1>6
<1> DEFINE Bad == {k \in 0..w : v[k] # Q[w - k]}
<1>8. Bad = {}
  <2>1. SUFFICES ASSUME Bad # {} PROVE FALSE
    OBVIOUS
  <2>2. PICK k \in Bad : \A j \in Bad : k <= j
    <3>1. Bad \in SUBSET Nat
      BY <1>0
    <3> HIDE DEF Bad
    <3> QED BY <2>1, <3>1, Least
  <2>3. k # 0
    BY <1>0, <1>1, <1>7
  <2>4. k \in 1..w /\ v[k - 1] = Q[w - (k - 1)]
    BY <2>2, <2>3, <1>0
  <2> QED
    BY <1>4, <1>7, <2>4
<1>9. v[w] = Q[0]
  BY <1>0, <1>8
<1> QED
  BY <1>1, <1>3, <1>9 DEF bytes

\* Some number of bytes is the least that n needs.
LEMMA MinimalRecovered ==
  ASSUME NEW n \in Nat \ {0}, Quotients(n)[Width] = 0
  PROVE  SetBytes(MinimalBytes(n)) = n
<1> DEFINE Q == Quotients(n)
           Enough == {w \in 0..Width : Q[w] = 0}
<1>1. Q \in [0..Width -> Nat] /\ Q[0] = n /\ Q[Width] = 0
  BY QuotientsAre
<1>2. Width \in Nat /\ Width >= 1
  BY BoundsAssumption
<1> HIDE DEF Q
<1>3. Enough # {} /\ Enough \in SUBSET Nat
  BY <1>1, <1>2
<1>4. PICK w \in Enough : \A k \in Enough : w <= k
  <2> HIDE DEF Enough
  <2> QED BY <1>3, Least
<1>5. w \in 1..Width /\ Q[w] = 0
  BY <1>1, <1>2, <1>4
<1>6. w - 1 \in 0..Width /\ ~(w <= w - 1)
  BY <1>2, <1>5
<1>7. Q[w - 1] # 0
  BY <1>4, <1>6
<1> DEFINE least == CHOOSE u \in 1..Width : Q[u] = 0 /\ Q[u - 1] # 0
<1>8. least \in 1..Width /\ Q[least] = 0
  BY <1>5, <1>7
<1> HIDE DEF least
<1>9. SetBytes(LastBytes(n, least)) = n
  BY <1>8, Recovered DEF Q
<1> QED
  BY <1>9 DEF MinimalBytes, least, Q

\* The numbers of a signature, from the bytes of fixed width that the MSO carries.
SignatureOf(bytes) ==
  <<SetBytes(SubSeq(bytes, 1, Width)), SetBytes(SubSeq(bytes, Width + 1, 2 * Width))>>

\* signRawP1363 keeps the signature: the DER encoding that the signer returns, in
\* as few bytes as each number needs, becomes 2 * Width bytes that a verifier cuts
\* in the middle and reads as the same r and s, also when one has leading zeros.
\* For every Base and Width, hence for the 32 bytes of the code.
THEOREM SignatureSurvives ==
  ASSUME NEW sig \in Signatures
  PROVE  /\ Len(signRawP1363(DER(sig))) = 2 * Width
         /\ SignatureOf(signRawP1363(DER(sig))) = sig
<1>1. /\ sig = <<sig[1], sig[2]>>
      /\ \A n \in {sig[1], sig[2]} : n \in Nat \ {0} /\ Quotients(n)[Width] = 0
  BY SignaturesAssumption
<1> DEFINE r == sig[1]
           s == sig[2]
<1>2. parseECDSADER(DER(sig)) = <<r, s>>
  <2>1. SetBytes(MinimalBytes(r)) = r /\ SetBytes(MinimalBytes(s)) = s
    BY <1>1, MinimalRecovered
  <2> QED BY <2>1 DEF parseECDSADER, DER
<1>3. ASSUME NEW n \in {r, s}
      PROVE  /\ FillBytes(n) \in Seq(Nat) /\ Len(FillBytes(n)) = Width
             /\ SetBytes(FillBytes(n)) = n
  <2> DEFINE Q == Quotients(n)
  <2>1. n \in Nat /\ Width \in Nat /\ Width >= 1 /\ Q[Width] = 0 /\ Width \in 1..Width
    BY <1>1, BoundsAssumption
  <2>2. Q \in [0..Width -> Nat]
    BY <2>1, QuotientsAre
  <2>3. ASSUME NEW b \in 1..Width PROVE Q[Width - b] % Base \in Nat
    <3> HIDE DEF Q
    <3>1. Q[Width - b] \in Nat
      BY <2>1, <2>2
    <3> QED BY <3>1, Divided
  <2>4. SetBytes(FillBytes(n)) = n
    BY <2>1, Recovered DEF FillBytes
  <2> HIDE DEF Q
  <2>5. FillBytes(n) = [b \in 1..Width |-> Q[Width - b] % Base]
    BY DEF FillBytes, LastBytes, Q
  <2> QED BY <2>1, <2>3, <2>4, <2>5
<1> DEFINE a == FillBytes(r)
           b == FillBytes(s)
<1>4. signRawP1363(DER(sig)) = a \o b
  BY <1>2 DEF signRawP1363
<1>5. /\ a \in Seq(Nat) /\ Len(a) = Width /\ SetBytes(a) = r
      /\ b \in Seq(Nat) /\ Len(b) = Width /\ SetBytes(b) = s
      /\ Width \in Nat
  BY <1>3, BoundsAssumption
<1> HIDE DEF a, b, r, s
<1>6. /\ Len(a \o b) = 2 * Width
      /\ SubSeq(a \o b, 1, Width) = a
      /\ SubSeq(a \o b, Width + 1, 2 * Width) = b
  BY <1>5
<1> QED
  BY <1>1, <1>4, <1>5, <1>6 DEF SignatureOf, r, s

-----------------------------------------------------------------------------
(* The status list.                                                        *)

\* Four entries to a byte: no bit of the byte belongs to two of them.
LEMMA OwnBits ==
  ASSUME NEW i \in Nat, NEW j \in Nat, NEW b \in {0, 1}, NEW c \in {0, 1},
         (i * Bits) \div 8 = (j * Bits) \div 8,
         b + ((i * Bits) % 8) = c + ((j * Bits) % 8)
  PROVE  i = j /\ b = c
BY DEF Bits

\* The bits an entry of the list has.
LEMMA BitsOfEntry ==
  ASSUME NEW n \in 0..3
  PROVE  /\ BitsOf(n) \cap 0..(Bits - 1) \subseteq {0, 1}
         /\ 0 \in BitsOf(n) <=> n \in {1, 3}
         /\ 1 \in BitsOf(n) <=> n \in {2, 3}
<1>1. 2^0 = 1 /\ 2^1 = 2
  OBVIOUS
<1>2. 0 \in BitsOf(n) <=> (n \div 1) % 2 = 1
  BY <1>1 DEF BitsOf
<1>3. 1 \in BitsOf(n) <=> (n \div 2) % 2 = 1
  BY <1>1 DEF BitsOf
<1> QED
  BY <1>2, <1>3 DEF Bits

\* Whatever statuses a list of any length has, a relying party reads each of them.
THEOREM StatusSurvives ==
  ASSUME NEW n \in Nat, NEW entries \in [0..(n - 1) -> 0..3], NEW i \in 0..(n - 1)
  PROVE  ReadStatus(packBitstring(entries, n), i) = entries[i]
<1> DEFINE bytes == packBitstring(entries, n)
           byte  == (i * Bits) \div 8
           at    == (i * Bits) % 8
<1>1. byte \in 0..(numBytes(n) - 1) /\ at \in {0, 2, 4, 6}
  BY DEF numBytes, Bits
<1> DEFINE Here == {j \in 0..(n - 1) : j < n /\ (j * Bits) \div 8 = byte}
<1>2. DOMAIN bytes = 0..(numBytes(n) - 1)
  BY DEF packBitstring
<1>3. bytes[byte] = UNION {Shifted(BitsOf(entries[j]) \cap 0..(Bits - 1), (j * Bits) % 8) : j \in Here}
  BY <1>1 DEF packBitstring
<1>4. ASSUME NEW b \in {0, 1}
      PROVE  b + at \in bytes[byte] <=> b \in BitsOf(entries[i])
  <2>1. ASSUME b \in BitsOf(entries[i]) PROVE b + at \in bytes[byte]
    <3>1. i \in Here
      OBVIOUS
    <3>2. b \in BitsOf(entries[i]) \cap 0..(Bits - 1)
      BY <2>1 DEF Bits
    <3>3. b + at \in 0..7
      BY <1>1
    <3>4. b + at \in Shifted(BitsOf(entries[i]) \cap 0..(Bits - 1), at)
      BY <3>2, <3>3 DEF Shifted
    <3> HIDE DEF bytes, byte
    <3> QED BY <1>3, <3>1, <3>4
  <2>2. ASSUME b + at \in bytes[byte] PROVE b \in BitsOf(entries[i])
    <3>1. PICK j \in Here : b + at \in Shifted(BitsOf(entries[j]) \cap 0..(Bits - 1), (j * Bits) % 8)
      <4> HIDE DEF bytes, byte, at, Here
      <4> QED BY <1>3, <2>2
    <3>2. PICK c \in BitsOf(entries[j]) \cap 0..(Bits - 1) : b + at = c + ((j * Bits) % 8)
      BY <3>1 DEF Shifted
    <3>3. c \in {0, 1}
      BY <3>2 DEF Bits
    <3>4. i = j /\ b = c
      BY <3>2, <3>3, OwnBits
    <3> QED BY <3>2, <3>4
  <2> QED BY <2>1, <2>2
<1> HIDE DEF bytes, byte, at
<1>5. /\ at \in bytes[byte] <=> 0 \in BitsOf(entries[i])
      /\ at + 1 \in bytes[byte] <=> 1 \in BitsOf(entries[i])
  BY <1>1, <1>4
<1>6. ReadStatus(bytes, i) =
        (IF at \in bytes[byte] THEN 1 ELSE 0) + (IF at + 1 \in bytes[byte] THEN 2 ELSE 0)
  BY <1>1, <1>2 DEF ReadStatus, byte, at
<1>7. entries[i] \in 0..3
  OBVIOUS
<1> QED
  BY <1>5, <1>6, <1>7, BitsOfEntry DEF bytes

-----------------------------------------------------------------------------
(* The credential.                                                         *)

\* The list has a status for each of its indices.
ListInv ==
  \E n \in Nat : list \in [0..(n - 1) -> {StatusValid, StatusInvalid}]

\* The credential is what was built from the data, in one order of its claims.
IsSDJWT(names) == cred = buildSDJWTCredential(names, idx)
IsMdoc(names)  == signed \in Signatures /\ cred = buildMdocCredential(names, idx, signed)

CredentialInv ==
  pc # "requested" =>
    /\ idx \in DOMAIN list
    /\ \E names \in Orders(DOMAIN data) : IsSDJWT(names) \/ IsMdoc(names)

FormatsInv ==
  /\ IsFiniteSet(DOMAIN data)
  /\ key \in WalletKeys
  /\ ListInv
  /\ CredentialInv
  /\ pc = "presented" => shown \subseteq cred.parts

\* AllocateIdx adds an entry behind the others.
LEMMA AllocatedAdds ==
  ASSUME ListInv
  PROVE  /\ \E n \in Nat : Allocated(list) \in [0..(n - 1) -> {StatusValid, StatusInvalid}]
         /\ DOMAIN list \subseteq DOMAIN Allocated(list)
         /\ Cardinality(DOMAIN list) \in DOMAIN Allocated(list)
<1>1. PICK n \in Nat : list \in [0..(n - 1) -> {StatusValid, StatusInvalid}]
  BY DEF ListInv
<1>2. DOMAIN list = 0..(n - 1) /\ Cardinality(DOMAIN list) = n
  BY <1>1, FS_Interval
<1>3. DOMAIN list \cup {n} = 0..n
  BY <1>2
<1>4. Allocated(list) = [i \in 0..n |-> IF i \in 0..(n - 1) THEN list[i] ELSE StatusValid]
  BY <1>2, <1>3 DEF Allocated
<1>5. Allocated(list) \in [0..n -> {StatusValid, StatusInvalid}]
  BY <1>1, <1>4
<1>6. n + 1 \in Nat /\ 0..((n + 1) - 1) = 0..n
  OBVIOUS
<1> QED
  BY <1>2, <1>4, <1>5, <1>6

\* A credential stays as it was built, while the list grows and entries are revoked.
LEMMA FormatsStep == FormatsInv /\ [FormatsNext]_formatVars => FormatsInv'
<1> SUFFICES ASSUME FormatsInv, [FormatsNext]_formatVars PROVE FormatsInv'
  OBVIOUS
<1>1. CASE OtherIssued
  <2>1. ListInv' /\ DOMAIN list \subseteq DOMAIN list'
    BY <1>1, AllocatedAdds DEF FormatsInv, OtherIssued, ListInv
  <2>2. CredentialInv'
    BY <1>1, <2>1 DEF FormatsInv, OtherIssued, CredentialInv, IsSDJWT, IsMdoc, buildSDJWTCredential,
      buildMdocCredential, Elements
  <2> QED
    BY <1>1, <2>1, <2>2 DEF FormatsInv, OtherIssued
<1>2. CASE BuildCredential
  <2>1. ListInv' /\ idx' \in DOMAIN list'
    BY <1>2, AllocatedAdds DEF FormatsInv, BuildCredential, ListInv
  <2>2. PICK names \in Orders(DOMAIN data) :
          \/ cred' = buildSDJWTCredential(names, idx')
          \/ \E sig \in Signatures : cred' = buildMdocCredential(names, idx', sig) /\ signed' = sig
    BY <1>2 DEF BuildCredential
  <2>3. data' = data /\ key' = key /\ pc' = "issued"
    BY <1>2 DEF BuildCredential
  <2>4. IsSDJWT(names)' \/ IsMdoc(names)'
    BY <2>2, <2>3 DEF IsSDJWT, IsMdoc, buildSDJWTCredential, buildMdocCredential, Elements
  <2>5. CredentialInv'
    BY <2>1, <2>2, <2>3, <2>4 DEF CredentialInv
  <2> QED
    BY <2>1, <2>3, <2>5 DEF FormatsInv
<1>3. ASSUME NEW parts \in SUBSET cred.parts, Present(parts) PROVE FormatsInv'
  <2>1. CredentialInv'
    BY <1>3 DEF FormatsInv, Present, CredentialInv, IsSDJWT, IsMdoc, buildSDJWTCredential,
      buildMdocCredential, Elements
  <2> QED
    BY <1>3, <2>1 DEF FormatsInv, Present, ListInv
<1>4. ASSUME NEW i \in DOMAIN list, Revoke(i) PROVE FormatsInv'
  <2>1. ListInv' /\ DOMAIN list' = DOMAIN list
    BY <1>4 DEF FormatsInv, Revoke, ListInv
  <2>2. CredentialInv'
    BY <1>4, <2>1 DEF FormatsInv, Revoke, CredentialInv, IsSDJWT, IsMdoc, buildSDJWTCredential,
      buildMdocCredential, Elements
  <2> QED
    BY <1>4, <2>1, <2>2 DEF FormatsInv, Revoke
<1>5. CASE UNCHANGED formatVars
  <2>1. CredentialInv'
    BY <1>5 DEF FormatsInv, formatVars, CredentialInv, IsSDJWT, IsMdoc, buildSDJWTCredential,
      buildMdocCredential, Elements
  <2> QED
    BY <1>5, <2>1 DEF FormatsInv, formatVars, ListInv
<1> QED
  BY <1>1, <1>2, <1>3, <1>4, <1>5 DEF FormatsNext

\* IssueCredential makes the credential once, from the record's data in one order of
\* its claims and with an index of the list; revocations and other records change
\* neither that nor the index's being in the list.
THEOREM FormatsInductive == FormatsSpec => []FormatsInv
<1>1. FormatsInit => FormatsInv
  <2> SUFFICES ASSUME FormatsInit PROVE FormatsInv
    OBVIOUS
  <2>1. IsFiniteSet(DOMAIN data)
    BY DEF FormatsInit
  <2>2. list \in [0..(0 - 1) -> {StatusValid, StatusInvalid}]
    BY DEF FormatsInit
  <2> QED
    BY <2>1, <2>2 DEF FormatsInit, FormatsInv, ListInv, CredentialInv
<1> QED
  BY <1>1, FormatsStep, PTL DEF FormatsSpec

\* An order of the claims has each of them.
LEMMA OrderOfClaims ==
  ASSUME NEW S, IsFiniteSet(S), NEW names \in Orders(S)
  PROVE  /\ Cardinality(S) \in Nat
         /\ names \in [1..Cardinality(S) -> S]
BY FS_CardinalityType DEF Orders, Bijection, Injection

\* The claims that the issuer adds have its names, and the status is the record's.
LEMMA PlainClaimsAre ==
  ASSUME NEW i, NEW c \in PlainClaims(i)
  PROVE  /\ c[1] \in {"issuing_authority", "issuing_country", "status"}
         /\ c[1] = "status" => c = <<"status", <<"map", i>>>>
<1>1. CASE c = <<"issuing_authority", <<"text", "Fikua Lab">>>>
  <2>1. c[1] = "issuing_authority"
    BY <1>1
  <2> QED BY <2>1
<1>2. CASE c = <<"issuing_country", <<"text", "ES">>>>
  <2>1. c[1] = "issuing_country"
    BY <1>2
  <2> QED BY <2>1
<1>3. CASE c = <<"status", <<"map", i>>>>
  <2>1. c[1] = "status"
    BY <1>3
  <2> QED BY <1>3, <2>1
<1> QED
  BY <1>1, <1>2, <1>3 DEF PlainClaims, statusClaim

\* The names in the payload of an SD-JWT are the issuer's, all of them and no other.
LEMMA PayloadNames ==
  ASSUME NEW i
  PROVE  /\ {c[1] : c \in RegisteredClaims \cup PlainClaims(i)} = IssuerNames("dc+sd-jwt")
         /\ \A c \in RegisteredClaims : c[1] # "status"
<1>1. \A c \in RegisteredClaims : c[1] \in RegisteredNames
  BY DEF RegisteredClaims
<1>2. \A n \in RegisteredNames : \E c \in RegisteredClaims : c[1] = n
  <2> SUFFICES ASSUME NEW n \in RegisteredNames PROVE \E c \in RegisteredClaims : c[1] = n
    OBVIOUS
  <2>1. <<n, <<"registered", n>>>> \in RegisteredClaims
    BY DEF RegisteredClaims
  <2> QED BY <2>1
<1>3. \A n \in {"issuing_authority", "issuing_country", "status"} : \E c \in PlainClaims(i) : c[1] = n
  BY DEF PlainClaims
<1>4. \A c \in PlainClaims(i) : c[1] \in {"issuing_authority", "issuing_country", "status"}
  BY PlainClaimsAre
<1>5. IssuerNames("dc+sd-jwt") = {"issuing_authority", "issuing_country", "status"} \cup RegisteredNames
  BY DEF IssuerNames
<1>6. \A c \in RegisteredClaims : c[1] # "status"
  BY <1>1 DEF RegisteredNames
<1> QED
  BY <1>1, <1>2, <1>3, <1>4, <1>5, <1>6

\* The claim that a value of the data becomes.
DataClaim(n) ==
  <<n, <<IF cred.format = "mso_mdoc" /\ n = "birth_date" THEN "full-date" ELSE "text", data[n].text>>>>

\* The elements of an mdoc: those of the data, then the issuer's.
LEMMA ElementsAre ==
  ASSUME IsFiniteSet(DOMAIN data), NEW names \in Orders(DOMAIN data), cred.format = "mso_mdoc", NEW i
  PROVE  /\ Len(Elements(names, i)) \in Nat
         /\ DOMAIN Elements(names, i) = 1..Len(Elements(names, i))
         /\ \A k \in DOMAIN Elements(names, i) :
              \/ \E n \in DOMAIN data : Elements(names, i)[k] = DataClaim(n)
              \/ Elements(names, i)[k] \in PlainClaims(i)
<1> DEFINE n == Cardinality(DOMAIN data)
           claims == [k \in DOMAIN names |-> NewElement(names[k], Sprintf(data[names[k]]))]
           own == << NewElement("issuing_authority", <<"text", "Fikua Lab">>),
                     NewElement("issuing_country", <<"text", "ES">>),
                     MapElement("status", statusClaim(i)) >>
<1>1. n \in Nat /\ names \in [1..n -> DOMAIN data]
  BY OrderOfClaims
<1>2. ASSUME NEW k \in 1..n
      PROVE  claims[k] = DataClaim(names[k]) /\ names[k] \in DOMAIN data
  <2>1. claims[k] = NewElement(names[k], <<"text", data[names[k]].text>>)
    BY <1>1 DEF Sprintf
  <2> QED
    BY <1>1, <2>1 DEF NewElement, DataClaim
<1>3. own[1] \in PlainClaims(i) /\ own[2] \in PlainClaims(i) /\ own[3] \in PlainClaims(i)
  <2>1. own[1] = <<"issuing_authority", <<"text", "Fikua Lab">>>>
    BY DEF NewElement
  <2>2. own[2] = <<"issuing_country", <<"text", "ES">>>>
    BY DEF NewElement
  <2>3. own[3] = <<"status", statusClaim(i)>>
    BY DEF MapElement
  <2> HIDE DEF own
  <2> QED BY <2>1, <2>2, <2>3 DEF PlainClaims
<1>4. Elements(names, i) = claims \o own
  BY DEF Elements
<1>5. claims \in Seq({DataClaim(m) : m \in DOMAIN data}) /\ Len(claims) = n
  <2>1. DOMAIN claims = 1..n
    BY <1>1
  <2>2. claims \in [1..n -> {DataClaim(m) : m \in DOMAIN data}]
    BY <1>1, <1>2, <2>1
  <2> HIDE DEF claims
  <2> QED
    BY <1>1, <2>2
<1>6. own \in Seq(PlainClaims(i)) /\ Len(own) = 3
  <2> DEFINE x == NewElement("issuing_authority", <<"text", "Fikua Lab">>)
             y == NewElement("issuing_country", <<"text", "ES">>)
             z == MapElement("status", statusClaim(i))
  <2>1. x \in PlainClaims(i) /\ y \in PlainClaims(i) /\ z \in PlainClaims(i) /\ own = <<x, y, z>>
    BY <1>3
  <2> HIDE DEF x, y, z, own
  <2> QED BY <2>1
<1> HIDE DEF n, claims, own
<1>7. /\ Len(claims \o own) = n + 3
      /\ DOMAIN (claims \o own) = 1..(n + 3)
      /\ \A k \in 1..(n + 3) : (claims \o own)[k] = IF k <= n THEN claims[k] ELSE own[k - n]
  <2> DEFINE D == {DataClaim(m) : m \in DOMAIN data} \cup PlainClaims(i)
  <2>1. claims \in Seq(D) /\ own \in Seq(D)
    BY <1>5, <1>6
  <2> HIDE DEF D
  <2>2. /\ claims \o own \in Seq(D) /\ Len(claims \o own) = Len(claims) + Len(own)
        /\ \A k \in 1..(Len(claims) + Len(own)) :
             (claims \o own)[k] = IF k <= Len(claims) THEN claims[k] ELSE own[k - Len(claims)]
    BY <2>1, ConcatProperties
  <2>3. Len(claims) = n /\ Len(own) = 3
    BY <1>5, <1>6
  <2>4. DOMAIN (claims \o own) = 1..Len(claims \o own)
    BY <2>2
  <2> QED BY <2>2, <2>3, <2>4
<1>8. ASSUME NEW k \in 1..(n + 3)
      PROVE  \/ \E m \in DOMAIN data : (claims \o own)[k] = DataClaim(m)
             \/ (claims \o own)[k] \in PlainClaims(i)
  <2>1. CASE k <= n
    BY <1>1, <1>2, <1>7, <2>1
  <2>2. CASE ~(k <= n)
    <3>1. k - n \in 1..3
      BY <1>1, <2>2
    <3> QED BY <1>3, <1>7, <2>2, <3>1
  <2> QED BY <2>1, <2>2
<1> QED
  BY <1>1, <1>4, <1>7, <1>8

\* What a credential says, in its signed part and in the parts to be disclosed, is
\* the data's or the issuer's.
LEMMA ClaimsAre ==
  ASSUME FormatsInv, pc # "requested"
  PROVE  /\ cred.format \in {"dc+sd-jwt", "mso_mdoc"}
         /\ cred.claims = IF cred.format = "dc+sd-jwt" THEN RegisteredClaims \cup PlainClaims(idx) ELSE {}
         /\ \A part \in cred.parts : \/ \E n \in DOMAIN data : ClaimOf(part) = DataClaim(n)
                                    \/ ClaimOf(part) \in PlainClaims(idx)
         /\ cred.format = "dc+sd-jwt" => \A part \in cred.parts : \E n \in DOMAIN data : part = DataClaim(n)
         /\ ~cred.holder.d
<1>1. PICK names \in Orders(DOMAIN data) : IsSDJWT(names) \/ IsMdoc(names)
  BY DEF FormatsInv, CredentialInv
<1>2. IsFiniteSet(DOMAIN data) /\ key = [id |-> key.id, d |-> key.d]
  BY KeysAssumption DEF FormatsInv
<1>3. [key EXCEPT !.d = FALSE].d = FALSE
  BY <1>2
<1>4. CASE IsSDJWT(names)
  <2>1. /\ cred.format = "dc+sd-jwt" /\ cred.holder = cnf(key)
        /\ cred.claims = RegisteredClaims \cup PlainClaims(idx)
        /\ cred.parts = {NewDisclosure(names[n], Sprintf(data[names[n]])) : n \in DOMAIN names}
    BY <1>4 DEF IsSDJWT, buildSDJWTCredential
  <2>2. ASSUME NEW part \in cred.parts PROVE \E n \in DOMAIN data : part = DataClaim(n)
    <3>1. PICK k \in DOMAIN names : part = <<names[k], <<"text", data[names[k]].text>>>>
      BY <2>1 DEF NewDisclosure, Sprintf
    <3>2. names[k] \in DOMAIN data
      BY <1>2, OrderOfClaims
    <3> QED
      BY <2>1, <3>1, <3>2 DEF DataClaim
  <2>3. \A part \in cred.parts : ClaimOf(part) = part
    BY <2>1 DEF ClaimOf
  <2> QED
    BY <1>3, <2>1, <2>2, <2>3 DEF cnf
<1>5. CASE IsMdoc(names)
  <2> DEFINE elems == Elements(names, idx)
  <2>1. /\ cred.format = "mso_mdoc" /\ cred.claims = {} /\ cred.holder = deviceKeyFromJWK(key)
        /\ cred.parts = {buildIssuerSignedItem(n - 1, elems[n]) : n \in DOMAIN elems}
    BY <1>5 DEF IsMdoc, buildMdocCredential, buildNamespaceItems
  <2>2. ASSUME NEW part \in cred.parts
        PROVE  \/ \E n \in DOMAIN data : ClaimOf(part) = DataClaim(n)
               \/ ClaimOf(part) \in PlainClaims(idx)
    <3>1. PICK k \in DOMAIN elems : part = <<k - 1, elems[k]>>
      BY <2>1 DEF buildIssuerSignedItem
    <3>2. ClaimOf(part) = elems[k]
      BY <2>1, <3>1 DEF ClaimOf
    <3> QED
      BY <1>2, <2>1, <3>2, ElementsAre
  <2> QED
    BY <1>3, <2>1, <2>2 DEF deviceKeyFromJWK
<1> QED
  BY <1>1, <1>4, <1>5

\* Whatever part of the credential a wallet presents, its disclosures or items match
\* the digests that Build and buildNamespaceItems had signed, and the COSE signature
\* is the signer's: for any claims, in any order, and any signature.  A presentation
\* is refused exactly if it discloses, from an SD-JWT, a claim of credential_data
\* named like one of the payload.
THEOREM AnySelectionVerifies == FormatsSpec => []SelectionVerifies
<1>1. FormatsInv => SelectionVerifies
  <2> SUFFICES ASSUME FormatsInv, pc = "presented"
               PROVE  Verifies <=> \/ cred.format = "mso_mdoc"
                                   \/ \A d \in shown : d[1] \notin IssuerNames("dc+sd-jwt") \cup {"..."}
    BY DEF SelectionVerifies, Presented
  <2>1. PICK names \in Orders(DOMAIN data) : IsSDJWT(names) \/ IsMdoc(names)
    BY DEF FormatsInv, CredentialInv
  <2>2. shown \subseteq cred.parts /\ IsFiniteSet(DOMAIN data)
    BY DEF FormatsInv
  <2>3. CASE IsSDJWT(names)
    <3>1. /\ cred.format = "dc+sd-jwt" /\ cred.digests = {Digest(d) : d \in cred.parts}
          /\ cred.claims = RegisteredClaims \cup PlainClaims(idx)
      BY <2>3 DEF IsSDJWT, buildSDJWTCredential
    <3>2. {c[1] : c \in cred.claims} = IssuerNames("dc+sd-jwt")
      BY <3>1, PayloadNames
    <3>3. "_sd" \in IssuerNames("dc+sd-jwt")
      BY DEF IssuerNames, RegisteredNames
    <3>4. \A d \in shown : Digest(d) \in cred.digests
      BY <2>2, <3>1
    <3>5. \A d \in shown : d[1] \notin IssuerNames("dc+sd-jwt") \cup {"..."}
                            <=> d[1] \notin {"_sd", "..."} /\ \A c \in cred.claims : c[1] # d[1]
      BY <3>2, <3>3
    <3>6. Verifies <=> \A d \in shown : /\ Digest(d) \in cred.digests
                                        /\ d[1] \notin {"_sd", "..."}
                                        /\ \A c \in cred.claims : c[1] # d[1]
      BY <3>1 DEF Verifies
    <3>7. cred.format # "mso_mdoc"
      BY <3>1
    <3> QED
      BY <3>4, <3>5, <3>6, <3>7
  <2>4. CASE IsMdoc(names)
    <3> DEFINE elems == Elements(names, idx)
    <3>1. /\ cred.format = "mso_mdoc" /\ signed \in Signatures
          /\ cred.signature = signRawP1363(DER(signed))
          /\ cred.parts = {buildIssuerSignedItem(n - 1, elems[n]) : n \in DOMAIN elems}
          /\ cred.digests = [n \in 0..(Len(elems) - 1) |-> Digest(buildIssuerSignedItem(n, elems[n + 1]))]
      BY <2>4 DEF IsMdoc, buildMdocCredential, buildNamespaceItems
    <3>2. Len(elems) \in Nat /\ DOMAIN elems = 1..Len(elems)
      BY <2>2, <3>1, ElementsAre
    <3>3. ASSUME NEW it \in shown
          PROVE  it[1] \in DOMAIN cred.digests /\ cred.digests[it[1]] = Digest(it)
      <4>1. PICK k \in DOMAIN elems : it = buildIssuerSignedItem(k - 1, elems[k])
        BY <2>2, <3>1
      <4>2. it[1] = k - 1
        BY <4>1 DEF buildIssuerSignedItem
      <4> HIDE DEF elems
      <4>3. k - 1 \in 0..(Len(elems) - 1) /\ (k - 1) + 1 = k
        BY <3>2
      <4> QED BY <3>1, <4>1, <4>2, <4>3
    <3>4. /\ Len(cred.signature) = 2 * Width
          /\ signed = SignatureOf(cred.signature)
      BY <3>1, SignatureSurvives
    <3> QED
      BY <3>1, <3>3, <3>4 DEF Verifies, SignatureOf
  <2> QED
    BY <2>1, <2>3, <2>4
<1> QED
  BY <1>1, FormatsInductive, PTL

\* A presentation tells the claims selected, as buildSDJWTCredential or
\* buildMdocCredential encodes them, and nothing of any other claim of
\* credential_data nor of a private part of the wallet's key.
THEOREM RevealsNoMore == FormatsSpec => []RevealsSelectionOnly
<1>1. FormatsInv => RevealsSelectionOnly
  <2> SUFFICES ASSUME FormatsInv, pc = "presented", NEW n \in DOMAIN data \ IssuerNames(cred.format)
               PROVE  {c \in Learned : c[1] = n} =
                        IF \E part \in shown : ClaimOf(part)[1] = n THEN {DataClaim(n)} ELSE {}
    BY ClaimsAre DEF RevealsSelectionOnly, Presented, DataClaim
  <2>1. shown \subseteq cred.parts
    BY DEF FormatsInv
  <2>2. \A c \in PlainClaims(idx) : c[1] # n
    BY PlainClaimsAre DEF IssuerNames
  <2>3. \A c \in cred.claims : c[1] # n
    <3>1. CASE cred.format = "dc+sd-jwt"
      <4>1. n \notin IssuerNames("dc+sd-jwt") /\ cred.claims = RegisteredClaims \cup PlainClaims(idx)
        BY <3>1, ClaimsAre
      <4> QED BY <4>1, PayloadNames
    <3>2. CASE cred.format # "dc+sd-jwt"
      BY <3>2, ClaimsAre
    <3> QED BY <3>1, <3>2
  <2>4. ASSUME NEW part \in shown, ClaimOf(part)[1] = n PROVE ClaimOf(part) = DataClaim(n)
    <3>1. PICK m \in DOMAIN data : ClaimOf(part) = DataClaim(m)
      BY <2>1, <2>2, <2>4, ClaimsAre
    <3>2. m = n
      BY <2>4, <3>1 DEF DataClaim
    <3> QED BY <3>1, <3>2
  <2>5. {c \in Learned : c[1] = n} = {ClaimOf(part) : part \in {p \in shown : ClaimOf(p)[1] = n}}
    BY <2>3 DEF Learned
  <2> QED
    BY <2>4, <2>5
<1> QED
  BY <1>1, FormatsInductive, PTL

\* The status claim leads, in the list that packBitstring packs, to the status of
\* the credential's own record, for a list of any length in which any entries have
\* been revoked since.
THEOREM StatusIsFound == FormatsSpec => []StatusReadsBack
<1>1. FormatsInv => StatusReadsBack
  <2> SUFFICES ASSUME FormatsInv, pc = "presented",
                      NEW c \in Learned, c[1] = "status", c[2][1] = "map"
               PROVE  ReadStatus(packBitstring(list, Cardinality(DOMAIN list)), c[2][2]) = list[idx]
    BY DEF StatusReadsBack, Presented
  <2>1. \A d \in PlainClaims(idx) : d[1] = "status" => d = <<"status", <<"map", idx>>>>
    BY PlainClaimsAre
  <2>2. \A n \in DOMAIN data : DataClaim(n)[2][1] # "map"
    BY DEF DataClaim
  <2>3. c = <<"status", <<"map", idx>>>>
    <3>1. CASE c \in cred.claims
      <4>1. c \in RegisteredClaims \cup PlainClaims(idx)
        BY <3>1, ClaimsAre
      <4> QED BY <2>1, <4>1, PayloadNames
    <3>2. CASE \E part \in shown : c = ClaimOf(part)
      BY <2>1, <2>2, <3>2, ClaimsAre DEF FormatsInv
    <3> QED BY <3>1, <3>2 DEF Learned
  <2>4. PICK n \in Nat : list \in [0..(n - 1) -> {StatusValid, StatusInvalid}]
    BY DEF FormatsInv, ListInv
  <2>5. Cardinality(DOMAIN list) = n /\ idx \in 0..(n - 1)
    <3>1. Cardinality(0..(n - 1)) = n
      BY FS_Interval
    <3> QED BY <2>4, <3>1 DEF FormatsInv, CredentialInv
  <2>6. list \in [0..(n - 1) -> 0..3]
    BY <2>4 DEF StatusValid, StatusInvalid
  <2> QED
    BY <2>3, <2>5, <2>6, StatusSurvives
<1> QED
  BY <1>1, FormatsInductive, PTL
=============================================================================
