------------------------- MODULE RegistryCacheProofs -------------------------
(***************************************************************************)
(* RegistryCache, for any schemes, handlers and number of catalogues:      *)
(* metadata never goes back and loses no scheme, whatever fails.           *)
(***************************************************************************)
EXTENDS RegistryCache, Integers, TLAPS

\* main has a catalogue, and the refresher runs.
Loaded == boot \in {"key", "store", "serving"}

\* The refresher runs its boot fetch, a later one, or none, as main demands.
BootInv ==
  /\ pc = "bootFetch" => boot = "catalogue"
  /\ pc \in {"waiting", "fetch", "failed"} => Loaded
  /\ resp # NoAnswer => pc \in {"bootFetch", "fetch"}
  /\ \A r \in Readers : rpc[r] = "lookup" => Serving

\* The catalogues follow each other: published, answered, installed, shown.
VersionInv ==
  /\ byID.ver <= registry.ver
  /\ resp # NoAnswer => byID.ver <= resp.ver /\ resp.ver <= registry.ver
  /\ \A v \in shown : v <= registry.ver
  /\ \A v \in shown : resp # NoAnswer => v <= resp.ver
  /\ \A v \in shown : Loaded => v <= byID.ver
  /\ \A r \in Readers : rpc[r] = "lookup" =>
       /\ floor[r] \subseteq shown
       /\ \A i \in DOMAIN doc[r] : doc[r][i].ver <= byID.ver

\* A scheme that was always listed is in every catalogue on its way.
SchemeInv ==
  /\ always \subseteq registry.has
  /\ resp # NoAnswer => always \subseteq resp.has
  /\ Loaded => always \subseteq byID.has
  /\ \A r \in Readers : Len(doc[r]) <= Len(IssuableSchemes)

IInv == TypeOK /\ BootInv /\ VersionInv /\ SchemeInv /\ MetadataNeverGoesBack /\ OutageDropsNothing

-----------------------------------------------------------------------------
USE DEF Serving

\* Versions are numbers, with 0 and 1 among them.
LEMMA Numbers == Versions \subseteq Nat /\ 0 \in Versions /\ 1 \in Versions
BY RegistryAssumption DEF Versions

\* What TypeOK says of the catalogues' versions.
LEMMA VersionTypes ==
  ASSUME TypeOK
  PROVE  /\ registry.ver \in Nat /\ byID.ver \in Nat
         /\ resp # NoAnswer => resp.ver \in Nat
         /\ byID.ver \in Versions
BY Numbers DEF TypeOK, Catalogues

LEMMA InitInv == Init => IInv
<1> SUFFICES ASSUME Init PROVE IInv
  OBVIOUS
<1>1. TypeOK
  <2>1. registry \in Catalogues /\ byID \in Catalogues
    BY Numbers DEF Init, NotLoaded, Catalogues
  <2>2. doc \in [Readers -> Seq(Lookups)] /\ floor \in [Readers -> SUBSET Versions] /\ shown \subseteq Versions
    BY DEF Init
  <2> QED
    BY <2>1, <2>2 DEF Init, TypeOK, Catalogues
<1>2. BootInv
  BY DEF Init, BootInv
<1>3. VersionInv /\ SchemeInv /\ MetadataNeverGoesBack /\ OutageDropsNothing
  BY IssuableAssumption DEF Init, VersionInv, SchemeInv, MetadataNeverGoesBack, OutageDropsNothing, NotLoaded, Loaded
<1> QED
  BY <1>1, <1>2, <1>3 DEF IInv

\* A lookup is a version and whether the scheme was found.
LEMMA DocTypes ==
  ASSUME TypeOK, NEW r \in Readers, NEW i \in DOMAIN doc[r]
  PROVE  doc[r][i] \in Lookups /\ doc[r][i].ver \in Versions /\ doc[r][i].ver \in Nat
<1>1. doc[r] \in Seq(Lookups)
  BY DEF TypeOK
<1>2. doc[r][i] \in Lookups
  BY <1>1
<1> QED
  BY <1>2, Numbers DEF Lookups

\* The steps of main, the refresher and the registry leave every document alone:
\* what they install, answer or publish decides.
LEMMA DocumentsStay ==
  ASSUME IInv, UNCHANGED docVars, always' \subseteq always
  PROVE  MetadataNeverGoesBack' /\ OutageDropsNothing'
BY DEF IInv, docVars, MetadataNeverGoesBack, OutageDropsNothing

LEMMA ProcessInv == IInv /\ (ProcessStep \/ FetchHangs) => IInv'
<1> SUFFICES ASSUME IInv, ProcessStep \/ FetchHangs PROVE IInv'
  OBVIOUS
<1>0. UNCHANGED docVars /\ always' = always /\ registry' = registry
  BY DEF ProcessStep, FetchHangs, SendRequest, RegistryAnswers, RefreshInstalls, RefreshFails, MarkStale,
         loadSigningKey, loadIssuanceStore
<1>1. MetadataNeverGoesBack' /\ OutageDropsNothing'
  BY <1>0, DocumentsStay
<1>2. CASE SendRequest
  BY <1>1, <1>2 DEF SendRequest, IInv, TypeOK, BootInv, VersionInv, SchemeInv, Loaded, docVars
<1>3. CASE RegistryAnswers
  BY <1>1, <1>3, VersionTypes DEF RegistryAnswers, IInv, TypeOK, BootInv, VersionInv, SchemeInv, Loaded, docVars
<1>4. CASE RefreshInstalls
  <2>1. TypeOK' /\ BootInv' /\ SchemeInv'
    BY <1>4 DEF RefreshInstalls, IInv, TypeOK, BootInv, SchemeInv, Loaded, docVars
  <2>2. byID.ver <= resp.ver /\ resp.ver <= registry.ver /\ byID' = resp /\ resp' = NoAnswer
    BY <1>4 DEF RefreshInstalls, IInv, VersionInv
  <2>3. byID.ver \in Int /\ resp.ver \in Int
    BY <1>4, VersionTypes DEF RefreshInstalls, IInv
  <2>4. ASSUME NEW r \in Readers, rpc[r] = "lookup", NEW i \in DOMAIN doc[r]
        PROVE  doc[r][i].ver <= resp.ver
    <3>1. doc[r][i].ver \in Int
      BY DocTypes DEF IInv
    <3> QED
      BY <2>2, <2>3, <2>4, <3>1 DEF IInv, VersionInv
  <2>5. VersionInv'
    BY <1>0, <1>4, <2>2, <2>4 DEF RefreshInstalls, IInv, VersionInv, docVars
  <2> QED
    BY <1>1, <2>1, <2>5 DEF IInv
<1>5. CASE RefreshFails
  BY <1>1, <1>5 DEF RefreshFails, Exit, IInv, TypeOK, BootInv, VersionInv, SchemeInv, Loaded, docVars
<1>6. CASE MarkStale
  BY <1>1, <1>6 DEF MarkStale, IInv, TypeOK, BootInv, VersionInv, SchemeInv, Loaded, docVars
<1>7. CASE loadSigningKey
  BY <1>1, <1>7 DEF loadSigningKey, Exit, IInv, TypeOK, BootInv, VersionInv, SchemeInv, Loaded, docVars
<1>8. CASE loadIssuanceStore
  BY <1>1, <1>8 DEF loadIssuanceStore, Exit, IInv, TypeOK, BootInv, VersionInv, SchemeInv, Loaded, docVars
<1>9. CASE FetchHangs
  BY <1>1, <1>9 DEF FetchHangs, IInv, TypeOK, BootInv, VersionInv, SchemeInv, Loaded, docVars
<1> QED
  BY <1>2, <1>3, <1>4, <1>5, <1>6, <1>7, <1>8, <1>9 DEF ProcessStep

LEMMA StartInv == ASSUME IInv, NEW r \in Readers, MetadataStart(r) PROVE IInv'
<1>1. TypeOK'
  BY DEF MetadataStart, procVars, IInv, TypeOK
<1>2. BootInv' /\ VersionInv' /\ SchemeInv'
  BY IssuableAssumption DEF MetadataStart, procVars, IInv, TypeOK, BootInv, VersionInv, SchemeInv, Loaded
<1>3. MetadataNeverGoesBack' /\ OutageDropsNothing'
  BY DEF MetadataStart, procVars, IInv, TypeOK, MetadataNeverGoesBack, OutageDropsNothing
<1> QED
  BY <1>1, <1>2, <1>3 DEF IInv

LEMMA GetInv == ASSUME IInv, NEW r \in Readers, Get(r) PROVE IInv'
<1> DEFINE next == Len(doc[r]) + 1
           look == [ver |-> byID.ver, found |-> IssuableSchemes[next] \in byID.has]
<1>1. Serving /\ doc[r] \in Seq(Lookups) /\ next \in DOMAIN IssuableSchemes
  BY IssuableAssumption DEF Get, IInv, TypeOK, BootInv
<1>2. look \in Lookups
  BY VersionTypes DEF IInv, Lookups
<1>3. /\ doc' = [doc EXCEPT ![r] = Append(doc[r], look)]
      /\ UNCHANGED <<registry, procVars, rpc, floor, shown, always>>
      /\ rpc[r] = "lookup" /\ Len(doc[r]) < Len(IssuableSchemes)
  BY DEF Get
<1>4. /\ doc'[r] = Append(doc[r], look) /\ Len(doc'[r]) = next
      /\ doc'[r] \in Seq(Lookups)
      /\ \A q \in Readers \ {r} : doc'[q] = doc[q]
  BY <1>1, <1>2, <1>3 DEF IInv, TypeOK
<1>5. ASSUME NEW i \in DOMAIN doc'[r]
      PROVE  \/ i \in DOMAIN doc[r] /\ doc'[r][i] = doc[r][i]
             \/ i = next /\ doc'[r][i] = look
  BY <1>1, <1>2, <1>4
<1>6. TypeOK'
  BY <1>3, <1>4 DEF IInv, TypeOK, procVars
<1>7. BootInv'
  BY <1>3 DEF IInv, BootInv, Loaded, procVars
<1>8. VersionInv'
  <2>1. \A i \in DOMAIN doc'[r] : doc'[r][i].ver <= byID.ver
    BY <1>3, <1>5, VersionTypes DEF IInv, VersionInv
  <2> QED
    BY <1>3, <1>4, <2>1 DEF IInv, VersionInv, Loaded, procVars
<1>9. SchemeInv'
  BY <1>1, <1>3, <1>4, IssuableAssumption DEF IInv, TypeOK, SchemeInv, Loaded, procVars
<1>10. MetadataNeverGoesBack'
  <2>1. \A v \in floor[r] : v <= byID.ver
    BY <1>1, <1>3 DEF IInv, VersionInv, Loaded
  <2>2. \A i \in DOMAIN doc'[r] : \A v \in floor[r] : doc'[r][i].ver >= v
    <3> SUFFICES ASSUME NEW i \in DOMAIN doc'[r], NEW v \in floor[r] PROVE doc'[r][i].ver >= v
      OBVIOUS
    <3>1. v \in Nat
      BY Numbers DEF IInv, TypeOK
    <3>2. CASE i \in DOMAIN doc[r] /\ doc'[r][i] = doc[r][i]
      BY <3>2 DEF IInv, MetadataNeverGoesBack
    <3>3. CASE i = next /\ doc'[r][i] = look
      BY <2>1, <3>1, <3>3, VersionTypes DEF IInv
    <3> QED
      BY <1>5, <3>2, <3>3
  <2> QED
    BY <1>3, <1>4, <2>2 DEF IInv, MetadataNeverGoesBack
<1>11. OutageDropsNothing'
  <2>1. \A i \in DOMAIN doc'[r] : IssuableSchemes[i] \in always => doc'[r][i].found
    <3> SUFFICES ASSUME NEW i \in DOMAIN doc'[r], IssuableSchemes[i] \in always PROVE doc'[r][i].found
      OBVIOUS
    <3>1. CASE i \in DOMAIN doc[r] /\ doc'[r][i] = doc[r][i]
      BY <3>1 DEF IInv, OutageDropsNothing
    <3>2. CASE i = next /\ doc'[r][i] = look
      <4>1. (IssuableSchemes[next] \in byID.has) = TRUE
        BY <1>1, <3>2 DEF IInv, SchemeInv, Loaded
      <4>2. look.found = (IssuableSchemes[next] \in byID.has)
        OBVIOUS
      <4> HIDE DEF look, next
      <4>3. doc'[r][i].found = look.found
        BY <3>2
      <4> QED
        BY <4>1, <4>2, <4>3, Zenon
    <3> QED
      BY <1>5, <3>1, <3>2
  <2> QED
    BY <1>3, <1>4, <2>1 DEF IInv, OutageDropsNothing
<1> QED
  BY <1>6, <1>7, <1>8, <1>9, <1>10, <1>11 DEF IInv

LEMMA AnswerInv == ASSUME IInv, NEW r \in Readers, MetadataAnswer(r) PROVE IInv'
<1>1. Serving /\ rpc[r] = "lookup" /\ \A i \in DOMAIN doc[r] : doc[r][i].ver <= byID.ver
  BY DEF MetadataAnswer, IInv, BootInv, VersionInv
<1>2. \A i \in DOMAIN doc[r] : doc[r][i].ver \in Versions
  BY DocTypes DEF IInv
<1>3. \A v \in shown' : v \in Versions /\ (v \in shown \/ v <= byID.ver)
  BY <1>1, <1>2 DEF MetadataAnswer, IInv, TypeOK
<1>4. TypeOK'
  BY <1>3 DEF MetadataAnswer, procVars, IInv, TypeOK
<1>5. BootInv' /\ SchemeInv'
  BY DEF MetadataAnswer, procVars, IInv, TypeOK, BootInv, SchemeInv, Loaded
<1>6. VersionInv'
  <2>1. \A v \in shown' : v <= byID.ver
    BY <1>1, <1>3 DEF IInv, VersionInv, Loaded
  <2>2. \A v \in shown' : v <= registry.ver /\ (resp # NoAnswer => v <= resp.ver)
    <3>1. /\ byID.ver <= registry.ver /\ byID.ver \in Nat /\ registry.ver \in Nat
          /\ resp # NoAnswer => byID.ver <= resp.ver /\ resp.ver \in Nat
      BY VersionTypes DEF IInv, VersionInv
    <3>2. \A v \in shown' : v \in Nat
      BY <1>3, Numbers
    <3> QED
      BY <2>1, <3>1, <3>2
  <2> QED
    BY <2>1, <2>2 DEF MetadataAnswer, procVars, IInv, TypeOK, VersionInv, Loaded
<1>7. MetadataNeverGoesBack' /\ OutageDropsNothing'
  BY DEF MetadataAnswer, IInv, MetadataNeverGoesBack, OutageDropsNothing
<1> QED
  BY <1>4, <1>5, <1>6, <1>7 DEF IInv

LEMMA PublishInv == ASSUME IInv, NEW has \in SUBSET Schemes, RegistryPublish(has) PROVE IInv'
<1>1. MetadataNeverGoesBack' /\ OutageDropsNothing'
  BY DocumentsStay DEF RegistryPublish
<1>2. TypeOK' /\ registry'.ver = registry.ver + 1 /\ registry.ver \in Nat
  <2>1. registry.ver \in Versions /\ registry.ver < MaxVersion /\ registry' = [ver |-> registry.ver + 1, has |-> has]
    BY DEF RegistryPublish, IInv, TypeOK, Catalogues
  <2>2. registry.ver \in Nat /\ registry.ver + 1 \in Versions
    BY <2>1, RegistryAssumption DEF Versions
  <2>3. registry' \in Catalogues
    BY <2>1, <2>2 DEF Catalogues
  <2> QED
    BY <2>1, <2>2, <2>3 DEF RegistryPublish, procVars, docVars, IInv, TypeOK
<1>3. BootInv' /\ SchemeInv'
  BY DEF RegistryPublish, procVars, docVars, IInv, TypeOK, BootInv, SchemeInv, Loaded
<1>4. VersionInv'
  <2>1. \A v \in shown : v \in Nat
    BY Numbers DEF IInv, TypeOK
  <2> QED
    BY <1>2, <2>1, VersionTypes DEF RegistryPublish, procVars, docVars, IInv, VersionInv, Loaded
<1> QED
  BY <1>1, <1>2, <1>3, <1>4 DEF IInv

LEMMA RestartInv == ASSUME IInv, Restart PROVE IInv'
<1>1. /\ \A r \in Readers : doc'[r] \in {doc[r], <<>>} /\ rpc'[r] \in {"idle", "answered"}
      /\ doc' \in [Readers -> Seq(Lookups)]
      /\ rpc' \in [Readers -> {"idle", "lookup", "answered"}]
  <2>1. \A r \in Readers : doc[r] \in Seq(Lookups) /\ <<>> \in Seq(Lookups)
    BY DEF IInv, TypeOK
  <2>2. doc' \in [Readers -> Seq(Lookups)]
    BY <2>1 DEF Restart
  <2>3. \A r \in Readers : doc'[r] \in {doc[r], <<>>} /\ rpc'[r] \in {"idle", "answered"}
    BY DEF Restart
  <2> QED
    BY <2>2, <2>3 DEF Restart
<1>2. TypeOK'
  <2>1. byID' \in Catalogues
    BY Numbers DEF Restart, NotLoaded, Catalogues
  <2> QED
    BY <1>1, <2>1 DEF Restart, IInv, TypeOK
<1>3. BootInv' /\ VersionInv'
  BY <1>1, VersionTypes DEF Restart, NotLoaded, IInv, BootInv, VersionInv, Loaded
<1>4. SchemeInv'
  BY <1>1, IssuableAssumption DEF Restart, NotLoaded, IInv, TypeOK, SchemeInv, Loaded
<1>5. MetadataNeverGoesBack' /\ OutageDropsNothing'
  BY <1>1 DEF Restart, IInv, MetadataNeverGoesBack, OutageDropsNothing
<1> QED
  BY <1>2, <1>3, <1>4, <1>5 DEF IInv

LEMMA StepInv == IInv /\ [Next]_vars => IInv'
<1> SUFFICES ASSUME IInv, [Next]_vars PROVE IInv'
  OBVIOUS
<1>1. CASE ProcessStep \/ FetchHangs
  BY <1>1, ProcessInv
<1>2. ASSUME NEW r \in Readers, MetadataStart(r) \/ Get(r) \/ MetadataAnswer(r) PROVE IInv'
  BY <1>2, StartInv, GetInv, AnswerInv
<1>3. ASSUME NEW has \in SUBSET Schemes, RegistryPublish(has) PROVE IInv'
  BY <1>3, PublishInv
<1>4. CASE Restart
  BY <1>4, RestartInv
<1>5. CASE UNCHANGED vars
  BY <1>5 DEF vars, procVars, docVars, IInv, TypeOK, BootInv, VersionInv, SchemeInv, Loaded,
              MetadataNeverGoesBack, OutageDropsNothing
<1> QED
  BY <1>1, <1>2, <1>3, <1>4, <1>5 DEF Next

\* The inductive invariant of the start, the refresher and the metadata handlers
\* (cmd/issuer/main.go, registryclient/cache.go) holds throughout.
THEOREM Inductive == Spec => []IInv
  BY InitInv, StepInv, PTL DEF Spec

\* However refreshes, lookups, failures and restarts interleave, metadata never
\* goes back in time: credentialIssuerMetadata reads the cache scheme by scheme.
THEOREM NeverBack == Spec => []MetadataNeverGoesBack
  BY Inductive, PTL DEF IInv

\* A scheme the registry has always listed is in every metadata document, for a
\* failed refresh leaves the catalogue alone and none is served before the first.
THEOREM NothingDropped == Spec => []OutageDropsNothing
  BY Inductive, PTL DEF IInv
=============================================================================
