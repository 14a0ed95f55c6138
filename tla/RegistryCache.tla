---------------------------- MODULE RegistryCache ----------------------------
(***************************************************************************)
(* The start of the process (cmd/issuer/main.go), the attestation          *)
(* catalogue (internal/registryclient/cache.go, client.go) and the         *)
(* metadata document built from it                                         *)
(* (internal/httpapi/handlers.go: credentialIssuerMetadata, health).       *)
(*                                                                         *)
(* main loads the catalogue, the signing key and the record store, each    *)
(* fatal if it fails, and then listens.  From the first of them on, a      *)
(* goroutine refreshes the catalogue on every tick; a fetch that fails     *)
(* then is tolerated, and the goroutine dies with the process.  Metadata   *)
(* handlers look up one scheme at a time, so a refresh may fall between    *)
(* two lookups of one document.  The registry is not under src/; it is     *)
(* modelled by the sequence of catalogues it publishes.  The Client has no *)
(* timeout: a registry that accepts a request and never answers it is the  *)
(* constant RegistryHangs.                                                 *)
(***************************************************************************)
EXTENDS Naturals, Sequences

CONSTANTS IssuableSchemes,  \* cfg.IssuableSchemes, a sequence
          Readers,          \* GET /.well-known/openid-credential-issuer handlers
          MaxVersion,       \* bound on the catalogues the registry publishes
          RegistryHangs,    \* TRUE if a request may never be answered
          NoAnswer          \* no answer of the registry is on its way

Schemes == {IssuableSchemes[i] : i \in DOMAIN IssuableSchemes}

ASSUME IssuableAssumption == IssuableSchemes \in Seq(Schemes) /\ IssuableSchemes # <<>>
ASSUME RegistryAssumption ==
  /\ MaxVersion \in Nat \ {0}
  /\ RegistryHangs \in BOOLEAN

VARIABLES
  registry,     \* the catalogue published now: its version and its schemes
  byID,         \* Cache.byID (and defs): the catalogue installed, version 0 before any
  stale,        \* Cache.stale
  boot,         \* main: what it is loading, or "serving", or "exited"
  pc, resp,     \* the refresher: its control, and the answer on its way to it
  doc,          \* handlers: the lookups done, one [ver, found] per scheme so far
  rpc,          \* handlers: their control
  floor,        \* history: the catalogues seen in answers when it started
  shown,        \* history: the catalogues seen in answers so far
  always        \* history: the schemes that every catalogue so far had

procVars == <<byID, stale, boot, pc, resp>>
docVars  == <<doc, rpc, floor, shown>>
vars == <<registry, procVars, docVars, always>>

Versions   == 0..MaxVersion
Catalogues == [ver : Versions, has : SUBSET Schemes]
Lookups    == [ver : Versions, found : BOOLEAN]
NotLoaded  == [ver |-> 0, has |-> {}]

TypeOK ==
  /\ registry \in Catalogues
  /\ byID \in Catalogues
  /\ stale \in BOOLEAN
  /\ boot \in {"catalogue", "key", "store", "serving", "exited"}
  /\ pc \in {"none", "bootFetch", "waiting", "fetch", "failed", "hung"}
  /\ resp \in Catalogues \cup {NoAnswer}
  /\ doc \in [Readers -> Seq(Lookups)]
  /\ rpc \in [Readers -> {"idle", "lookup", "answered"}]
  /\ floor \in [Readers -> SUBSET Versions]
  /\ shown \subseteq Versions
  /\ always \subseteq Schemes

Init ==
  /\ registry \in [ver : {1}, has : SUBSET Schemes]
  /\ byID = NotLoaded
  /\ stale = FALSE
  /\ boot = "catalogue" /\ pc = "none" /\ resp = NoAnswer
  /\ doc = [r \in Readers |-> <<>>]
  /\ rpc = [r \in Readers |-> "idle"]
  /\ floor = [r \in Readers |-> {}]
  /\ shown = {}
  /\ always = registry.has

-----------------------------------------------------------------------------
(* main and the refresher.                                                 *)

\* log.Fatalf: the refresher ends too.
Exit == boot' = "exited" /\ pc' = "none" /\ resp' = NoAnswer

\* Start's blocking refresh, or the refresh of a tick: the request is sent.
SendRequest ==
  /\ \/ boot = "catalogue" /\ pc = "none" /\ pc' = "bootFetch"
     \/ pc = "waiting" /\ pc' = "fetch"
  /\ UNCHANGED <<registry, byID, stale, boot, resp, docVars, always>>

RegistryAnswers ==
  /\ pc \in {"bootFetch", "fetch"} /\ resp = NoAnswer
  /\ resp' = registry
  /\ UNCHANGED <<registry, byID, stale, boot, pc, docVars, always>>

\* refresh's success: the whole catalogue is replaced under the lock.
RefreshInstalls ==
  /\ pc \in {"bootFetch", "fetch"} /\ resp # NoAnswer
  /\ byID' = resp
  /\ stale' = FALSE
  /\ boot' = IF pc = "bootFetch" THEN "key" ELSE boot
  /\ pc' = "waiting" /\ resp' = NoAnswer
  /\ UNCHANGED <<registry, docVars, always>>

\* Variant: the catalogue is replaced before the error is looked at.
RefreshFails_Empties ==
  /\ pc \in {"bootFetch", "fetch"}
  /\ byID' = NotLoaded
  /\ \/ pc = "bootFetch" /\ Exit
     \/ pc = "fetch" /\ pc' = "failed" /\ resp' = NoAnswer /\ UNCHANGED boot
  /\ UNCHANGED <<registry, stale, docVars, always>>

\* refresh's error: fatal at boot, otherwise the catalogue stays.
RefreshFails ==
  /\ \/ pc = "bootFetch" /\ Exit
     \/ pc = "fetch" /\ pc' = "failed" /\ resp' = NoAnswer /\ UNCHANGED boot
  /\ UNCHANGED <<registry, byID, stale, docVars, always>>

\* Variant: the background loop returns on an error.
MarkStale_StopsLoop ==
  /\ pc = "failed"
  /\ stale' = TRUE
  /\ UNCHANGED <<registry, byID, boot, pc, resp, docVars, always>>

\* Back in the loop of Start, the failure is marked, in a critical section of
\* its own.
MarkStale ==
  /\ pc = "failed"
  /\ stale' = TRUE
  /\ pc' = "waiting"
  /\ UNCHANGED <<registry, byID, boot, resp, docVars, always>>

\* The registry took the request and never answers; http.Client has no timeout.
FetchHangs ==
  /\ RegistryHangs
  /\ pc \in {"bootFetch", "fetch"} /\ resp = NoAnswer
  /\ pc' = "hung"
  /\ UNCHANGED <<registry, byID, stale, boot, resp, docVars, always>>

\* The DSS and its certificate, or the PEM files, are there or not.
loadSigningKey ==
  /\ boot = "key"
  /\ (boot' = "store" /\ UNCHANGED <<pc, resp>>) \/ Exit
  /\ UNCHANGED <<registry, byID, stale, docVars, always>>

\* The database answers the ping and takes the schema, or does not; then main
\* listens.
loadIssuanceStore ==
  /\ boot = "store"
  /\ (boot' = "serving" /\ UNCHANGED <<pc, resp>>) \/ Exit
  /\ UNCHANGED <<registry, byID, stale, docVars, always>>

-----------------------------------------------------------------------------
(* The endpoints that read the cache: health and credentialIssuerMetadata. *)

health == IF stale THEN "degraded" ELSE "ok"

Serving == boot = "serving"

MetadataStart(r) ==
  /\ Serving
  /\ rpc[r] \in {"idle", "answered"}
  /\ rpc' = [rpc EXCEPT ![r] = "lookup"]
  /\ doc' = [doc EXCEPT ![r] = <<>>]
  /\ floor' = [floor EXCEPT ![r] = shown]
  /\ UNCHANGED <<registry, procVars, shown, always>>

\* Get of the next scheme: found, or skipped.
Get(r) ==
  /\ rpc[r] = "lookup"
  /\ Len(doc[r]) < Len(IssuableSchemes)
  /\ doc' = [doc EXCEPT ![r] = Append(@, [ver |-> byID.ver,
                 found |-> IssuableSchemes[Len(@) + 1] \in byID.has])]
  /\ UNCHANGED <<registry, procVars, rpc, floor, shown, always>>

MetadataAnswer(r) ==
  /\ rpc[r] = "lookup"
  /\ Len(doc[r]) = Len(IssuableSchemes)
  /\ rpc' = [rpc EXCEPT ![r] = "answered"]
  /\ shown' = shown \cup {doc[r][i].ver : i \in DOMAIN doc[r]}
  /\ UNCHANGED <<registry, procVars, doc, floor, always>>

-----------------------------------------------------------------------------
(* The environment.                                                        *)

RegistryPublish(has) ==
  /\ registry.ver < MaxVersion
  /\ registry' = [ver |-> registry.ver + 1, has |-> has]
  /\ always' = always \cap has
  /\ UNCHANGED <<procVars, docVars>>

\* The process is started again, after a crash or a failed boot.  Documents that
\* were answered stay with those who asked for them.
Restart ==
  LET answered == {r \in Readers : rpc[r] = "answered"} IN
  /\ boot' = "catalogue" /\ pc' = "none" /\ resp' = NoAnswer
  /\ byID' = NotLoaded
  /\ stale' = FALSE
  /\ doc' = [r \in Readers |-> IF r \in answered THEN doc[r] ELSE <<>>]
  /\ rpc' = [r \in Readers |-> IF r \in answered THEN "answered" ELSE "idle"]
  /\ UNCHANGED <<registry, floor, shown, always>>

-----------------------------------------------------------------------------
ProcessStep ==
  \/ SendRequest \/ RegistryAnswers \/ RefreshInstalls \/ RefreshFails \/ MarkStale
  \/ loadSigningKey \/ loadIssuanceStore

Next ==
  \/ ProcessStep
  \/ FetchHangs
  \/ \E r \in Readers : MetadataStart(r) \/ Get(r) \/ MetadataAnswer(r)
  \/ \E has \in SUBSET Schemes : RegistryPublish(has)
  \/ Restart

Spec == Init /\ [][Next]_vars

\* main goes on and the ticker keeps firing, the supervisor restarts a process
\* that exited, and the registry, the signing service and the database do not fail
\* every time for ever.
FairSpec ==
  /\ Spec
  /\ WF_vars(ProcessStep)
  /\ WF_vars(boot = "exited" /\ Restart)
  /\ SF_vars(RegistryAnswers)
  /\ SF_vars(RefreshInstalls)
  /\ SF_vars(loadSigningKey /\ boot' = "store")
  /\ SF_vars(loadIssuanceStore /\ boot' = "serving")

-----------------------------------------------------------------------------
(* Properties.                                                             *)

\* Metadata never goes back in time: a document requested after another one was
\* answered is made of catalogues at least as new as that one's, scheme by
\* scheme, across failed refreshes, refreshes in the middle of a document, and
\* restarts.
MetadataNeverGoesBack ==
  \A r \in Readers : \A i \in DOMAIN doc[r] : \A v \in floor[r] : doc[r][i].ver >= v

\* A scheme the registry has always listed is in every document: an outage, or
\* a refresh between two lookups, never drops a credential configuration.
OutageDropsNothing ==
  \A r \in Readers : \A i \in DOMAIN doc[r] :
    IssuableSchemes[i] \in always => doc[r][i].found

\* A catalogue the registry goes on publishing is served at last, although
\* attempts may fail and the process may exit or crash, unless a request of the
\* refresher is left without any answer.
CatchesUp ==
  (registry.ver = MaxVersion) ~> (Serving /\ byID.ver = MaxVersion) \/ pc = "hung"
=============================================================================
