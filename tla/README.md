# TLA+ models of fikua-lab-issuer

fikua-lab-issuer is an OID4VCI credential issuer written in Go: it creates issuance records and
credential offers, issues PID credentials as SD-JWT VC and mdoc, and publishes their revocation in
an IETF Token Status List. The OAuth2 flow belongs to a separate authorization server (AS), the
credential definitions to an attestation registry, and durable state to PostgreSQL. This directory
holds TLA+ models of the issuer, TLC configurations that check them on small instances, and TLAPS
proofs of the properties that matter most for instances of any size. `PROJECT.json` maps every
definition to the lines it models and lists runs, hazards, findings and theorems.

To repeat a run: `tlc -workers 2 -config <cfg> <module>`; to repeat a proof: `tlapm <module>Proofs.tla`.

## 1. Inventory of the system

| Component (source) | State it keeps | Operations | Used by / talks to |
|---|---|---|---|
| status list store, in memory (`issuance/store.go`) | `statusNextIdx`, `statusByIdx`, `statusByRecID` | AllocateIdx, SetStatus, FindByRecordID, AllEntries | issuance service |
| status list store, Postgres (`issuance/postgres_store.go`, `db/schema.sql`) | tables `status_list_entries`, `status_list_seq` | the same, AllocateIdx as one transaction | issuance service; PostgreSQL |
| record store (`store.go`, `postgres_store.go`) | `issuance_records` | Create, FindByID, FindByIssuerState, UpdateStatus, UpdateIssuerState, FindAll | issuance service |
| session store (`session/store.go`) | nonces, credential offers; in memory only | RegisterNonce, ValidateNonce, InvalidateNonce, StoreCredentialOffer, GetCredentialOffer | issuance service |
| issuance service (`issuance/service.go`, `httpapi/issuance_handlers.go`) | status token cache and its mutex | TriggerIssuance, GenerateNonce, IssueCredential, GetStatusListToken, RevokeCredential | all stores, verifier, DPoP, builders, signing key |
| access token verifier (`accesstoken/verifier.go`) | JWK Set and denylist caches, one mutex | Verify | AS over HTTP |
| DPoP validation (`oauth2/dpop.go`) | jti store with a cap | ValidateDPoPProof, Accept | credential and nonce endpoints |
| request validation (`httpapi/issuance_handlers.go`, `issuance/service.go`, `oid4vci/proof.go`, `request.go`) | none of its own: jti store, nonces | the checks of `/nonce` and `/credential` in their order | verifier, DPoP, session store |
| catalogue cache (`registryclient`) | last good catalogue, stale flag | Start, refresh, Get, Stale | registry over HTTP; metadata and health endpoints |
| credential builders (`sdjwt`, `mdoc`) | none | Build | signing key, holder's wallet |
| status list encoding (`statuslist`) | none | packBitstring, Build | relying parties |
| listing (`issuance/list.go`) and records table (`web/static/app.js`, S6) | the page on screen | list, page, sort, revoke | record and status stores |
| issuance form (`web/static/app.js`, S3 to S5) | metadata copy, step, selection, a submission under way | select, back, submit, show the offer | metadata endpoint, TriggerIssuance |
| credential configurations (`credentialconfig`) | none | Build | metadata endpoint, issuance form, wallets |
| process start (`cmd/issuer/main.go`, `config`) | what has been loaded | catalogue, signing key, store, listen; each fatal | registry, DSS or PEM files, PostgreSQL |
| signing keys (`crypto`), OAuth errors, CORS, API docs | none that changes | | |

**How they interact.** An operator's `POST /issuance` creates a record, links a random
`issuer_state` to it, stores an offer and marks the record, in separate store calls. The wallet
resolves the offer; the AS asks for the record of the `issuer_state` and puts its id into an access
token together with a `c_nonce`. `POST /credential` verifies that token (caches, possibly two
fetches), a DPoP proof (jti store), the body, the key proof and its nonce (session store), then
looks the record up, allocates a status index, builds and signs, and marks the record. Relying
parties fetch the status list token, which is cached; revocation writes the store and clears the
cache. The metadata document is made from the catalogue when it is asked for; the issuance page and
the wallets work with the copies they got.

**What is hard about it.** Go serves every request in a goroutine of its own, so all of the above
interleaves. Mutexes are held across network calls (token cache, verifier). Postgres calls may
fail, or take effect and lose their answer; several store methods swallow errors, so that a failed
query is taken for an empty answer. The session store
and the jti store are lost on restart while records, entries and access tokens survive it. Three
caches may serve outdated answers. The list in `PROJECT.json` ("hazards") names each of these at
the line where it bites.

**What makes each component correct.**
- Status list stores: an index belongs to one record for ever, no index leaks, a returned index is
  durable, a revoked entry is never valid again, concurrent calls do not block each other for ever.
- Token cache: a revocation that was reported is never hidden; one that was committed but not
  reported is hidden for a bounded time only; nobody waits for ever on the mutex.
- Issuance: a nonce is used once, a delivered credential carries the index that revokes it, can be
  revoked, and a retry succeeds whatever failed before; a record's status never moves back.
- Verifier: bounded staleness of keys and denylist, a refusal is final, every call returns.
- Requests: bounded memory for jtis and no replay while one is remembered; a request is admitted only
  if token, DPoP proof, key proof and nonce belong together; a nonce is spent by a request that
  passed all of these checks and by no other (the checks of the record, `service.go:240`, come after
  it, and a request they refuse has spent its nonce).
- Catalogue cache and start: metadata never goes back or loses a scheme because of an outage, and the
  newest catalogue is served at last whatever failed on the way.
- Configurations and form: a record holds the data of the form it was made from, the offer on the
  screen is the last one, and a credential has the format that the metadata announced.
- Formats: whatever a holder selects verifies, unless `credential_data` uses a name of the SD-JWT
  payload; it reveals that and nothing else, and leads a relying party to the right status.
- Listing: walking through pages whose rows could be read misses no record, and an issued row shows
  its status unless it is older than the status list or the lookup failed.

## 2. Modules

| Module | Models | State and actions against the code |
|---|---|---|
| `StatusListStore` | the in-memory store; also the abstract specification of the `StatusListStore` interface | the three fields of `Store`; `AllocateIdx`, `SetStatus` as atomic operations (each holds `statusMu`) |
| `PostgresStatusStore` | `AllocateIdx` statement by statement | committed tables, row lock of `status_list_seq`, one control state per statement; failing statements, lost commit answers, crashes; refines `StatusListStore` |
| `StatusListToken` | `GetStatusListToken`, `RevokeCredential` | cache, mutex, each handler's control; uses `StatusListStore`'s operations; clock ticks, restarts |
| `Issuance` | `TriggerIssuance`, `GenerateNonce`, `IssueCredential`, revocation | record table, session store, handlers step by step; composes `StatusListStore`; `DBFaults` lets any query fail, the AS's lookup of the `issuer_state` included |
| `AccessTokenVerifier` | `Verify` with both caches | mutex, fetch = request, answer composed, answer arrives; key rotation, revocation, outages; no token of the model expires, so the AS never drops a jti from its denylist as `verifier.go:82` lets it do for expired ones |
| `DPoPReplay` | `ValidateDPoPProof`, `JTIStore.Accept` | set of remembered jtis, iat window, htu, ath, order of the checks |
| `CredentialRequest` | the handlers of `/nonce` and `/credential` up to the record lookup, with the key proof | extends `DPoPReplay`; one control state per step that touches shared state; any message may arrive any number of times, at concurrent handlers |
| `RegistryCache` | `main`, `Cache`, `Client`, metadata and health handlers | what `main` has loaded, catalogue, stale flag, the one refresher, readers that look schemes up one at a time |
| `CredentialConfig` | `credentialconfig.Build` and the fields of the form | pure operators over scheme definitions; an identifier is a sequence of parts, to which `configurationID` appends, so that two may coincide as the strings may |
| `CredentialTypes` | metadata document, issuance form, `TriggerIssuance`, the choice of format and type in `IssueCredential` | uses `CredentialConfig`; installed catalogue, the copies of page and wallet, the page's step and selection, submissions under way, records |
| `CredentialFormats` | SD-JWT and mdoc encodings, `packBitstring`, the COSE signature bytes | pure operators around a small issue–present–revoke state machine; holder and relying party are external |
| `IssuanceList` | `ListIssuanceRecords`, `FindAll`, the records table of the UI | count, page and labels as separate queries, each of which may fail unnoticed, while records are created, issued and revoked; records from before the status list have no entry |
| `MC…` | instances for TLC: values of structured constants and symmetry | |
| `…Proofs` | theorems of the component | `IssuanceProofs` has those of `StatusListStore` too, for the instance `SL` that `Issuance` uses, `CredentialRequestProofs` those of `DPoPReplay`, which `CredentialRequest` extends, and `CredentialProofs` those of both `CredentialTypes` and `CredentialFormats` (whose specification is named `FormatsSpec` for that reason) |

Common abstractions. A random token (record id, `issuer_state`, offer id, nonce) is a model value,
distinct by construction. A signature, a JWT or a digest is what it covers. The two halves of
`IssueCredential` are modelled separately: `CredentialRequest` has the checks, up to the nonce, and
`Issuance` the steps after them, with the checks as one step that succeeds or fails
(`VerifyRequest`, `RequestFails`). In `CredentialRequest` the outcome of `Verify` is free, since
`AccessTokenVerifier` decides it, and so are the claims of each token. Time is discrete, and an expiry is the time
left to it, so no clock grows. Definitions named `X_Something` are variants of `X` with a plausible
mistake; no specification uses them. They exist to confirm that each property notices the mistake.

All models assume the durable (Postgres) stores wherever a restart is involved; `main.go` falls back
to the in-memory stores without a `FIKUA_DB_URL`, and then a restart loses records and entries too.

## 3. Runs

| Run (cfg) | Bounds | States | What it shows |
|---|---|---|---|
| `postgres_store` | 2 records, 2 concurrent calls, faults and crashes | 17,976 | row lock protocol (`LockInv`), durable (`HandedIdxIsDurable`) and dense (`NoIdxLeaked`) indices, refinement of the in-memory store, permanence of entries, every call returns |
| `postgres_store_concurrent` | 2 calls, no faults | violation | see finding 1 |
| `status_list_token` | 1 record, 2 getters, 1 revoker, TTL 2, signing up to 1 | 21,962 | a reported revocation is visible (`RevocationVisible`), an unreported one within TTL + signing time (`StalenessBounded`), getters and revokers are answered |
| `access_token` | 2 calls, 1 key rotated, key TTL 2, denylist TTL 1, timeout 1 | 49,535 | `RefusalIsFinal`, `RevocationBounded`, `StaleKeysOnlyInOutage`, `VerifyReturns` |
| `issuance` | 2 triggers, 2 tokens, 1 nonce, 2 requests, 1 restart | 332,150 | single use of nonces, the delivered index is the entry, delivered credentials are revocable, tokens have records, no status regression |
| `issuance_faults` | 1 trigger, 1 token, 1 nonce, 2 requests, any query may fail, 1 restart | 16,606 | a wallet that retries gets its credential |
| `issuance_mark_fails` | 1 trigger, 1 request, faults | violation | see finding 2 |
| `credential_request` | 12 requests, 2 handlers, 4 DPoP proofs over 3 jtis, cap 2, windows 1, 2 access tokens, 1 nonce | 1,001,144 | `SizeBounded`, `NoReplayWhileRemembered`, `LatestRemembered` under concurrent requests; `IssuedToHolder`, `NonceSpentOnAdmission` |
| `registry_cache` | 2 readers, 2 schemes, 2 catalogues, hangs possible | 159,464 | metadata never goes back or loses a scheme; the process comes up and catches up |
| `credential_formats` | 3 claim names (`issuing_country`, which the issuer adds in both formats, `sub`, which it adds to an SD-JWT only, and `birth_date`), 2 values, 1 holder key sent with its private part, signatures of 2 digits to base 4, 5 list entries | 2,111,562 | exactly which selections verify; each reveals itself only, and no private key; the status read back is the record's own |
| `issuance_list` | page size 2, 4 records of which 1 is older than the status list, 3 pages, any query and any request may fail | 4,040,469 | no record is skipped, "Next" finds rows, issued rows have a status, up to the queries that failed |
| `credential_types` | 2 schemes in 2 editions, 2 submissions | 671,895 | `RecordOfOneForm`, `ResultIsLastSubmission`, `FormatAsAdvertised` |

**Why the bounds are enough.** The races are between two handlers and one shared object, so two
handlers per kind meet every interleaving of a pair; the safety of every component
is moreover proved for any number (section 5). Two records
tell "the same index" from "another index". A TTL of 2 with a signing time or timeout of 1 lets an
answer be older than, as old as and younger than an expiry. A cap of 2 with three jtis reaches and
passes the cap; the twelve requests include ones refused for their scheme, number of DPoP headers, ath,
bound key, configuration, key references, audience, nonce, replay and age, and combinations of parts
that belong to different wallets.
Two signature digits give numbers with and without a leading zero. The second edition of the PID
drops a format, adds a claim and changes a type identifier, so that copies of the metadata become
obsolete in each of these ways; that of the other scheme has a format the issuer does not know. Five list entries cross a byte boundary (four to a byte). Four records
and pages of two give an empty, a partial and an exactly full last page, and one page past the end;
one older record tells a missing entry from a failed lookup.
In `issuance` every record has credential data; one without is refused by `FindRecord`
after its nonce was spent and before an index is allocated, like a token without a record. The token
of `access_token` passes every check of its own, so that only keys, denylist and faults decide.

`CHECK_DEADLOCK FALSE` appears where the system may stop because a bound is used up: all triggers
and restarts are spent and all tokens are revoked or answered (`Issuance`), or the credential is
presented and every entry revoked (`CredentialFormats`).

**Fairness.** Weak fairness of a handler's own steps: a goroutine that can run does. Strong
fairness of taking a lock: `sync.Mutex` hands itself to a waiter that has starved for 1 ms, and
PostgreSQL queues waiters of a row lock in order. A fetch of the verifier ends because its client
has a 10 s timeout. In `RegistryCache` `main` goes on and the ticker keeps firing, the registry, the
signing service and the database do not fail every attempt for ever, and a process that exits is
started again (`restart: unless-stopped` in `compose.yaml`); `FetchHangs` is not excluded by
fairness, because that client has no timeout. `RetrySucceeds` assumes a wallet that keeps trying
with its token's `c_nonce`, and that the AS, the database and the signer do not fail every one of
its attempts.

## 4. Findings and observations

1. *Concurrent requests for one record* (`postgres_store.go:164`). Two AllocateIdx calls for the
   same record can both pass the SELECT; the second then fails on the unique index and its
   `/credential` request is refused, where the comment promises that the existing idx is reused. No
   harm is done to the list, and a retry succeeds (`RetrySucceeds`).
2. *A delivered credential that cannot be revoked* (`service.go:265`). UpdateStatus swallows a
   database error; the credential is delivered, the record still says `offer_created`, and
   RevokeCredential refuses it.

Further observations made while modelling, without a run of their own:
- a failed listing looks like an empty one (`postgres_store.go:100`): FindAll returns no rows and a
  total of 0 if its count fails, no rows if the SELECT or a Scan fails, and the rows so far if the
  connection breaks, since `rows.Err` is not asked. The answer is a 200 in each case, and the page
  says 'No issuance records' (`app.js:301`) or shows a page that lacks some. `FindAllCount` and
  `FindAllRows` have these outcomes, and the properties of the listing say what holds besides;
- a failed lookup looks like a credential without a status (`postgres_store.go:192`): an issued row may
  come without its status and its Revoke button, where `list.go:17` says that this means a draft or a
  credential from before the status list;
- the type of a credential is hardcoded (`service.go:45`): the metadata announces the registry's type
  identifier (`builder.go:120`), IssueCredential uses constants, and nothing compares them, so a
  refresh of the catalogue can make them differ, where the repository's `README.md:7` says that scheme
  definitions are fetched "instead of hardcoding them". `FormatAsAdvertised` is about the format only;
- the registry client has no timeout (`registryclient/client.go:21`): one request that is never
  answered ends all refreshes, and `/health` goes on saying `ok`, since that attempt never fails;
  `CatchesUp` makes this one exception;
- the default `FIKUA_ISSUABLE_SCHEMES` advertises `urn:fikua:padro:barcelona:1`, which
  IssueCredential always refuses (`config.go:67`, `service.go:223`): the page makes records and
  offers for it that no wallet can redeem, and config.go:22 calls the list "what this issuer has
  actually decided to issue";
- a record made for one format may be requested in the other: the record's `credential_type` is not
  looked at (`service.go:256`), and its data then has the claims of the other format's form;
- a format other than the two known ones is advertised under the SD-JWT's id, with an empty
  `format` (`builder.go:96`); `FormatAsAdvertised` leaves such a configuration out;
- identifiers are made by concatenation (`builder.go:96`): a scheme named `urn:eudi:pid:1.mdoc` would
  overwrite the mdoc configuration of the PID, which is why `AsAdvertised` excludes that name;
- `builder.go:75` says the credential "is built with its full claim set regardless"; it is built from
  the data of the form alone. `builder.go:49` and `54` say the UI uses `mandatory` and `is_date`;
  `app.js:164` guesses dates from names and marks every field required;
- while a submission is under way the operator can open another form; the answer then replaces that
  form by the result (`app.js:232`), which is the right offer all the same
  (`ResultIsLastSubmission`);
- the certificate is never compared with the key it accompanies (`keyloader.go:68`,
  `signingkey.go:73`);
- the denylist a decision rests on may be `revokedCacheTTL` plus one fetch old, since the lifetime
  starts when the answer arrives (`verifier.go:242`); `RevocationBounded` states the exact bound;
- in the same way the comment on `statusListCacheTTL` (`service.go:31`) leaves out the time that
  signing takes, which `StalenessBounded` adds: the token shows the list as loaded before it;
- a failed INSERT in Create is answered with a success, an empty `issuance_id` and an offer without
  a record (`service.go:130`); the token made from it is refused later, and so is one that the AS
  made while the lookup of its `issuer_state` failed, which looks like an unknown one;
- a request whose signature fails leaves an `offer_created` record with a status entry, which the
  schema's comment says draft records never have (`service.go:249`, `schema.sql:36`); the retry
  reuses the entry;
- nothing keeps `credential_data` from using a name that the SD-JWT payload has too: the registered
  claims of `sdjwt/builder.go:83` (`iss`, `iat`, `exp`, `vct`, `sub`, `cnf`, `_sd`, `_sd_alg`) and those
  of `service.go:397` (`issuing_authority`, `issuing_country`, `status`). A verifier has to refuse the
  disclosure of such a claim; `SelectionVerifies` says that it refuses those and no others;
- "Next" has no bound of its own: after a page failed to load it may lead past the end
  (`app.js:349`), and two loads under way at once may be rendered in the wrong order;
- neither store breaks ties (`store.go:145`, `postgres_store.go:104`): pages sorted by status or type
  may repeat or miss records.

## 5. Theorems

| Theorem | Statement | Argument |
|---|---|---|
| `IssuanceProofs` `StoreTypeCorrect`, `IndexOwnership`, `StorePermanence` | of `StatusListStore`: maps total on the allocated indices; one record per index; indices and revocations are for ever | `TypeOK` is inductive; ownership needs it to know that the fresh index is nobody's |
| `PostgresStatusStoreProofs` `TypeCorrect`, `LockCorrect`, `Durability`, `Density` | `[]TypeOK`, `[]LockInv`, `[]HandedIdxIsDurable`, `[]NoIdxLeaked` | `IInv` = `TypeOK`, `LockInv`, `HandedIdxIsDurable` together |
| `… Refinement`, `Permanence` | `Spec` implements `StatusListStore`; `EntriesPersist` | commits map to AllocateIdx, SetStatus to SetStatus, all other steps to stuttering; permanence follows from the abstract steps |
| `IssuanceProofs` `TypeCorrect`, `NonceOnce`, `Forward` | `[]TypeOK`, `[]NonceSingleUse`, `StatusNeverRegresses`, with or without faults | `IInv` adds `TriggerInv` (until a trigger has answered, its record is at most `pending` and no token leads to it) and `NonceInv` (an unused nonce has let nothing through) |
| `… UsesStore`, `EntriesForGood`, `IndexOfCredential` | `Spec` implements `StatusListStore`; hence entries are for ever, and `[]DeliveredIdxIsEntry` | every step is a step of the store or leaves it alone; `RequestInv` and `DeliveredInv`: the index a request or a credential holds is its record's entry |
| `… RevocableAlways`, `TokensLead` | if `~DBFaults`, `[]DeliveredIsRevocable` and `[]TokenHasRecord` | `FaultFreeInv`: without failing queries the record exists before its offer, and is marked before the answer |
| `StatusListTokenProofs` `TypeCorrect`, `CacheCorrect`, `RevocationVisibleAlways` | `[]TypeOK`, `[]CacheInv`, `[]RevocationVisible` | `CacheInv` strengthens visibility to the cache and to the token being signed |
| `… StaleForABoundedTime` | `StalenessBounded`, for any lifetime and signing time | `AgeInv`: what the token being signed misses is no older than its rebuild, and what the cached one misses no older than its entry in the cache and one rebuild |
| `… UsesStore`, `EntriesForGood` | `Spec` implements `StatusListStore`, and entries are for ever | `RevokeSet` is a SetStatus of a known record, `IssueAllocate` an AllocateIdx, all other steps leave the store alone |
| `AccessTokenVerifierProofs` `RefusalForGood`, `KeysRecent`, `RevocationTakesEffect` | `[]RefusalIsFinal`, `[]StaleKeysOnlyInOutage`, `RevocationBounded`, for any tokens, keys, calls, lifetimes and timeout | `IInv` adds `MutexInv` (one call fetches at a time), `ASInv` (what is still published has not been gone for any time), `DenylistInv` (what was refused is in the denylist, while it is fresh, and in an answer on its way) and `AgeInv` (what an answer or a cache misses, it has missed for a bounded time) |
| `CredentialRequestProofs` `StoreBounded`, `NoReplay`, `LastIsRemembered` | the invariants of `DPoPReplay`, for every cap, eviction count and set of proofs | `IInv` adds that a forgotten jti has a count of 0 |
| `CredentialRequestProofs` `RequestRefines`, `RequestReplay` | `RequestSpec` implements `DPoPReplay`, hence its three invariants | every step of a handler is a step of `DPoPReplay` or leaves its variables alone |
| `… RequestHolder`, `RequestNonces` | `[]IssuedToHolder` and `NonceSpentOnAdmission`, for any messages, tokens and handlers | the invariant records what each control state has already checked of its request, and that nonces in key proofs were shown |
| `IssuanceListProofs` `NothingSkipped`, `NextHasRows`, `IssuedShowsStatus` | `[]NoRecordSkipped`, `[]PageExists`, `[]IssuedRowHasStatus`, for any page size and numbers of records, older records and pages, whatever queries and requests fail | `IInv` adds `RowInv` (a record is marked after its entry exists, unless it is older than the status list, and rows read keep that), `WalkInv` (what the pages so far did not show is behind them, also once all rows of the next are read) and `PageInv` (the count a page was made with is no more than the records there are by now, also if the count failed) |
| `CredentialProofs` `FromOneForm`, `ResultIsLast`, `AsAdvertised` | `[]RecordOfOneForm`, `[]ResultIsLastSubmission` and, if no scheme is named like the PID's mdoc configuration, `[]FormatAsAdvertised`, for any registry content and number of editions | `IInv` types records by the forms there are and adds `FormInv` (the form on screen is the selection's) and `SubmitInv` (at most one submission is under way, it is the last, and its button waits); `Build` and `Configs` assign per identifier, so the lemmas take the last index that meets it |
| `… SignatureSurvives`, `StatusSurvives` | what a verifier reads from the bytes of `signRawP1363` and of `packBitstring` is the signature, and the status of each entry, for every signature and every list | `Recovered`: a number of at most w bytes is read back from its last w bytes, so both the DER and the padded encoding give it; `OwnBits`: no entry but i has bits in the place of i |
| `… AnySelectionVerifies`, `RevealsNoMore`, `StatusIsFound` | `[]SelectionVerifies`, `[]RevealsSelectionOnly`, `[]StatusReadsBack`, for any data, signatures, keys and list length | `FormatsInv`: the credential is what was built from the data in one order of its claims, its index is in the list, and what is shown is part of it; `ClaimsAre` says what the parts of either format contain and `PayloadNames` which names an SD-JWT payload has, so that the refused selections are known exactly |
| `RegistryCacheProofs` `NeverBack`, `NothingDropped` | `[]MetadataNeverGoesBack`, `[]OutageDropsNothing`, for any schemes, handlers and catalogues | `IInv` adds `BootInv` (where `main` and the refresher are), `VersionInv` (shown ≤ installed ≤ answered ≤ published) and `SchemeInv` (schemes always listed are in each of them) |

`TriggerInv` and `NonceInv` are needed because the properties they support look at single states:
that the last write of TriggerIssuance finds no issued record rests on the offer being known only
after it, and that a nonce is used once rests on ValidateNonce deleting it under the lock under
which it was found, so that a nonce still in the store was used by nobody. `WalkInv` has to speak of the rows already read and not yet shown, because records may
be created between the query and the rendering, and of the queries that failed, because a load that
came back short is shown like any other and must not count as gone through. `DenylistInv` is needed because an answer is composed
before it arrives; only the mutex keeps an older one from arriving after a newer one.

`FormatsInv` is needed because the three properties of the formats look at the data and the credential
side by side: that the credential still belongs to these data, and its index to a list that has grown
and changed since, has to be carried along. What the encodings compute is proved by induction over
the bytes of a number. The provers cannot use the library's induction theorems, so these lemmas
take the least counterexample (lemma `Least`, from the well-foundedness of the natural numbers) and
refute it; `Quotients` and `SetBytes` are recursive functions, and that their equations have a
solution is proved in the same way (`QuotientsExist`).

`VersionInv` and `SchemeInv` are needed because a document is built from several lookups: that the
next one is no older than what was shown rests on the one refresher, whose answer on its way is at
least as new as what is installed, and on nothing being served before a restart's first fetch. The
invariant of `RequestHolder` is needed because the checks are made in different steps: at
"bound" the DPoP proof is known to be for this token and endpoint, and only the step after it
compares its key. `LockInv` is needed because durability alone is not inductive: that the index drawn by UPDATE is
still free at COMMIT rests on the row lock being held between the two, and that the refinement
mapping (the row of a record) is a function rests on the unique index. `CacheInv` is needed because
a getter may load before a revocation is written and store into the cache afterwards; what rules out
a hidden revocation is that reporting waits for the mutex this getter holds.

Assumptions: those named in the modules, on constants only. The model values for "nobody" are not
members of the sets they complete, and `"none"` is no record id (`Issuance`); times, caps and bounds
are natural numbers, and the eviction count is at least 1 and at most the cap. In `CredentialTypes`
no scheme name is empty (`splitCSV` drops empty names); of the registry's content nothing is assumed
but that formats come in a list. In `CredentialFormats` bytes have at least two values and numbers at least
one byte, a signature is a pair of positive numbers of at most `Width` bytes (r and s are positive and
below the order of the curve, `SignaturesAssumption`), and a record has finitely many claims; 256 and 32 are
one instance. The proofs hold for any sets of records, calls, handlers, requests, tokens
and proofs, any catalogues and any page size.

Three theorems have a hypothesis besides. `RevocableAlways` and `TokensLead` are about a database that
answers (`~DBFaults`): finding 2 and the failed INSERT of section 4 show that they are false
otherwise. `AsAdvertised` is about configurations whose identifiers do not coincide with the PID's
mdoc configuration (section 4).

**Only model-checked.** Liveness under fairness (`AllocateIdxReturns`, `GetAnswered`,
`RevokeAnswered`, `VerifyReturns`, `RetrySucceeds`, `CatchesUp`), which is beyond the proof system as
used here. Every invariant and every action property of a passing run is proved.

## 6. Not modelled

- Cryptography and encodings that are libraries' work (JOSE, CBOR, zlib, X.509, PEM).
- The error codes of refusals (`oauth2/error.go`): the models tell success, refusal and
  unavailability apart, and no property depends on more.
- The fixed part of the metadata document, labels and locales (`oid4vci/metadata.go`,
  `credentialconfig/label.go`), the notification endpoint (it does nothing), CORS, API
  documentation, the record dialog of the web UI: constant content or wording.
- `LoadWalletProviderAnchor` (`crypto/walletprovider.go`) is called nowhere.
- The in-memory record store differs from the Postgres one only in that it cannot fail and is lost
  on restart.
- Overlapping loads of the records table and ties in its order: no property of the table survives
  them (section 4), so `IssuanceList` has one load at a time and distinct `created_at`.

## 7. Plan

Done: status list stores, token cache, issuance, verifier, DPoP, catalogue cache, formats, listing,
then request validation, process start, credential configurations and the issuance form, holder keys
and signatures in the formats; proofs of the safety of every component.

Left: the two hazards without a property (`PROJECT.json`), the growing set of unused nonces and loads
of the records table that overtake each other.
