# A verification of mcp-einvoicing-core

`mcp-einvoicing-core` is the Python library under the country-specific
e-invoicing MCP servers: a human-in-the-loop gate for tools that send documents,
an authenticated HTTP client with retries, a hash-chained audit trail, a signing
process behind a socket, an AS4/Peppol stack, an EN 16931 document model with its
serialisers and validators, and tax-identifier checks. This directory holds TLA+
models of its stateful parts, the TLC runs that check them on small instances,
and theorems about them checked by TLAPS. Paths below are relative to
`src/src/mcp_einvoicing_core/` unless they begin with `src/`.

`PROJECT.json` is the machine-readable side: components, runs, the mutant that
each property is tested against, the lines each definition stands for, findings,
hazards, theorems.

    tlc -workers 2 -config ConfirmationGate.cfg MC_ConfirmationGate
    tlapm ConfirmationGateProofs.tla

(likewise for the other `.cfg` files, each with the module `PROJECT.json` names, and
for the other `*Proofs` modules).

## 1. Inventory

| Component | State it keeps | Operations | Interacts with | What is hard | What makes it correct |
|---|---|---|---|---|---|
| Confirmation gate (`confirmation.py`) | in-memory store of pending tokens with expiry; the bypass flag read at import | `issue`, `is_valid`, `consume`, `pending_response`, `is_confirmed` | every tool handler that submits or cancels | check and consume are separated by an await; purge on issue; expiry; restart | no live confirmation lost, no dead one revived, no action without one, one action per token |
| HTTP client (`http_client.py`) | token cache (token, expiry, last use), static bearer token, long-lived `AsyncClient` | `request` and its verbs, token renewal, `invalidate_token`, `aclose` | authorisation server, platform; used by country packages, signer, directory | shared cache under interleaved calls; 401 recursion inside a retry loop; late and repeated tokens; close during a request | the retry after a 401 goes out with a token received after it; bounded traffic; every call ends; no connection left open |
| Audit log (`audit_log.py`) | last hash, lock, a file | `emit`, `_load_tail`, `_write` | tool handlers, digital signatures; the file outlives the process | hash moves before the write; torn writes; restart from the tail; several writers | the chain links, deletions show, nothing written is changed |
| Signer microservice (`signer_service.py`, `signer_client.py`) | key and token, held by one process; the socket path; one connection per call | `sign`, `sign_jws`, `mtls_submit`, `mtls_submit_files` | HTTP platform, digital signatures, HTTP client (JWS) | answers lost or cut after the submission; retries; reader limits; a process replaced by another on its path | verdicts are true; a document is repeated only after a 429 or 503; nothing happens after an answer; strangers are not served; every call ends |
| AS4 transport (`peppol/transport/`) | none of its own; message ids | `send`, `transmit`, `receive`, receipts | SMP lookup, another access point | copies after a 503; receipts for another message, signals that are no receipts; damaged messages; no duplicate detection | copies only after a busy answer; no delivery is reported but for a signal; what verifies is whole |
| SMP lookup (`peppol/__init__.py`) | none | `lookup_participant`, `get_service_endpoint`, DNS resolution | DNS, SMP; AS4 transport, trust | fields picked first-of and last-of from a document; a participant that moves meanwhile | reported endpoints were published; URL and profile belong together where each endpoint has an address |
| Directory client (`peppol/directory.py`) | time of the last request, a lock | `search` | Peppol Directory | throttle shared by concurrent searches and retries, sleeping under the lock | requests keep their distance, every search ends |
| Trust (`peppol/trust.py`) | none; a directory of CA certificates | `verify_smp_signature`, `validate_chain`, `check_revocation` | SMP lookup; OCSP responder, CRL | what is verified and what is read are parsed apart; fallback from OCSP to CRL | verified means published; a listed revocation is told |
| Code lists (`peppol/codelists.py`, `genericode.py`, `en16931_codelists.py`) | files a deployer copies | list, check, version report | tools | newest by file name; files that are not whole yet; codes that are withdrawn | what is answered is what the newest release says |
| Peppol tools, MLS, reporting (`peppol/`) | none | `peppol_send` and the look-up tools, build, parse, validate | all of the above | what is reported for which failure | every call is answered; valid means valid by schema and rules |
| Tax identifiers, routing (`models.py`, `routing.py`) | none | check-digit validators | document validators | boundaries of the remainders, differing by country | one slip of the keyboard is caught where the scheme can catch it |
| EN 16931 model, credit notes (`en16931.py`, `credit_note.py`) | documents | field validation, totals, reference sync | serialisers | two fields for one fact; tolerance of totals | a credit note refers to the invoice it was made out for |
| Wire formats, conversion (`wire_formats.py`, `convert.py`) | none | build, parse, convert | EN 16931 model | each syntax lacks something; rounding of single amounts | nothing both syntaxes carry is lost; totals still add up; loss settles |
| Schematron/XSD validation, artefact download (`schematron.py`, `download_rules.py`) | stylesheets on disk, loaded validators | download, load, validate | XSLT engines, tools | a file replaced in place while it is read twice; a run that dies | never valid without evaluation but for an engine without a result; 0 means complete |
| Digital signatures (`digital_signature.py`) | lazily loaded key and certificate | sign, cleanup | signer, tools | cleanup and exchange of the files during sign; parts canonicalised before they are where a verifier finds them | a signature goes with the certificate of its key; no key outlives its sessions |
| Plugin server, masking, profile registry (`base_server.py`, `profile_registry.py`) | plugins, tools, profiles | registration at start-up, look-up | country packages (elsewhere) | – | – |
| PDF, QR, XML helpers, endpoints, exceptions, logging, archive interface, repository audit | none to speak of | pure helpers, declarations | – | – | – |

How they meet: a tool handler asks the *gate*, awaits an action that goes through
the *HTTP client* (or the *signer*, or the *AS4 transport*), consumes its token and
emits to the *audit log*. Everything runs on one event loop; the stateful objects
are shared by all tool calls of a process, so the interesting interleavings are
those at awaits, plus the crash of the process, which only the audit file and
the remote side survive.

## 2. Modules

| Module | What it is |
|---|---|
| `ConfirmationGate` | store, gate and the two-call tool handler |
| `OneTimeApproval` | what a caller is promised: abstract specification |
| `ConfirmationGateRefinement` | the refinement mapping between the two |
| `ConfirmationGateProofs` | theorems and proofs |
| `TokenCache` | the token cache as a value |
| `HttpClient` | concurrent requests on one client (EXTENDS `TokenCache`) |
| `HttpClientProofs` | theorems and proofs |
| `HttpClientLifecycle` | building and closing of the underlying connection |
| `AuditLog` | writers, file, faults, crashes |
| `ChainedLog` | what an audit trail promises: abstract specification |
| `AuditLogRefinement` | the refinement mapping between the two |
| `AuditLogProofs` | theorems and proofs |
| `SignerChannel` | the signing process, its callers and the gateway behind it |
| `OneSubmission` | what those callers are promised: abstract specification |
| `SignerChannelRefinement` | the refinement mapping between the two |
| `SignerChannelProofs` | theorems and proofs |
| `SmpLookup` | what a lookup reads: DNS answers and service metadata as values |
| `As4Message` | AS4 messages, their signature and receipts as values |
| `As4Exchange`, `As4ExchangeProofs` | the Peppol tools on the network: lookup, transmission, retries, the access point; proofs |
| `PeppolTrust` | certificate chain, XML signature, OCSP and CRL as values |
| `EndpointVetting` | lookup, verification and revocation check while a certificate is revoked |
| `DirectoryClient` | concurrent searches through one throttle |
| `PeppolQueries`, `PeppolQueriesProofs` | composes `EndpointVetting` and `DirectoryClient` for TLC; proofs about both |
| `TaxIdentifiers` | the check-digit validators |
| `IdentifierEntry` | issued identifiers, entered with or without a slip |
| `WireFormats` | serialisers, parsers and credit notes as functions on records |
| `DocumentConversion` | a document converted again and again, and credited |
| `InvoiceData`, `InvoiceDataProofs` | composes `LocalSigning`, `IdentifierEntry` and `DocumentConversion` for TLC; proofs about the three |
| `SampleIdentifiers`, `SampleDocuments` | the inputs of that run |
| `LocalSigning` | sessions that share a signer and its credential files |
| `RuleFiles` | stylesheets: download runs that write them, readers that load them |
| `CodeLists` | code lists: a deployer that copies them, tools that read them |
| `LocalResources`, `LocalResourcesProofs` | composes `HttpClientLifecycle`, `RuleFiles` and `CodeLists` for TLC; proofs about the three |
| `MC_*` | symmetry sets and instances for TLC |

The components that `PeppolQueries`, `InvoiceData` and `LocalResources` compose share no
state with one another, so a behaviour of these modules is of one kind and leaves the
variables of the others alone: the composition saves TLC's start, not states. The
compositions that matter are inside the modules: `As4Exchange` runs lookup, message,
client and access point against one another, `EndpointVetting` the lookup and the trust
checks, `RuleFiles` the download and the validators.

### Confirmation gate

| TLA+ | code (`confirmation.py`) |
|---|---|
| `pending`, `expires_at` | `ConfirmationStore._pending` and the expiry of its entries |
| `IsValid`, `IsValidDrops` | `is_valid`, and the expired entry it deletes |
| `PurgeExpired`, `Issue` | `_purge_expired`, `issue` and the `awaiting_confirmation` answer |
| `Call`, `IsConfirmed`, `NotConfirmed` | the handler of the module docstring up to `gate.is_confirmed` |
| `ReuseToken`, `NeedToken` | the two branches of `pending_response` |
| `Succeed`, `Fail` | the awaited action returns or raises |
| `Consume` | `gate.consume` after the action, its result ignored |
| `Restart` | a new process: the store is empty |

Each method of the store holds its lock, so a method is one step; handlers
interleave between methods and during the action. The stored action name and
summary are never read back, so they are left out. Fresh tokens come from
`secrets.token_hex`; the model takes them distinct. `issued`, `retired` and
`completed` are history.

`OneTimeApproval` says it without store, clock or purge: a token is unused,
offered, or over; work starts only under an offered token, an expired one can
only become over, and nothing comes back. `KeepsPromise` is that
specification under the mapping of `ConfirmationGateRefinement`.

### HTTP client

`HttpClient` follows the code between two real suspensions: the token request,
the API request, the sleep. `GetHeaders` is `_get_headers` with the part of
`_get_access_token` that does not suspend; `Grant`/`Fetched` split the token
request into the server's answer and its arrival, so that answers overtake each
other; `Unauthorized` is the 401 branch with the recursive call's start, which
does not suspend in between; `Busy`/`Wake` the 429/503 branch and its sleep.
`Answered` takes any other outcome. The servers are nondeterministic. A token that
`Grant` gives may be one that was given before and still lives: an authorisation server may
repeat it, and `_mint_jws_token` (742-777) dates its claims in whole seconds and signs
deterministically, so that two mints in one second give one token. A call may
therefore be rejected with a token and receive the same one again; what the code does
guarantee is that it received it *after* the 401 (`renewed`, a history variable, and
`RetryRenewed`).
The two token-based modes (OAuth client credentials, JWS) renew in the same
shape and are one mode of the model; API-key, mTLS and unauthenticated requests
have no token and are the mode "other".

`HttpClientLifecycle` has the `AsyncClient`: `GetClient` is `_get_client`,
`BeginClose`/`EndClose` the halves of `aclose` around its await. httpx is
external: a client counts as closed from the beginning of its `aclose`.

### Audit log

| TLA+ | code (`audit_log.py`) |
|---|---|
| `Start`, `StartUnreadable` | the constructor with `_load_tail` and `_read_last_line` |
| `Emit` | `emit` up to the call of `_write`: the entry is chained and `_prev_hash` moves on |
| `Write`, `WriteFails`, `WriteTorn` | `_write`: done, an `OSError` that is logged and dropped, a partial line |
| `Crash` | the process dies between two file operations |
| `Linked`, `Intact` | what a reader of the file can verify |

SHA-256 is taken as injective: the hash of an entry *is* the sequence of contents
it covers. A line knows whether it is a whole JSON object, and `unterminated`
whether the newline is missing, in which case the next append lands on the same
line. `ChainedLog` is the promise: each event is recorded with the whole history
before it; `RecordsHistory` maps the file onto it.

### Signer

| TLA+ | code |
|---|---|
| `Start`, `Listen` | `_SignerService.start` around its await: unlink the path, then listen there |
| `Crash`, `LeftBehind` | the process dies (external); what its callers then read |
| `Call`, `Read`, `Cancel` | `SignerClient._call`: connect and send, `readline` and what it is turned into, the caller's task cancelled |
| `Overrun`, `Unauthorized`, `Dispatch` | `_handle` up to the method |
| `Sign` | `_do_sign` and `_do_sign_jws`, which do not suspend |
| `Submit`, `Answered`, `Failed`, `Wake` | `_do_mtls_submit` from one await to the next |
| `Take` | the gateway takes the post that is on the wire (external) |

A call has a connection of its own, so a line can only be its own answer; calls
meet in the life of the processes. Two facts of the operating system decide what a caller
sees: a Unix socket that is closed with input unread resets its peer, and a dead
process closes all its sockets. A request or an answer is long (over the 64 KiB
that asyncio's readers take when they are given no `limit`) or it is not; what is
beyond 64 MB is left out. A long answer reaches the caller as a `ValueError` *after*
the work was done, a lost one as a `SignerError` or `OSError`: `VerdictHolds` says
that success is never invented (the refinement below implies it, so no run lists it), and nothing in the code lets a caller conclude from
an error that the document was not taken. `posts`, `taken`, `excused` and
`dispatched` are history.

`OneSubmission` says it without processes, sockets, tokens and lost lines. Of each call it knows
whether a document is on its way (`offered`), whether the gateway has one that it did not turn
away (`held`), and what the caller was told. A document is offered again only when neither is the case and
the caller has no answer; "accepted" is told only while one is held, "busy" only when none is
and none will be, so that a caller who reads 429 or 503 may submit again. `KeepsSubmission` is
that specification under the mapping of `SignerChannelRefinement`, in which a post
that its handler gave up is still on its way.

### Peppol

`SmpLookup` has the DNS answer and the service metadata as values: an XML document
is the sequence of its elements in document order, which is what the code
iterates over, so that first-of (`find_text`) and last-of (the loop over `Endpoint`
and `Address`) are what they are in the code, and a comment raises the `TypeError`
it raises there. An SMP may describe two processes, and leave out the address of
either: the last `Address` is then not that of the last `Endpoint`
(`Addressed` says that each endpoint has its own).

| TLA+ (`As4Exchange`) | code |
|---|---|
| `Call` | a tool of `peppol/tools.py` up to its first await |
| `Resolve`, `FetchGroup`, `MetadataFails`, `FetchMetadata` | `resolve_smp_host`, `lookup_participant`, `get_service_endpoint` after each await |
| `Backoff`, `Repost`, `PostFails`, `Conclude` | `AS4TransportClient.send` and what `transmit` and `peppol_send` make of it |
| `Move` | the participant changes its SMP (external) |
| `Transported`, `Accept` | the network and the access point (external), which reads with `AS4InboundHandler` |

`wire` keeps every request that was ever posted, so the access point may read a copy
at any later time, long after the sender gave up or succeeded. It answers as it
likes: with a receipt for any message it has accepted, or with any other signal
(`Signals`), which names whatever message it wants or none and holds no receipt.
`AS4ReceiptHandler.parse` (`receipt.py`, 142-179) takes each of these without an error for a
delivery; `misled`, a history variable, remembers who was given one of the latter.

`EndpointVetting` steps from await to await through `get_service_endpoint` with
verification and `check_revocation`. `PeppolTrust` says what the verifier covers: the
digest over the document without its first signature and without the text
after it, the signature value over the digest, the chain against the directory of CA
certificates. The reader iterates over everything, elements inside the signature
included (`Iterated`), which the verifier has taken out (`trust.py`, 462-466) and nothing
covers; `stray`, a history variable, remembers that there were some.

`DirectoryClient` counts time in ticks; what the code compares is the time since the
last request, so `since` is that, saturated at the interval. A sleep ends when its
timer is out *or later*. The searches are those of one client; the tool
`peppol_directory_search` builds a client for each call (`peppol/tools.py`, 430), so its
calls share no throttle, and nothing here says that they keep their distance.

### Identifiers and documents

Each operator of `TaxIdentifiers` is one validator: normalisation, format, weights,
remainder. `WireFormats` has a record for each document and one operator per
serialiser and parser part (`BuildPartyUbl`, `ParseParty`, ...). An element that
both syntaxes only move to another place is one entry; those that are lost,
defaulted, rounded, or read from one of several places are modelled as the code
reads and writes them. Amounts are integers in thousandths, `Fmt` is the rounding to
cents.

### Local resources

`LocalSigning` separates the steps of `_get_cert_info` that other threads can come
between: the test, the reads of the files, the store, the return. A canonical form
is the content and the namespaces it shows: `_c14n` is inclusive and keeps
comments, and the XAdES and XMLDSig signers take it of a `ds:SignedInfo` that stands alone and
comes below the signature and the root afterwards. What the signers promise is stated
over the forms they compute (`Consistent`); that a verifier computes others in the
final document is `ReproducedInPlace`, section 4.

`RuleFiles` separates opening (which empties) and filling a file, and the two reads of
a loader. An engine answers with SVRL, raises, or has no result (`Engines`): of the
latter the lxml validator fails an assertion of lxml, and Saxon's answers "valid"
(`schematron.py`, 304 and 432).

`CodeLists` compares file names character by character, as `sorted` does. A release brings a
code and drops one: an eDEC list keeps it with the state "removed", an EN 16931
list, which has no state, loses the row. The deployer copies releases in any order.

## 3. Runs

| Run | Instance | States | Shows |
|---|---|---|---|
| `gate` | 2 handlers, 3 tokens, TTL 1, clock to 2 | 76 191 | `LiveTokenKept`, `RetiredStaysOut`, `RunsOnlyLiveTokens`, the refinement `KeepsPromise`, and that every call is answered |
| `gate_single_use` | same | | *violated*: two calls with one token both complete their action |
| `http` | 2 calls, 2 tokens, each given or minted again or not, 1 retry, margin = latency = 1, lifetime 3, idle after a tick, clock to 4 | 1 215 934 | `RetryRenewed`, `CachedTokenAlive`, `SendsBounded`, `EveryCallEnds` |
| `http_bearer` | 2 calls, static token among the modes | | *violated* `BearerRetriedOnce` |
| `audit_log` | 1 writer, 5 events, 3 crashes, no file fault | 1 694 | `InnerDeletionDetected`, `RecordsHistory` |
| `audit_log_faults` | 2 writers, 4 events, 2 faults, 1 crash, one content too long for the tail reader | 195 071 | `BreaksAccounted`: at most two bad links per fault while one writer uses the file; `LossAccounted`, `AppendOnly` |
| `signer` | 1 call, 3 processes one after another, the code's 3 retries | 210 990 | `DuplicatesExcused`, `OnlyOwnersServed`, `QuietAfterAnswer`, the refinement `KeepsSubmission`, `EveryCallEnds` |
| `as4_exchange` | 2 tool calls, 2 SMPs, 1 move, 1 retry | 277 276 | `EndpointCurrentAndPaired`, `RepostsExcused`, `VerifiedArrivesWhole`, `DeliveredUnlessMisled`, `EveryTransmissionEnds` |
| `smp_certificate` | 1 call, 1 SMP with two endpoints | | *violated* `CertificateOfEndpoint` |
| `peppol_queries` | 1 vetting of metadata with one or two processes, 2 searches, interval 2, 1 retry, delays 0 and 3 | 34 352 | `VerifiedAsPublished`, `RevocationTold`; `SpacedOut`, `EverySearchEnds` |
| `invoice_data` | 2 signing sessions, 2 documents each, 1 exchange of credentials; 19 schemes with a hundred bases and every ending; invoices of all shapes and documents of other producers, 5 conversions, a credit note | 2 182 093 | `SignedByItsCertificate`, `FailuresExcused`; `EntriesJudged`; `CarriedFieldsKept`, `TotalsReconcile`, `CreditRefersHome`, `ConversionSettles` |
| `local_resources` | 3 calls, 3 closes, 5 clients; 2 files, 2 releases, 2 download runs, 1 reader; 2 code lists, 4 releases | 727 700 | `OrphansBounded`; `ZeroMeansComplete`, `ValidMeansConforms`, `LoadFailuresExcused`; `AnswersNewest` |

**Bounds.** Two concurrent tasks are enough for every race in this code: each
hazard is between one task suspended at an await (or a lock boundary) and one
that changes the shared object meanwhile. Three tokens let both handlers
confirm one of their own and one be replaced; two let both HTTP calls fetch at the same
time, or one renew what both were sending and the other take the renewed one from
the cache (that both renew is left to the proofs, which hold for any number of tokens).
With TTL 1 and a clock up to 2 a token
is seen before, at and after its expiry, with a later one issued; with a clock
that starts at 1 a cached OAuth token is seen valid, in the margin, expired and
idle. One retry per loop is the least with which both loops of a call (before and
after a 401) can sleep. Five events and three crashes give a first, an inner and
a last line and a restart on each side of them; two faults are the least with
which two of them can fall on one line. One call of
the signer is enough: calls share no state but whether a process lives, and each of
them can find it absent, starting, alive, dead or replaced. Two Peppol calls
with one move of the participant let one look up before and one after it, and one
retry is the least that puts a copy on the wire. One vetting is enough: vettings share
only what the certification authority does meanwhile. An interval of 2 ticks with delays of
0 and 3 has sleeps shorter and longer than the interval. One exchange of the
credential files lets a session hold a half of each pair. Five conversions are
two round trips and one hop more, so that a result can be compared with the
one two hops before. Two stylesheet releases, one in XSLT 1.0 and one in 2.0,
make the backend matter; two download runs are the least where one dies and the
other finds what it left. The four code-list releases (8.10, 9.8, 9.9, 9.10) cross the
place where text order is not number order, with a pair on each side of it where it is,
and are enough for a code to be withdrawn twice. A hundred bases per scheme reach
every remainder and every ending.

The bounds are guards (`TokensLeft`, `MaxTime`, `MaxLatency`, `MaxRetries`,
`MaxEvents`, `MaxFaults`, `MaxCrashes`, `MaxMoves`, `MaxRotations`, `MaxSigns`, `MaxHops`,
`MaxReleases`, `MaxRuns`, finite `Tokens`, `Clients` and `Instances`). When they are used
up the model stops, as a server without further calls does: the runs do not
check for deadlock, and that nobody is left waiting is what the liveness
properties (`EveryCallAnswered`, `EveryCallEnds`, `EveryTransmissionEnds`,
`EverySearchEnds`) say instead.

Three runs compose components that share no state (`peppol_queries`, `invoice_data`,
`local_resources`), each with its own steps and the other's variables unchanged:
a property of one is checked in every state of it, and the liveness of the
searches with fairness of the searches alone.

**Fairness.** Weak fairness of each handler's (call's) own next step, and of
nothing else: not of the arrival of calls, crashes, restarts, or any choice of
outcome. The code justifies it: every await of the HTTP client has the `httpx`
timeout or is a finite sleep, store methods hold a lock that no holder awaits
under, and the event loop runs ready tasks. For the signer it is weak fairness of the
handler and of the caller's reading: a post ends by an answer or the 60 s timeout
of its client, and a process that dies ends its calls. Fairness is not asked of
the gateway's taking a document. In `As4Exchange` it is weak fairness of each call's
`Handle`: DNS, SMP and AS4 requests end by an answer, an error or a timeout, and
nothing is asked of the access point, which may never read. In `DirectoryClient` it is
weak fairness of time and of each search, and strong fairness of taking the
lock, because `asyncio.Lock` serves its waiters in order: the lock is free again
and again, but not continuously, while other searches sleep under it.

**Assumption worth knowing.** `CachedTokenAlive` needs a token answer to spend no
longer on the wire than the 30 s margin (`MaxLatency <= Margin` in
`HttpAssumption`), because the code dates the expiry from the arrival; the
default token timeout (30 s for each phase of the request) makes this
reasonable, not certain.

## 4. Disagreements between the code and its documentation

| Run | The text | The code |
|---|---|---|
| `gate_single_use` | tokens are single-use (`confirmation.py:75`) | checked before the await, consumed after it, the result of `consume` ignored |
| `http_bearer` | a 401 is retried exactly once (`http_client.py:906`) | `invalidate_token` drops the static token (869), the retry raises before it is sent, as does every later call |
| `smp_certificate` | the endpoint's URL (`peppol/__init__.py:208`) and the certificate of that access point (`:211`) | of metadata with several endpoints, the URL is the last one's and the certificate the first one's (672-683) |

The modules state more such sentences, each as a property with a comment that quotes the
text. They are false of the code as modelled: a `.cfg` of section 3 with the property as its
only invariant shows the counterexample (for a component that a run composes, the
property of the instance, such as `Rules!ZeroMeansWhole` in `LocalResources`).

| Property | The text | The code |
|---|---|---|
| `HttpClientLifecycle!NoOrphan` | `aclose` releases all connections (`http_client.py:684`) | it drops whatever client is there when its await returns (692) |
| `AuditLog!ChainIntact`, two writers | each entry carries the hash of the previous one (`audit_log.py:4`) | two objects on one path each have their own lock and hash (142) |
| `SignerChannel!TakesUpTo64MB` | requests of up to 64 MB (`signer_service.py:77`) | the reader is left at its default limit of 64 KiB and raises first (112) |
| `EndpointVetting!VerificationNeverRaises` | "This never raises or blocks parsing" (`peppol/__init__.py:624`) | a comment in the document, or a certificate that is no base64, raises |
| `As4Exchange!EndpointCurrentAndPaired` without `Addressed` | the endpoint's URL and the profile of that endpoint (`peppol/__init__.py:208`) | of two endpoints of which the last has no address, the URL of the first is reported with the profile of the last (672-680) |
| `As4Exchange!DeliveredUnlessMisled` without `misled` | the message was delivered | any signal without an error is a delivery, also one without a receipt or a `RefToMessageId` (`receipt.py:142`) |
| `EndpointVetting!VerifiedAsPublished` without `stray` | a valid signature vouches for the metadata | elements inside the signature are read (`peppol/__init__.py:672`) and not verified (`trust.py:465`) |
| `As4Exchange!DeliveredIsOwn` | a receipt matches the original message (`peppol/transport/models.py:172`) | another `RefToMessageId` is only logged, and reported as delivered (`client.py:125`) |
| `IdentifierEntry!StrayRejected` | "Dashes and spaces are stripped" (`models.py:283`) | everything that is no digit is, letters too |
| `LocalSigning!ReproducedInPlace` | the digest is "what the enveloped-signature transform on the final document will reproduce" (`digital_signature.py:545`) | `ds:SignedInfo` and the signed properties are canonicalised alone and put below the namespaces of signature and root afterwards (553-580, 775-790); comments are kept, though the declared algorithm drops them |
| `LocalSigning!Consistent` of every seal | a seal goes with its certificate | certificate and key of a CSD are read one after the other and never compared (990) |
| `LocalSigning!SignIdempotent` | `sign(document)` is idempotent (`digital_signature.py:82`) | XAdES and CAdES signatures carry a time, XAdES ones fresh Ids |
| `DocumentConversion!BillingInSync` | the `preceding_invoice_*` fields are kept in sync (`credit_note.py:58`) | only when they are empty: a credited invoice that refers to one of its own keeps that |
| `DocumentConversion!VatNumberOnly` | national extensions are ignored (`wire_formats.py:468`) | the first `CompanyID` below a party is its VAT number, whatever its scheme (612) |
| `RuleFiles!ZeroMeansWhole` | 0 on full success (`download_rules.py:86`) | a file that an earlier run left cut is skipped |
| `RuleFiles!LoadRaisesDocumented` | `FileNotFoundError`, `ImportError`, `ValueError` (`schematron.py:452`) | a cut file raises `XMLSyntaxError` |
| `RuleFiles!ValidWasEvaluated` | a document is validated against the stylesheet (`schematron.py:392`) | no result of Saxon, or an empty one, is valid (304, 432) |
| `CodeLists!NewestIsFound` | the "highest version string wins" (`peppol/codelists.py:99`) | lexicographically, as the same comment says: v9.9 wins over v9.10 |
| `CodeLists!VersionReportTotal` | an error for each list that is missing or unreadable (`peppol/codelists.py:196`) | a file that does not parse makes the report raise |

(Where the second column has no quotation marks or line it says what a reader of the
result would take it to mean, not what a text claims; "P without e" is P with its excuse e
struck out.)

Three more follow from the models and have no property of their own. A call may sleep
`2 * max_retries` times, not `max_retries` (`http_client.py:907`), because the
recursive call after a 401 begins a loop of its own: `SendsBounded` states what
the code does. A write that fails with an `OSError` is logged, but `_prev_hash`
has moved on, so the next entry does not link (`audit_log.py:145`, `164`); and a
restart after a line of more than 4096 bytes begins a second chain, although the
chain is to continue across restarts (`audit_log.py:93`). `BreaksAccounted`
counts both as faults.

## 5. Proofs

`ConfirmationGateProofs`, for any sets of handlers and tokens, any TTL and any
clock bound satisfying `GateAssumption` (and `NobodyAssumption` for the
refinement):

| Theorem | Property |
|---|---|
| `TypeCorrect` | `TypeOK` |
| `NoConfirmationLost` | `LiveTokenKept` |
| `RetiredForGood` | `RetiredStaysOut` |
| `StartsOnlyUnderLiveToken` | `RunsOnlyLiveTokens` |
| `GateKeepsPromise` | `KeepsPromise`, i.e. the gate implements `OneTimeApproval` |

The inductive invariant is `TypeOK`, `RetiredStaysOut`, `LiveTokenKept` and
`DatedAtIssue` (an issued token's expiry is at most a TTL from now).
`LiveTokenKept` is inductive only with the typing facts (`pending` and `retired`
within `issued`, so that a fresh token is neither), and `RunsOnlyLiveTokens`
needs the date as well. The refinement rests on `StepSimulation`, where each
action maps to an action of `OneTimeApproval` or a stutter.

`HttpClientProofs`, for any calls, tokens, lifetimes, retry and clock bounds
satisfying `HttpAssumption`:

| Theorem | Property |
|---|---|
| `ClientTypeCorrect` | `TypeOK` |
| `RetriesRenewed` | `RetryRenewed` |
| `CachedAlive` | `CachedTokenAlive` |
| `TrafficBounded` | `SendsBounded` |

None of these is inductive. The invariant relates a call that was answered 401 to the
cache it shares: from then on the cache holds, and the call's headers carry, only
tokens that were received after that 401 (`TokensRenewed`), whichever call
received them; only the mode that fetches has tokens on the way (`ModesKept`); and
the cache dates a token late by no more than the latency (`TokensDated`).
`LoopsCounted` relates the requests and sleeps of both loops to the attempt a
call is at. `_get_headers` occurs in three actions; the lemmas `HeadersType`,
`HeadersCount` and `HeadersToken` say once what it does.

`AuditLogProofs`:

| Theorem | Property | Assumption beside `LogAssumption` |
|---|---|---|
| `LogTypeCorrect` | `TypeOK` | none |
| `NeverRewritten` | `AppendOnly` | none |
| `DeletionShows` | `InnerDeletionDetected` | none |
| `LossesAccounted` | `LossAccounted` | finitely many writers |
| `ChainBreaksByFaultsOnly` | `BreaksAccounted` | none (the property is about one writer on the file) |
| `OneWriterKeepsChain` | `ChainIntact` | one writer, no fault, no line over 4096 bytes |
| `OneWriterRecordsHistory` | `RecordsHistory`: the file implements `ChainedLog` | same |

`DeletionShows` needs no invariant but the types: the hash of an entry covers
the hash before it, so two entries in a row never have the same one. The chain is
proved from `ChainInv`: every line carries the contents before it, and the
writer's hash stands for the whole file, or, between the two halves of an
`emit`, for the file and the line on its way. The assumption `OneWriter` is as
weak as it can be: each of its three parts has a counterexample (above).
`BreaksAccounted` is not inductive, because a fault may spoil links that are still to
come: `BreakInv` counts the bad links together with that debt (an entry that will be
spoiled, a next line that will not link), at most two per fault.

`SignerChannelProofs`, for any calls, processes and retry count:

| Theorem | Property |
|---|---|
| `ChannelTypeCorrect` | `TypeOK` |
| `VerdictsAreTrue` | `VerdictHolds` |
| `NoUnexcusedDuplicate` | `DuplicatesExcused` |
| `StrangersNotServed` | `OnlyOwnersServed` |
| `SilenceAfterAnswer` | `QuietAfterAnswer` |
| `ChannelKeepsPromise` | `KeepsSubmission`, i.e. the channel implements `OneSubmission` |

The invariant is four facts about each call: how far handler, line and outcome may
be apart (`Progress`), whose work it is (`Ownership`), that the posts taken are
the excused ones and at most one more, which is the post on the wire when there is
one (`Account`), and that a verdict in the socket is already true (`Verdict`).
`Account` is what makes `DuplicatesExcused` inductive: a late `Take` is only
possible for a post that has not been answered. It is also what the refinement rests on:
each step of a call maps to one step of `OneSubmission` or to none (`CallSimulated` to
`TakeSimulated`), a retry to an offer of what nobody holds because a sleeping handler has an
even account (`PostOffers`), and the last post of a call that was told "busy" has been answered.

The other components, each under the assumption on its constants that is named:

| Module | Theorem | Property | Assumption |
|---|---|---|---|
| `As4ExchangeProofs` | `CopiesExcused` | `RepostsExcused` | `ExchangeAssumption` |
| | `DeliveriesHappened` | `DeliveredUnlessMisled` | same |
| | `EndpointsWerePublished` | `EndpointCurrentAndPaired` | same |
| | `VerifiedMessagesWhole` | `VerifiedArrivesWhole` | same, `MessageAssumption` |
| `PeppolQueriesProofs` | `RequestsKeepDistance` | `SpacedOut` | durations are naturals |
| | `RevocationsTold` | `RevocationTold` | none |
| | `VerifiedWasPublished` | `VerifiedAsPublished` | none |
| `LocalResourcesProofs` | `EachCloseOrphansOne` | `OrphansBounded` | `LifecycleAssumption`: finitely many closes |
| | `ZeroIsComplete` | `ZeroMeansComplete` | `ResourceAssumption` |
| | `ValidConforms` | `ValidMeansConforms` | same |
| | `LoadingExcused` | `LoadFailuresExcused` | same |
| | `NewestIsAnswered` | `AnswersNewest` | same |
| `InvoiceDataProofs` | `ReturnedSignaturesPaired` | `SignedByItsCertificate` | `None` is no number and no exception; there is a session |
| | `OnlySweptFail` | `FailuresExcused` | same |
| | `KeysGoWithSessions` | `KeysDropped` | same |
| | `CarriedFieldsReachTheEnd` | `CarriedFieldsKept` | `DataAssumption`, `NoneIsNoRecord` |
| | `TotalsStayReconciled` | `TotalsReconcile` | same |
| | `CreditsReferHome` | `CreditRefersHome` | same |
| | `LossesSettle` | `ConversionSettles` | same |
| | `EntriesAreJudged` | `EntriesJudged` | `DataAssumption` |

The assumptions say what the constants stand for (`ExchangeAssumption`: hosts are
allowed ones, `None` is none of them; `ResourceAssumption`: the files to download are
stylesheets, releases of code lists are numbered upwards, to 99.99 at most). TLC evaluates
them on the instances. `DataAssumption` says what an EN16931Invoice and a
document of another producer are: the latter has no empty elements, its totals are in
cents, and the date of a preceding invoice stands inside the reference to it. That much is
needed: an empty VAT number is read as `""` and not written again, and totals of
three decimals are rounded one by one. `NoneIsNoRecord` says that `None`, for what is
absent, is not taken for a record of what is there; it is a hypothesis of the theorems and not an
assumption of the module because TLC cannot apply a model value.

What the proofs rest on:

- `RepostsExcused` needs the requests on the wire to be numbered by the attempts
  of their call, each attempt but the first to follow a busy answer, and the access
  point to read a request once; `EndpointCurrentAndPaired` needs that the host a
  lookup goes on with was listed while it ran, and what first-of and last-of are in each
  document an SMP may publish (`InfoPublished`).
- `VerifiedArrivesWhole` and `VerifiedAsPublished` are inductive as they stand; the work is in
  the lemmas about one damaged message (`VerifiedWhole`) or document (`VerifiedDocument`),
  damage by damage, from what a digest and a signature cover.
- `SpacedOut` needs that a search asleep in the throttle holds the lock
  (`SleeperHolds`) and that what it still sleeps makes up for what the interval lacks.
- `RevocationTold` needs what has been asked and what is known at each await of the check
  (`CheckInv`): a certificate that was revoked and listed when the check began stays so.
- `OrphansBounded` needs that under `async with` nothing is open while a close is
  suspended, and that whatever is open was built; the count is one of cardinalities.
- `ZeroMeansComplete` is about the end of a run; `DownloadInv` says of every moment of it that the
  files the run has come to are as it must leave them (`HandledComplete`) and that a file is
  cut only by the write under way or by a run that died (`CutExplained`). Another writer of the
  directory, which the module does not have, would break the latter.
- `ReaderInv` says of a reader between its two reads that, if its file stayed whole, the
  backend suits it; from this both properties of the validators follow.
- `AnswersNewest` needs that text order on file names is number order where the numbers that
  differ first have as many digits (`AlignedInOrder`, from `DigitsOrdered` and
  `NamesOrdered`), so that the last file is the newest release (`LoadedIsNewest`), and that
  a release has one file.
- `DeliveredUnlessMisled` needs what a verified receipt is: one for a message in the inbox
  (`ReceiptsAreReal`), which never loses a message.
- The signing theorems rest on `Fit`, the pairs of certificate and key that may be in
  the signer's hands together: whatever is read, stored or used is one of them, and a
  signature by such a pair is consistent (`FitConsistent`).
- The document theorems rest on one conversion taken apart: what the parsers read
  (`PartsRead`), what the serialisers write (`PartsWritten`), and for each part that what was
  read, written and read again is the same (`TaxKept`, `LineKept`, `PartyKept`,
  `DatesKept`, `TextsKept`, `TotalsKept`, `AccountOnce`). `WayInv` compares the document on its
  way with the first one: what is carried, the account, the sums with the rounding
  amounts dropped on the way, the reference of the credit note. None of its parts but the
  reference needs another, but all need that documents stay documents (`DocumentWritten`).
- `ConversionSettles` compares whole documents. `TrailInv` says that the last three are
  conversions of one another and of a fourth; `SecondRoundTrip` that of four conversions in a row
  the last gives what the second gave. What is not carried settles by then: UUID, business
  process and rounding amount are gone, and a bank without account has been dropped
  or is dropped again in the same place (`InUbl`, `MeansSettle`).

- `EntriesJudged` is about one step, from an identifier as it was issued to what was entered:
  `EntryInv` only adds that the issued one is valid and bare. The work is in what the recursive
  functions of the validators compute. Each is a *run*, a value carried along the text
  (`Recursion`, `RecursiveRun`), and two runs are compared by the least place where they would
  go apart (`ApartAfter`, `TogetherBefore`). 10 and 100 have inverses modulo 97 and 23, so a
  difference in one digit, or in two neighbours, lasts to the end (`DigitApart`, `SwapApart`), and one
  that spans number and key is settled by the sizes of both (`KeyExchanged`,
  `KeyedExchanged`). In a weighted sum one summand differs, by less than the modulus or
  prime to it (`SumChange`, `WeightedDigit`, `LuhnDigit`). What is stripped leaves the
  identifier as it was, wherever it came in (`GroupedKept`, `Stripped`, `PrefixGone`).
  That identifiers are issued bare (`CandidatesBare`, from the docstring "no spaces, no prefix") is
  needed: a digit inside a prefix or beside a separator is not the validator's to judge.

All safety properties of the passing runs are proved, the action properties and the three
refinements included. Only model-checked are the liveness properties: fairness and ENABLED are outside
the prover's reach. The textual claims of section 4 are refuted by counterexamples, not
proved. Induction over data with an operator parameter is beyond the installed provers; where a
proof needs a least number or the first difference, the well-founded order of
the naturals is cited instead (`Least`, `Reaches`).

## 6. Not modelled

Components left out as a whole, because nothing in them has a state of its own that more
than one step touches:

- plugin server and masking (`base_server.py`): start-up registration
  and abstract handlers that country packages, not in this repository, fill in; one
  regular expression per kind of secret;
- profile registry and environment endpoints: dictionaries filled at import, the entries of
  which come from those packages;
- repository audit (`audit.py`): a development tool that runs once over package metadata;
- PDF embedding, QR codes: bytes handed to libraries;
- archive interface, exceptions, logging, test support: declarations.

Left out of modelled components:

- HTTP client: jitter and the value of `Retry-After` (a sleep ends at some time),
  certificate pinning, settings parsing, the handshake of the mTLS and JWS modes
  below the token, the pagination and download helpers, which are single requests here;
- audit log: the stderr fallback, the lazy default instance, log wording;
- Peppol MLS and reporting: the document builders and the parser of a response, which
  move text field by field (what validates the documents is modelled);
- identifiers: the Mexican RFC, a pattern whose check digit the code does not verify;
- document model: the sums of an invoice whose totals are finer than a cent, which its first
  serialisation rounds one by one, the item price extension, `ubl_documents.py` (declarations), the elements'
  order and layout in XML;
- digital signatures: RSA, the rendering of canonical XML beyond namespaces in scope and
  comments, the resolver of the SAT stylesheet's imports;
- XSLT engines, XML parsing, X.509 path building, MIME parsing and `asyncio`'s streams are
  library code, modelled by what the code sees of them.

What would be worth adding: the composition of the gate with the AS4 exchange (one approval,
at most one delivery, as far as the findings above allow it).
