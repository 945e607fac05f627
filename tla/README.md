# A TLA+ model of Hikmaon

Hikmaon registers media on the Hikmalayer chain, recognises copies of registered
media, asks the owner what to do about each copy, files takedown cases, and serves
accounts and a dashboard on top. The backend is one Python process (FastAPI, one
uvicorn worker); the state is a set of dictionaries in memory that is written to one
JSON file after each mutating request. This directory models the parts of it whose
behaviour depends on order, interleaving, failure and restart, model-checks them with
TLC and proves the main invariants with TLAPS.

Paths below are relative to the repository (`backend/app/storage.py`, ...).

## 1. Inventory

### How the process runs

* Routes declared with `def` run in a pool of threads, so two handlers interleave at
  any call, backward jump or I/O operation; there is no lock anywhere in
  `backend/app`. Single dictionary operations are atomic under the interpreter lock.
* Routes declared with `async def` (`webhook_event`, `billing_webhook`,
  `create_crawl_job`) and the crawler's tasks run on the event loop, next to the pool.
* Every component keeps its records in the one `InMemoryStore` and ends what it does
  by calling `store.persist()`.
* The browser dashboard (`frontend/app.js`) is single-threaded but has several
  requests in flight at once.

### Components

| component | source | state | operations | must be correct |
|---|---|---|---|---|
| snapshot store | `storage.py` | the sections (registrations, certificates, ledger, evidence, incidents, cases, accounts, tokens, ...) and the file | `persist`, `load` | what was answered survives a restart; the file is closed under references |
| registration, certificates, pipeline, evidence, notification, verification | `services/registration.py`, `certificate.py`, `pipeline.py`, `evidence.py`, `notification.py`, `verification.py` | records in the store | register, issue a certificate, run a detection cycle, open an incident, notify, verify | a registration always has its certificate and ledger entry; an incident its evidence and media |
| owner consent and takedown | `services/takedown.py` | incident and case status, case history | owner decision, filing and updating a case | one final decision per incident; a refusal has exactly one case; nothing is enforced before the decision |
| accounts and refresh tokens | `auth.py` | accounts, refresh tokens by hash, sign-in failures | register, login, refresh, logout | one token in use per session; reuse of an exchanged token revokes the session; one account per email |
| dashboard session | `frontend/app.js` | a pair of tokens in local storage | sign in, fetch with refresh on 401, sign out | a legitimate user is not signed out; client and server agree on the session |
| billing, licences, API keys | `billing.py` | plans, monthly usage, licences, keys | meter, reserve a slot, mint a key, payment events, licences | no use above the limit; a cancelled plan stays cancelled; a licence is not overwritten |
| matching service and index | `services/ai.py` | image index cached by the number of registrations | rebuild, search, collect sightings | no registration scores more than the one reported |
| chain client | `hikmalayer.py` | development ledger; the remote chain | submit with four attempts, verify | every registration has the transaction it names |
| crawler | `services/crawler.py` | jobs, queue and visited set, robots and politeness per host | create, start, run, crawl a page, process media, schedule | a job ends; bounds, scope, robots and politeness are respected |
| guarded fetch | `net_guard.py` | none | fetch with checked redirects | every hop is checked; at most five redirects |
| platform OAuth | `integrations/oauth.py`, `providers.py` | pending states, encrypted tokens of the connectors | start, callback, token refresh | a state is used once; the entry follows the platform's token |
| media sync and webhooks | `integrations/sync.py`, `webhooks.py`, `services/connectors.py` | connectors | connect, disconnect, sync a listing, take a webhook, ingest one medium | a sync passes over what is registered; a disconnected account adds nothing more |
| perceptual and audio-visual matching | `perceptual.py`, `av_fingerprint.py` | none | hashes, alignment, offset search | a cut and a grabbed frame of a video are found |
| forensics and model serving | `forensics.py`, `services/model_serving.py` | a loaded model | scores | numeric only |
| monitoring | `services/monitoring.py` | a list of sightings | append | - |
| HTTP API | `main.py`, `models.py` | the analysis cache | the routes | the cache keeps its bound |
| training pipeline | `backend/ml/` | files | split, train, evaluate, export | no group in two splits; calibration and AUC are what they are called |

### How they interact

A request enters through `main.py`, which authenticates it (`auth.py`), meters it
(`billing.py`) and calls one service. Registration calls the chain client, the
certificate service and the store; detection calls the matching service, the evidence
service, the pipeline and the notification service; an owner decision calls the
takedown service and the notification service. Several of these call `persist()`
themselves, so one request saves up to three times, and between two saves every other
thread may save the half-finished state. The dashboard drives the account routes.

### What is hard

1. **Interleaving inside `persist()`.** The sections are copied or walked one after
   the other while other handlers insert; two handlers may be inside it at once.
2. **Check, then act.** The status of an incident, the mark on a refresh token, the
   email of an account, the usage counters are read in one step and written in a later
   one.
3. **Failure in the middle.** `persist()` raises when the disk is full or when a
   dictionary changes size under its walk; the request is answered 500, what it did in
   memory stays and the next save of anybody writes it out.
4. **Crash and restart.** The process starts again from whichever file was last put
   in place, which may lie between two saves of one handler.
5. **Lost and parallel answers.** The dashboard keeps what it last stored; the server
   may already have marked it.
6. **Long histories.** Months roll over, tokens expire, cases are updated repeatedly,
   index and cache entries age.

`PROJECT.json` lists each of these at its line, with the properties that cover it or
the reason why none does.

## 2. Plan

In this order, the most central behaviour first.

| module | what it models | state |
|---|---|---|
| `SnapshotStore`, `SnapshotStoreProofs` | the save protocol under the handlers of registration, detection and takedown | done |
| `ConsentWorkflow`, `Takedown`, `TakedownProofs` | the promise of the consent workflow, the handlers that implement it | done |
| `Accounts`, `AccountsProofs` | sessions and refresh tokens | done |
| `Dashboard` (composes a client with `Accounts`; proofs in `AccountsProofs`) | the browser's token handling | done |
| `Crawler`, `CrawlerProofs` | job life cycle, bounded breadth-first walk, robots, politeness, redirects; every task ends (liveness) | done |
| `Billing`, `BillingProofs` | monthly metering, registration slots, keys, payment events, licences | done |
| `PlatformVault` | pending states, callbacks, connectors and the refresh of their platform tokens | done |
| `MediaIngest` (composes ingestion with `PlatformVault`), `IngestProofs`, `RegistrationProofs` | sync runs, webhook deliveries, posted items, and the submission of each to the chain with retries | done |
| `Matching` | hashes, alignments and scores as pure operators | done |
| `Analysis` (composes `Matching` with the handlers), `AnalysisProofs` | the search with its cached index, the sightings, the detection cycle, the cache of reports | done |
| the throttle of sign-ins | the window of failures and the lockout | open |
| `Metrics`, `DatasetSplit` | rank AUC and calibration bins, group split | open |

Abstract specifications: `ConsentWorkflow` for `Takedown`. The crawler's walk is
compared with a reachability set (`Reach`, `ReachPolite`), and the search of `Analysis`
with the maximum over the registrations and with how a clip was cut (`TakenFrom`), as
reference definitions.

Every invariant and every action property of the passing runs is proved (section 5).
Worth proving next: `NoFalseTheft` for pages that wait for a running exchange.

## 3. What is modelled

All modules write a handler as the sequence of its steps that another thread can
observe. `pc[t]` is where thread `t` stands. A dictionary operation, and a run of
statements without an observable effect, is one step.

### `SnapshotStore` - the save protocol

State: `mem` and `disk` give for each section the identifiers of its records. The
records one request creates share an identifier, so a reference from one section to
another is either "the same identifier" (registration, certificate, ledger entry) or
`target[k]` (incident to registration, case to incident). `acked` are the requests
answered with success; `base` and `diskBase` remember what had been answered when the
running `persist()`, and the one that wrote the file, began.

| action | code |
|---|---|
| `Start` | a request reaches its handler, and the record it is about is found in memory (`Found`), or it is not served |
| `Put` | one insertion (`issue`, `_dev_ledger`, `store.registrations[...] = ...`, ...), in the order of `RegisterSteps`, `DetectSteps`, `RemoveSteps` |
| `ReadSection` | `persist()` serialises the next section. The ledger, tokens and similar sections are put into the snapshot as the dictionaries themselves, so `json.dump` walks them last: hence `ReadOrder` |
| `ReplaceFile` | `os.replace` |
| `PersistFails` | the exception path: temporary file removed, 500 |
| `Respond` | the answer |
| `Restart` | the process dies at any step; `load()` |

Left out: sections that nothing refers to (notifications, usage, connectors, crawl
jobs, keys), and what the records contain.

### `ConsentWorkflow` and `Takedown` - owner consent

`ConsentWorkflow` is the promise: one decision per incident, no case for an allowed
incident, a case with every refusal, closing only after a refusal, nothing taken back.
A client that looks at the saved state may see several stages passed at once, since a
failed save is made up for by the next one.

`Takedown` is the code: `incidents` and `cases` in memory and on disk. `Decide` is the
status check of `apply_owner_decision`; `Allow` and `RequestRemoval` the assignment;
`FileCase`, `SetStatus`, `AppendHistory` the filing of a case and `_transition`;
`LinkCase` the note of the case in the incident; `UpdateCase`, `CloseIncident` the
route that reports a platform's outcome; `SaveAgain` a second `persist()` in a row;
`WalkIncidents`, `WalkCases`, `ReplaceFile`, `PersistFails`, `Restart` the store.
`OtherRequest` is any other handler that saves. The mapping to `ConsentWorkflow` is
`phase = diskIncidents[i].status`, `filed =` a case of `i` is on disk.

### `Accounts` - sessions

A token stands for its hash; a family is named by its first token. `SignUp`,
`InsertAccount` are `register` before and after the key generation and the password
hash; `SignIn`, `FindAccount`, `UnknownEmail` are `login`; `Issue` is
`_issue_tokens`; `Refresh`, `RefreshRotated`, `RefreshExpired`, `Unknown` are the
branches of `refresh` up to its checks; `Rotate` marks the token; `Revoke` removes the
family; `SignOut` is `logout`; `Expire` is the clock. `WalkAccounts`, `WalkTokens`,
`ReplaceFile`, `PersistFails`, `Restart` are the store. An expired token is dropped
without a save, as in the code, and so it may be back after a restart.

Left out: passwords and the throttling of sign-ins, key signing, access tokens (except
in `Dashboard`).

### `Dashboard` - the client

It EXTENDS `Accounts` and drives it: a request of the client and the step of the
server that takes it up are one action (`SignInCall`, `RefreshCall`,
`RefreshRefused`, `SignOutCall`), the server then works (`Work`), answers (`Answer`),
and the client receives (`Receive`) or loses the answer (`LoseAnswer`). `OpenPage` is
`refreshAll`, which sends all of `Call` at once; `Fetched`, `Unauthorized` are the two
outcomes of the first fetch in `request()`. The step of a callback up to its next
`await` is one action.

### `Crawler` - jobs on the event loop

A job is a task of the event loop, and a step is the code between two `await`s that
may suspend it. `Create` and `CreateUnsaved` are `create_job` and `start_job`; `Begin`,
`BeginUnsaved`, `Complete`, `Collapse` the frame of `run_job`; `Skip`, `Visit`, `Arrive`,
`Unreadable`, `FetchFails`, `PageDone` the loop of `_crawl`; `NextMedia`, `IndexMedia`
are `_process_media`; `Approach`, `RobotsAnswer` are `_robots_allowed` and `BePolite`,
`Wake` are `_be_polite`; `Hop` is the redirect loop of `net_guard.safe_get_async`;
`Restart` loads the jobs but starts no task. The robots answers and the last request to
each host belong to all jobs.

The web is given by constants (`Links`, `Media`, `Redirect`, ...). Time is the window
of politeness: `window[h]` are the jobs whose request to host `h` is younger than
`POLITENESS_SECONDS` and was noted by `_be_polite`, oldest first; `Cool(h)` lets the
oldest grow old; a job that sleeps waits for the request that was the last when it
looked. A request for a robots file and the hop of a redirect (`net_guard.py:147`) go out
without a wait and are not noted: `unnoted[h]` says how many noted requests are still
young from before the latest of these, so that it grows old in its turn (`SendUnnoted`,
`CoolUnnoted`). `clean` remembers that no page request of a job failed and that every
robots file was found.

Left out: what a page contains beyond its links, the pipeline that a media file goes
through (it may raise: `Collapse`), errors and counters of a job other than `pages`.

### `Billing` - limits of one account

Accounts do not share plans, usage, slots or keys, so there is one account. `Analyse`,
`LookUp`, `MakeEntry`, `Install`, `Count`, `QuotaReached`, `Answer`, `SaveFails` are
`check_and_count_analysis` with `_usage` inside; `Summary` is `account_summary`, which
calls `_usage` too; `Register` is the check of the slots, and `InsertRegistration` the
end of the registration after it; `Ingest` a registration that arrives over a connector
(`pipeline.py:49`), which asks for no slot; `Mint`, `InsertKey`, `RevokeKey` handle keys;
`ActivateLicense`, `PaymentEvent`, `CancelEvent` change the plan; `Rollover` is the
calendar. A usage entry is a dictionary with an identity: a thread may hold one that the
store no longer does. Between the comparison and the increment in
`check_and_count_analysis` there is no call and no backward jump, and so, in CPython
3.10 and later, no switch of threads: they are one step. `plan`, status and period of an
account change in one step; a thread that read them half-changed would find one of the
same three plans, and the properties are about the largest of them.

`SetPlan` is `dev_set_plan`, which needs no payment: a paid plan runs for the days asked
for, and the free plan clears status and period.

`slots` are two counters, the registrations that asked for a slot (`regs`) and those of
connectors (`ingested`); the check sees their sum.

Left out: persistence (a failed save only decides whether an analysis is answered),
signatures and checkout sessions, and finding the account of an event.

### `PlatformVault` - connections to platforms

`flow` are the pending states, `asked[s]` the provider a state was drawn for, `aged`
those older than ten minutes. `Start`, `Prune` are `start`; `Callback` takes the entry
out and checks it; `Exchange`, `ExchangeFails` are the exchange of the code and the new
connector; `Connect`, `Disconnect` are `connect_account` and `disconnect_account`.
`access_token` is `TokenFresh`, `TokenMissing`, or `TokenStale` followed by `Refreshed`,
`RefreshLost` or `RefreshFails`, and `StoreToken`. A platform token is the number of its
generation: `live[c]` is the one the platform of connector `c` accepts (external),
`vault[c]` the one in the entry. `Rotating` are the platforms that answer a refresh with
a new refresh token and accept the old one no longer. `broken` records the connectors
whose newest token was lost on the way or with the process; no save can bring it back.
`persist()` is two steps: `Capture` serialises connectors and entries into a picture,
`Replace` puts the picture into the file, and `SaveFails` is either of them raising. Two
handlers that save at once may replace the file in the other order, and an older picture
stays there. A picture is `newest` as long as no later save has begun, which is when the
file is bound to follow the platforms. That the sections of one picture are of different
moments is the subject of `SnapshotStore`.

### `MediaIngest` - what arrives over the connections

It EXTENDS `PlatformVault` and takes its actions into the handlers of this system
(`VaultRequest`, `VaultStep`, `VaultEnd`, `CaptureAll`, `InstallAll`, `RestartAll`).
`Sync`, `List`, `ListFails` are a sync up to the listing, `SkipItem`, `TakeItem`, `Finish`
its loop, and that of a webhook delivery (`Webhook`); `Post` is a medium in the body of a
request. `Lookup` is `ingest_from_connector`; `Submitted`, `SubmitLost`, `SubmitFails`,
`TryAgain` are `_submit_rpc`; `Store` the rest of `register_media`. `ledger` is the remote
chain (external): a transaction may be applied although its answer is lost. `Authentic` is
`_authenticate`, `ExtractEvents` is `_extract_events`: the entries that have what is asked
for, in their order (`Chosen`), as in the listings of the adapters. `Verified` is
`verify_registration` against `GetTransaction`. Each event of a delivery names its own
connector (`webhooks.py:77-78`), or none that is known, and is then passed over. The
webhook handler is `async def` and calls all this without an `await`, so that deliveries
come one at a time; what the pool was handed before may start, and end, at any time
meanwhile.

Left out: what a listing contains beyond usable entries, the verification handshake of
a webhook, signatures as numbers, the development ledger (its registrations have their
transactions at once; that they are saved together is in `SnapshotStore`).

### `Matching` - hashes and scores

Pure operators, from decoded media on: `PHash`, `DHash`, `SoundPrints`, `Chunks` make the
fingerprint (`Fingerprint`), `FramesScore`, `SoundsScore`, `FrameGrab`, `ImageScore`,
`ChunkScore` compare, and `MatchPercentage` chooses among them. A hash is the set of its
one bits. A similarity is a fraction, and rounding is to tenths of a percent, as in the
code. The median is taken over an odd number of coefficients. `Overlap` and `Offsets`
are the loops over alignments; `Coarse`, `CoarseBest` the search of every fourth offset
before the finer one. Left out: decoding, transforms, filters and embeddings: their
results are the constants `Raw` and `Cosine`.

### `Analysis` - the search and the reports

`ReadKey`, `StartList`, `EndList`, `StoreIndex`, `Pick` are the index of registered
pictures, a set of positions in the order of registration, and the choice of the best of
them (`BestPicture`); `StartScan`, `EndScan` are the loop over the other registrations,
whose result is the first that scores the most (`BestOther`), taken where it `Improves`
on what was found before; `CollectUrls` the sightings, `Detect` the cycle's incident, and
`LookAtCache`, `StartWalk`, `Oldest`, `Evict`, `Insert` the last lines of `analyze`. A
walk over a dictionary is two steps, its beginning and its end: an insertion in between
changes the size, and the walk raises. `Register` and `Sight` are what other handlers
add meanwhile. The cache may be filled to any degree at the start. Left out: the
forensic verdict and the text of a report.

### Fault operators

Each specification also defines a few operators marked "A fault": a variant of one
definition with a plausible mistake (a dropped guard, a section forgotten by
`persist()`, a swapped order). No specification uses them. Substituted for the
definition they vary, each makes TLC find a violation of the property it is paired
with in `PROJECT.json` ("mutants"): this is how we know that the property depends on
the code.

## 4. What is checked

| run | instance | shows |
|---|---|---|
| `SnapshotStore_serial` | 1 thread, 4 requests, 2 restarts | `AckedDurable`: what was answered is in the file. `ReferencesComplete`: no dangling incident, evidence or case in the file. `NothingDropped`: no save or restart takes a saved record away |
| `SnapshotStore_concurrent` | 2 threads, 3 requests, 1 restart | `RegistrationsComplete`, `SnapshotCoversBase`: what still holds when handlers interleave anywhere |
| `SnapshotStore_lost_update` | 2 threads, 2 requests | violation: of two overlapping saves the older replaces the newer, an answered request is lost |
| `Takedown_serial` | 1 thread, 2 incidents, 3 cases, 1 restart | `DecisionIsFinal`, `RemovalHasCase`, `CaseImpliesDecided`, and `FollowsWorkflow`: the saved state implements `ConsentWorkflow` |
| `Takedown_stuck_removal` | 2 threads, 1 restart | violation: a refused incident without a case, which no request can repair |
| `Accounts_serial` | 1 thread, 2 accounts, 3 tokens, all may expire, 1 restart | `OneLivePerFamily`, `ExchangedNeverLive`: one token in use per session, never one that was exchanged. `RevocationHolds`: revoked and signed out stays so, in memory and in the file |
| `Dashboard_one_call` | 1 call, 3 tokens, 1 lost answer, 1 restart | `NoFalseTheft`, `Agreement` for a page with one request in flight |
| `Dashboard_parallel_calls` | 2 calls | violation: two requests of one page present the same refresh token, the session is revoked |
| `Crawler_jobs` | 2 jobs (5 pages at depth 2, 1 page at depth 1), 11 URLs on 2 hosts, 2 redirects, 1 restart | `WalkExact`: no page beyond the depth, and every page within it for a job without failures. `SpacedPerJob`: the requests of a job that pass `_be_polite` are spaced. `RobotsKept`. `EndsWithReport`: no task leaves without an outcome. `TasksEnd` (liveness): every task ends |
| `Billing_limits` | 2 threads, 2 months, quotas 0, 1 and 1, slots 1, 1 and 2, keys 0, 1 and 1, 1 registration by a connector | `QuotaKept`: by how much concurrent requests overrun a quota. `Metered`: when every answered analysis is counted. `LimitsBounded`: by how much concurrent requests overrun the slots and the keys |
| `Ingest_connections` | 2 threads and the event loop, 1 state, 2 connectors, none, one or both on file from before, a rotating provider, 2 deliveries, 3 requests of which 2 ingest, 2 generations of a token, 2 attempts, 1 restart | `OneConnectorPerState`, `VaultFollowsPlatform`: repeated, late and racing callbacks, refreshes and saves. `EveryRegistrationAnchored`: a registration names a transaction that was applied, whatever answers were lost. `SyncSkipsKnown`. `DisconnectStops`: connectors that go during a delivery with events for both |
| `Detection` | 2 threads, 2 registrations of 4 media, 3 probes, 1 sighting, 2 analyses, a cache of 1 | `AnswersComplete`: nothing registered before scores more than the answer, although the index may be stale. `ClipFound`: a cut or a grabbed frame of a registered video is found with 100 %. `CacheBounded` |

Each passing run also checks the type invariant of its module, where it is a serial
one or the only one, and every action of every specification is taken in some passing
run.

**Serial and concurrent instances.** With one thread the requests come one at a time; this
is what the tests of the repository exercise, and the promises of its documentation that
are properties here hold there even with failed saves, crashes at any step and restarts.
With two threads many of them do not: three violations are runs, the others are among the
observations below. What is left for any number of threads is stated by theorems:
`LinkedCaseExists`, `SpentStaysSpent` and `ExchangesBounded` (that a token is exchanged at
most once per thread) are proved and have no run: in one thread the interleavings they are
about cannot happen. The claims of the serial runs are proved for requests one at a time,
whatever their number. Two threads suffice for the violations.

**Bounds.** `MaxRestarts`, `MaxLost`, `MaxRedirects`, `MaxMonth`, `MaxMade`,
`MaxIngested`, `MaxRequests`, `MaxRuns`, `MaxTokens`, `MaxRegs`, `MaxSightings`,
`MaxAnalyses` and the sizes of the sets are the only bounds; no counter is cut off
otherwise. Four requests in `SnapshotStore_serial` are one registration, one detection of
it, one removal of that incident, and one more; three in the concurrent run are the
longest chain of references. Three tokens in `Accounts_serial` are one token and two
successors, so that a token comes back that was exchanged before the last exchange. A run
with symmetry checks no property that names an element, and none with symmetry checks a
temporal property.

The web of `Crawler_jobs` has one of each case the code distinguishes: a page reached by a
short and a long way, one found twice before its turn, one below the last level, a cycle,
a redirect, one that leads to itself, a disallowed page, a private address, a link out of
the domain, a media file linked twice. `MaxRedirects` is 2 (the code: 5), enough for a
redirect that is followed and one that is given up. The second job takes the first page
and no more, while the first one waits for it at the same host. In `Billing_limits` the
quotas are 0, 1 and 1 (the code: 100, 5000, 10^6), so that a limit is reached, and one
read before a change of plan is larger than the next; two entries in a month (`MaxMade`)
are the race at a month's end.

In `Ingest_connections` two handlers race for one state or one token, and the third
request connects, disconnects, syncs or posts. Two connectors are those on file, or, with
fewer on file, those that callbacks make, which two would if both got through. Two
generations are a refresh of a grant and one with a token that was used before, which a
rotating platform refuses: the harder case, as without rotation the token never changes
(`IngestProofs` covers both). Two attempts (the code: four) are one that fails and one
that succeeds or gives up. A delivery has an event for each of two connectors, a second
one for the first, and one without a medium; each of the two connectors may be
disconnected at any point of it, by a handler of the pool.

This run has a `CONSTRAINT` (`Apart`, in `MCMediaIngest`): from a state in which a delivery
is processed it goes on only if no other request ingests, no authorization is under way,
no submission was repeated and the process has not restarted; connectors come and go, and
saves overtake each other and fail. Without it the graph has more than ten million
states. What it leaves out of a delivery, a sync or a posted item shows by itself (the
handlers share `Lookup` to `Store`), and the theorems of `IngestProofs` and
`RegistrationProofs`, which cover all properties of the run, know no such constraint.

The media of `Detection` are one of each way to be compared: a picture and an edited
copy, a film with a clip of its end and a frame of it, a file and an extract. Hashes have
6 bits (the code: 64) and sound prints 2 (the code: 32), which is enough for every bit
to be decided by a comparison of its own and for coefficients that are equal to the
median; 4 frames are sampled (the code: 240) and 7 windows of sound, and the film is
longer than both. Two registrations decide every question of order; the cache of one
report (the code: 1000) is at its limit all the time, and `AnalysisProofs` covers every
other limit.

**Fairness.** `Crawler` assumes weak fairness of `TaskStep(j)` for each job and of
`Cool(h)` for each host: the event loop runs every task that is ready, `httpx` ends a
request by its timeout (`PAGE_TIMEOUT`, which is per read: a server that keeps on
sending a byte at a time is not excluded by the code, and is by the assumption), and
time passes. Nothing is assumed about creating jobs, forgetting robots files or
restarts. The other modules assume none, as their properties are safety properties: a
thread may stop for ever at any step, which is also what a crash without a restart
looks like, and so `CHECK_DEADLOCK FALSE`: when all identifiers have been used, or all
jobs are done, the system rests. (`Billing_limits` never rests, and checks deadlock.)

**Observations outside the runs.** These are visible in the models without a run of
their own.

* Decisions: two overlapping decisions on one incident both pass the status check
  (`services/takedown.py:57`) and the later one overrides the earlier, although
  `backend/tests/test_flow.py:120` says "A second decision on the same incident is
  rejected" (`DecisionIsFinal` is a claim about one request at a time).
  `update_case_status` (line 137) gives a case any status after any, so that a recorded
  outcome is taken back, although `services/takedown.py:10` says "tracked open -> reported
  -> removed/rejected". When the save of the case's notification fails, the incident keeps
  its refusal and the case stays, but the incident never names it
  (`services/takedown.py:115`). Two updates of one case may leave a history whose last
  entry is not its status.
* Accounts: two overlapping exchanges of one refresh token both pass the check of the
  mark (`auth.py:214`) before line 228 sets it: the session has two tokens in use and
  nothing is revoked, although `auth.py:10-12` says that "reuse of a rotated token is
  treated as theft and revokes the whole session family" (`OneLivePerFamily` fails with
  two threads). A refresh that is between its mark and the new token when a reuse
  revokes the family issues its token into the revoked family (line 229; with two threads
  `RevocationHolds` fails). Two overlapping sign-ups with one email both insert an account
  (line 133), where `backend/tests/test_auth.py:53` has the second one refused with 409.
  A page that loses the answer to an exchange presents an exchanged token the
  next time, which revokes its session (`Undisturbed` excludes it from `NoFalseTheft` and
  `Agreement`).
* Crawler: `services/crawler.py:7` says "at most one request per host per
  ``POLITENESS_SECONDS``" and `docs/DEPLOYMENT.md:208` "1 req/s politeness". Requests for
  robots files (`services/crawler.py:254`) and the hops of redirects (`net_guard.py:147`)
  neither wait nor are noted: after the first page of a host `unnoted[h]` and `window[h]`
  both hold a request less than the delay ago; and two jobs that wait for one request to
  grow old both send when it has. `SpacedPerJob` is what is left. A robots file that
  cannot be fetched counts as "everything is allowed" for an hour and for all jobs
  (`services/crawler.py:259`); where a redirect leads is compared neither with the robots
  rules nor with the allowed domains, and the media of a page are not compared with the
  domains. After a restart a job that was running says so for ever.
* Billing: a connector's media are registered without asking for a slot
  (`services/pipeline.py:49`; only `main.py:263` asks), so that no plan bounds the
  registrations of an account that has connectors, and two requests that count together
  both take the last slot, although `docs/DEPLOYMENT.md:217-221` has the plans "gate
  features and monthly usage" with 25 registrations for the free plan. On the first
  requests of a month two threads may each make a usage entry, and what one of them counts
  is lost (`billing.py:115`), although line 227 says "Every analysis is metered"
  (`Metered` is about a month with one entry). A failed save refuses an analysis that
  stays counted (`SaveFails`); a late payment event reactivates a cancelled subscription,
  and any payment or cancellation replaces an enterprise licence that has not expired.
* Ingestion: a sync collects the registered hashes once (`integrations/sync.py:48`), so
  that the same medium twice in one listing is registered twice, although line 6 says
  "Items already registered (same content hash) are skipped"; two syncs at a time, or a
  webhook that is delivered again, register content twice too (`SyncSkipsKnown` is what is
  left). Of two overlapping saves the older picture may replace the newer one, and a
  refreshed platform token is then only in memory until the next save (`newest` in
  `VaultFollowsPlatform`). A lost answer leaves a transaction on the chain that no
  registration names, and so does a crash after the submission. An item whose connector is
  disconnected in the middle of a sync ends the sync with an exception. `connect_account`
  stores a placeholder that cannot be decrypted, and a sync over such a connector ends
  with 500 (`TokenMissing`). A webhook runs the downloads and the retries of the chain
  client on the event loop: nothing else is answered meanwhile. When the process dies
  between the answer of a rotating platform and the save, the connection is lost and the
  owner has to authorize again (`broken`).
* Matching: `av_fingerprint.py:297` promises a bonus when picture and sound agree, but
  four fifths of the larger score and one fifth of the smaller are never more than the
  larger. A clip of fewer than `MIN_FRAME_OVERLAP` sampled frames scores nothing, only
  the first `MAX_FRAMES` frames and `AUDIO_MAX_SECONDS` of a video are sampled at all,
  and a cut of the sound is certain to be found only where the coarse search passes
  (`TakenFrom` says all three). Blocks of a file are compared where they are aligned to
  the stride.
* Analysis: a registration that is stored while an analysis walks over the registrations
  ends the analysis with 500, after it was metered; so do two evictions at a time.

## 5. What is proved

| theorem | for | assumes |
|---|---|---|
| `StoreTypeCorrect` | any threads, requests and restarts | `SnapshotAssumption` |
| `RegistrationsCompleteOnDisk` | any threads, requests and restarts | `SnapshotAssumption` |
| `SnapshotCoversEarlierAnswers` | any threads, requests and restarts | `SnapshotAssumption` |
| `SerialAnswersAreDurable`, `SerialFileOnlyGrows` | any requests and restarts | `SnapshotAssumption`, `Serial` |
| `SerialReferencesComplete` | any requests and restarts | `SnapshotAssumption`, `Serial` |
| `WorkflowTypeCorrect` | any threads, incidents, cases, restarts | `TakedownAssumption` |
| `LinkedCaseAlwaysExists` | any threads, incidents, cases, restarts | `TakedownAssumption` |
| `CasesBelongToDecisions` | any threads, incidents, cases, restarts | `TakedownAssumption` |
| `SerialRemovalHasCase`, `SerialDecisionIsFinal` | any incidents, cases, restarts | `TakedownAssumption`, `Serial` |
| `SerialFollowsWorkflow`, the refinement of `ConsentWorkflow` | any incidents, cases, restarts | `TakedownAssumption`, `Serial` |
| `TypeCorrect` (`Accounts`) | any threads, accounts, tokens, restarts | `AccountsAssumption` |
| `SpentIsFinal` | any threads, accounts, tokens, up to the first restart | `AccountsAssumption` |
| `ExchangesAreBounded` | any threads, accounts, tokens, up to the first restart | `AccountsAssumption` |
| `SerialOneLivePerFamily`, `SerialExchangedNeverLive`, `SerialRevocationHolds` | any accounts, tokens, restarts | `AccountsAssumption`, `Serial` |
| `OneCallNoFalseTheft`, `OneCallAgreement` | any threads, accounts, tokens, up to the first lost answer or restart | `AccountsAssumption`, `DashboardAssumption`, `OneCall` |
| `TypeCorrect` (`Crawler`), `NotedRequestsAreSpaced`, `RobotsHonoured`, `WalkEndsWithReport`, `WalkIsExact` | any web, jobs, limits, restarts | `CrawlerAssumption` |
| `BillingTypeCorrect`, `QuotaHolds`, `AnalysesMetered` | any threads, months, quotas, usage entries | `BillingAssumption` |
| `LimitsHold` | any threads, limits, changes of plan | `BillingAssumption` |
| `OneConnectorHolds` | any threads, providers, states, connectors, restarts | `VaultAssumption`, `IngestAssumption` |
| `VaultHolds` | any threads, providers (rotating or not), connectors, generations, restarts | `VaultAssumption`, `IngestAssumption` |
| `RegistrationsAnchored` | any threads, media, lists, attempts, restarts | `VaultAssumption`, `IngestAssumption` |
| `SyncsSkipKnown`, `DisconnectHolds` | any threads, connectors, lists, deliveries, restarts | `VaultAssumption`, `IngestAssumption` |
| `IngestTypeCorrect` | any threads, lists, deliveries, attempts, restarts | `VaultAssumption`, `IngestAssumption` |
| `CacheIsBounded` | any threads, media, limit | `AnalysisAssumption` |
| `AnalysisTypeCorrect`, `AnswersAreComplete`, `ClipsAreFound` | any threads, media, registrations, hash widths, frames | `AnalysisAssumption`, `MatchingAssumption` |

`Serial` is `\A t, u \in Thread : t = u`: the requests come one at a time. `OneCall` says
the same of the requests of one page, which any number of threads may serve. Without
them these claims fail: the runs that expect a violation are counterexamples
to `AckedDurable`, `RemovalHasCase` and `NoFalseTheft`, and the observations name others.

The assumptions say that the placeholders (`NoId`, `None`) are not identifiers, that the
bounds are natural numbers and, where threads are counted (`AccountsAssumption`,
`AnalysisAssumption`, `BillingAssumption`), that there are finitely many of them. The
other sets are arbitrary, infinite ones included. `MatchingAssumption` is what the types
of the decoded media give.

None of the invariants is inductive as it stands.

* `RegistrationsComplete` speaks of the file. The file comes from a snapshot that was
  filled over many steps, and this from the memory of different moments.
  `CompletenessInv` adds that memory is complete (which needs what a handler in
  the middle of its insertions has done so far: `ProgressInMemory`) and that the
  registrations a snapshot holds have their certificates in memory, and in the snapshot
  itself once the later sections are read. It rests on two orders in the code: the
  registration is inserted last, and read first.
* `SnapshotCoversBase` needs `CoverageInv`: what is answered is in memory, and a
  running `persist()` has it in the sections it has passed.
* `AckedDurable` and `NothingDropped` hold for one thread because a running snapshot
  is then still what memory holds: `SerialInv` says so, and that what was inserted
  before a completed `persist()` of the same handler is in the file.
* `ReferencesComplete` for requests one at a time needs `ReferencesInv`: a section refers
  to another only where the other already has the record, in memory, and so in the
  snapshot, which is a copy of a memory that nobody changes meanwhile. A request refers
  to what was there when it began (`Start`), and nothing is removed.
* `LinkedCaseExists` needs `LinkInv`: what a handler holds at each place, and that the
  incidents in a half-filled snapshot name cases that memory already has. It rests on
  cases being inserted before they are linked, and walked after the incidents.
* `CaseImpliesDecided` needs `DecidedInv`: the handler about to file a case has already
  moved the incident on.
* `RemovalHasCase`, `DecisionIsFinal` and `FollowsWorkflow` for requests one at a time
  need `WorkflowInv`: what the one handler has in hand at each place (`HandlerInv`), that
  its snapshot is what memory holds (`SnapshotInv`), that an incident has a case exactly
  if its owner has refused it, in memory but for the one whose case is being filed
  (`Settled`), and that memory is never behind the file (`Later`). For the refinement each
  action is either a step of memory, which does not change the file and maps to a stutter,
  or the replacement of the file, which maps to a step of `ConsentWorkflow` that may pass
  several stages at once, or a restart.
* `TypeOK` of `Accounts` needs `LocalsFit` and `Owned`: a handler about to mark or revoke
  has a token and a family in hand, and every token that is kept, in the file and in the
  running snapshots too, belongs to a family.
* `SpentStaysSpent`, the property of `SpentIsFinal`, needs `SessionInv`: a token is drawn
  once (`DrawnInv`), so issuing cannot bring one back; and a token is out of use not only
  when its exchange or sign-out is answered but from the mark on, which the handlers
  between the mark and the answer witness (`SpentInv`). After a restart an older file may
  be in place, hence "up to the first restart".
* `ExchangesBounded` counts: the answered exchanges of a token and the handlers about to
  exchange it are together at most as many as there are threads (`CountInv`). A handler
  that passed the check of the mark before the first mark is the only one that can add to
  the first by leaving the second.
* `OneLivePerFamily`, `ExchangedNeverLive` and `RevocationHolds` for requests one at a time
  need `SerialInv`: memory and the file are both `Sound` (one token in use per family,
  none that was exchanged or signed out, none of a revoked family), and what the handler
  at work has in hand (`AtWork`): a token in use until it is marked, a family without one
  until the next is issued, and a snapshot that is what memory holds when the file is
  replaced.
* `NoFalseTheft` and `Agreement` need `CallInv`: at most one thread is at work, for the one
  call; the tokens that clients were given and may still use (`Usable`) are the stored one
  when nothing is under way, the one in the answer while an answer is, and none between
  the mark and the answer. An exchange that fails to be saved leaves a token in use that
  nobody was given. They also need `OwnersExist`: the account of a token in use is there,
  or a token that is refused for its missing account would stay usable.
* `CacheBounded` also counts (`CacheInv`): reports in the cache and those about to be
  inserted. A handler that evicts has seen the cache full, and what is kept never falls
  again, because every eviction is followed by an insertion.
* `OneConnectorPerState` needs `StateInv`: a state is pending, or in the hands of one
  handler between callback and exchange, or the origin of one connector, and in each case
  of the provider it was drawn for. It rests on the entry being taken out before it is
  checked.
* `VaultFollowsPlatform` needs `TokenInv`: nobody has a newer token than the platform; and
  a handler with an answer in hand has the platform's token, which on a rotating platform
  no other handler and not the entry has. Two refreshes at once therefore cannot both
  succeed, and the one that succeeds is the one that writes. `DiskInv` says of every
  picture, on its way and in the file (`OnDisk`), what the property says of the file: one
  that is `newest` differs from memory only where a refreshed token is stored and not yet
  saved. The steps that touch neither
  states nor tokens, all of `MediaIngest`'s own among them, are brought under one formula
  first (`Quiet`, lemma `Moves`).
* `EveryRegistrationAnchored` needs `LedgerInv`: the transactions of a request belong to
  items it has come to (`Reached`), the attempts for one item follow one another and the
  next one is larger than all that reached the node, and a registration, in memory, in the
  file or in a picture on its way there (`Registered`), belongs to an
  item that its request has left behind (`Passed`), so that no later attempt can touch
  it. Numbers of requests are not given twice (`RunInv`). It rests on the loop of
  `_submit_rpc` ending with the first answer, and on the identifier of that answer being
  the one that is stored.
* `SyncSkipsKnown` needs that what a sync collects is collected after its request came
  in (`SkipPart`). `DisconnectStops` needs that the connectors whose item a request
  has stored after they were gone are distinct, gone for good, and not that of the item
  under way (`LatePart`): connectors are made with identifiers of their own, so that one
  that is gone does not come back while the request lives (`GoneForGood`), and no further
  item of it passes `Lookup`.
* `TypeOK` of `MediaIngest` needs `RangeInv`: a request that walks over a list stands at one
  of its positions or just past it, and before the list is made at the first; an attempt
  is one of the allowed; what ingests is in one of the steps of a request.
* `TypeOK` of `Crawler` needs where each task is and what it has in hand there (`TypeInv`,
  `PlaceInv`). `SpacedPerJob` needs that the noted requests in the window of a host are of
  different jobs, and that a sleeping task awaits its own last request or a later one
  (`PoliteInv`, `Waits`). `RobotsKept` needs that no robots file counts as missing while
  `clean` holds, and that a task that sleeps has in hand what was allowed (`Allowed`).
* `WalkExact` needs `WalkInv`: the queue is in the order of the depths, with at most two of
  them in it (`Levelled`), what is visited or queued is reachable in as many links as its
  depth says (`WithinReach`), and whatever a visited page links to is visited, queued or
  excluded (`Exhaustive`). `Reach`, `ReachPolite` and the redirects (`Landing`) are
  recursive functions; their recursion equations and the inductions over depths are
  proved from the least element of a set of natural numbers (`LeastNatural`,
  `Induction`, `RecursionExists`), as the library's induction theorems cannot be used.
* `QuotaKept` and `Metered` need `MeterInv`, which avoids a sum over the entries of a month,
  some of which nobody refers to any more: the answered analyses of a month can be laid
  out in rows (`Ledger`), one for each entry made and each as long as the largest quota, and
  the row of an entry in use holds no more of them than it has counted, less those that are
  counted and not answered yet. An answer adds a place to a row; an entry that is made
  takes a row of its own.
* `LimitsBounded` counts (`LimitsInv`): whoever has passed the check saw room for one
  more, and at most all the other threads did so too. The plan in force may change
  between the check and the insertion; it is always one of the three (`PlanInForce`).
* `AnswersComplete` needs `AnswerInv`: the stored index is complete for the first
  registrations, as many as the key stored with it says; a thread that searches has in
  hand the positions of all pictures that were there when it began, then an answer that
  covers them, then one that covers the others as well. It rests on the key being read
  before the list is made, and on a walk that an insertion disturbs raising an exception.
  That there is a best (`Unbeaten`) needs the scores to be bounded (`ScoreType`): every
  comparison of two fingerprints lies between 0 and 100 percent, and its rounding too
  (`Fraction`, `RoundedPercent`).
* `ClipFound` needs `ClipScore`: a part of a registered video aligns in full at the offset
  where it was cut; no alignment exceeds a full one, so the best is a full one, and the
  coarse search, which passes the offset, settles on an offset that is
  full, from where the finer one cannot lose it.

Each proof has a lemma or a step per action, by the conjuncts of the invariant it can
disturb, and a theorem that combines them.

## 6. What is only model-checked, and what is not modelled

* `TasksEnd`, the liveness of the crawler, is model-checked only: liveness under fairness
  and properties that mention ENABLED are out of the prover's reach. All other properties
  of the passing runs have a theorem.
* The violations are TLC's: each is a behaviour of a small instance.
* Inductions over natural numbers are proved where a recursive function needs them
  (`CrawlerProofs`). Induction over other data, and operators that take an operator
  (`SelectSeq`, `SetToSortSeq`, the folds), are out of the prover's reach; what the modules
  use of these enters no proof but by its type.
* Not modelled: decoding, transforms and model inference (`forensics.py`,
  `services/model_serving.py`, the signal processing of `perceptual.py` and
  `av_fingerprint.py`): numeric code without state or protocol. The training pipeline
  (`backend/ml/`): batch scripts that one person runs, one after the other. Two things in
  it deserve a test: a crash of `prepare_dataset.py` leaves a partly extracted folder that
  a second run takes for a whole one, and two videos with the same name in folders of the
  same name are written to one place; the last bin of the calibration in `metrics.py` is
  half-open, so a probability of exactly 1 is in none.
* Of modelled components: passwords, the throttle of sign-ins and access tokens
  (`Accounts`), signatures of payment events and checkout sessions (`Billing`), sections of
  the store that nothing refers to (`SnapshotStore`), platforms without an adapter, whose
  requests are answered "not implemented" without any change of state (`MediaIngest`).
