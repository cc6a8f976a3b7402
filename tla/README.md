# convert_search_ai in TLA+

TLA+ models of `convert_search_ai`, the service that turns the files of a
FileEngine core into text, search chunks and hidden rendition children, runs AI
extraction and chats over them, and publishes media. Paths below are relative to
`src/src/convert_search_ai/`; `design_documents/` and `tests/` lie beside it.

Every definition is translated from the Python source and named after what it
models where TLA+ allows; `PROJECT.json` maps each one to its lines, lists the
runs with the code change (mutant) that breaks each property, the hazards the
properties are aimed at, and the theorems.

```
tlc -workers 2 -config Conv.cfg MCConversion.tla      # model-check
tlapm Conversion_proofs.tla                            # check the proofs
```

## 1. The system

| process | threads | talks to |
|---|---|---|
| ingest worker (`ingest.py`) | event loop, startup sweep, erasure sweeper | Redis stream of core events, core gRPC, Postgres, embedder |
| API (`app.py`, `api.py`, `headless/`, `routers/`) | requests, chat sockets with a worker thread each, extraction job threads, permission invalidator, relay listener | Postgres, Redis, core, directory, model provider, tool servers |
| media workers (`media_worker.py`), any number | one loop each | Postgres job table, core, `share_service`, ffmpeg |

All of them share one Postgres schema per tenant, and the hidden *rendition
children* a file has in the core. No process locks against another: what keeps
them apart is a unique key, a status column, a tombstone, an order of calls, or
nothing.

### Inventory

For every part: its state, its operations, what is hard about it, what makes it
correct, and the module (— where there is none).

| part | state | operations | hard | correct when | module |
|---|---|---|---|---|---|
| derived store: `store.py`, `vectorstore.py`, `schema.py` | `documents` row, `chunks`, tombstones | upsert, delete, erase, replace chunks | upsert knows no versions; COALESCE keeps text | text and chunks belong to the row's version; nothing comes back after an erasure | `DerivedStore` |
| conversion: `pipeline.py`, `renditions.py`, `emit.py` | locals of a call, children, announcements | `convert`, `write`, `prune_old_versions`, `emit_conversion` | a dozen remote calls without a transaction, four callers at once, each may be killed | the file ends up described, rendered, indexed, announced | `Conversion` |
| chunks and embedding: `chunking.py`, `indexing.py` | texts in hand | `chunk_markdown`, `_bounded`, `index`, `_fit` | unknown limits of the provider, found by halving | the text reaches the index, in order | `Indexing` |
| ingest: `ingest.py`, `events.py`, `reconcile.py` | consumer group, pending list, degraded mode | `run_once`, `drain_pending`, `handle`, the sweeps | redelivery, restart in an outage, lost hints | events in order, at least once; every erasure complied with | `Ingest`, `Conversion` |
| plugins: `plugins/`, `mime.py`, `tools.py` | temporary files, memos of probes | `detect`, `match`, `convert`, `close` | programs missing, failing, leaving empty files | a failure costs what it would have made | `Plugins` |
| media: `media_jobs.py`, `media_worker.py`, `api.py` 746-902 | job rows, children, live links | request, claim, heartbeat, finish, requeue, cancel, retire, reap | hours-long jobs, workers presumed dead | a recorded success has content; links never go dark; jobs end | `MediaJobs`, `MediaWorker` |
| usage: `headless/usage.py` | Redis counters | `run`, `add_tokens`, `tokens_exhausted` | counters shared by instances, a key that expires, kills | limits hold; slots come back; the day's cost is bounded | `UsageMeter` |
| extraction: `headless/jobs.py`, `events.py`, `extract.py`, `runs.py`, `cache.py`, `sse.py` | stream of jobs, sidecars, stored values | claim, reclaim, run, write sidecar, announce | a job claimed twice; revision and erasure around a run | values are of their version; jobs end | `Extraction` |
| one document: `headless/extract.py` | windows, replies | `windows`, check, repair, `merge` | arithmetic of overlapping windows | no passage is cut apart; merging loses nothing | `Windows`, `ExtractItem` |
| prompt sets: `headless/promptset_*.py` | drafts, revisions, the published one | save, publish, retire, `app_publish`, read for a run | several transactions per request | a published revision never changes | `PromptSets` |
| consent: `consent.py`, `headless/consent_relay.py` | waiting requests | request, resolve, relay, shut down | an answer races its timeout, on another instance | a call has an approval; every run ends | `Consent` |
| chat: `chat.py`, `conversations.py`, `api.py` 330-560 | turn, bounded stream, conversation | begin, tool rounds, forward, save | socket, thread and reader end in any order | a turn is kept whole; nobody waits for ever | `ChatTurn` |
| permission cache: `permissions.py`, `cache_invalidation.py` | TTL cache of decisions | `can_read`, `invalidate_*`, event handler | an invalidation during a check | no grant or refusal outlives the TTL | `PermissionGate` |
| doors: `token_revocation.py`, `token_store.py`, `bridge_auth.py`, `tenant_access.py`, `ldap_auth.py` | verdict cache, tokens, introspection cache | `verdict`, `verify`, `resolve`, `authenticate` | a checked value is stale when used | a sign-out is seen within its TTL; verdicts have a reason | `Access` |
| failover: `db.py`, `failover.py`, `ldap_auth.py` | circuit breaker, memo of provisioned tenants | `connect`, `connect_for_tenant`, `authenticate` | attempts hang while others trip or reset | the replica is used near an outage only; tables are made once | `Failover` |
| tool servers: `mcp_client.py`, `mcp_store.py`, `mcp_oauth.py`, `routers/mcp_admin.py` | rows, two caches | create, update, delete, test; list, discover, call | edits between listing, discovery and call | caches cannot be told from asking again | `Integrations` |
| search, retrieval, providers, wiring | | | | I/O around stateless code | — |

### How the parts meet

The core publishes `file.created/updated/restored/deleted/erased`; the ingest
loop (`Ingest` for the whole stream, `Conversion` for one file) handles them one
at a time and calls `ConversionPipeline.convert`, which asks a plugin
(`Plugins`), the embedder (`Indexing`) and writes the derived store and the
children. The startup sweep and `POST /convert` call the same function without
coordination. An erasure reaches the worker as an event, which may be lost, and
as an entry of the core's list of pending erasures, which may not. Media workers
write children of the same files through the same `RenditionWriter`, driven by
the job table. Extraction runs (`Extraction`) read the stored text and write
sidecars; each counts against a subject (`UsageMeter`), cuts and asks
(`Windows`, `ExtractItem`) with a published prompt set (`PromptSets`). Runs and
chats (`ChatTurn`) call external tools (`Integrations`) after an approval
(`Consent`). Every request comes through `Access`, every connection through
`Failover`. Files are independent of each other (every row, child and tombstone
is keyed by the file's uid), so the modules about a file look at one.

## 2. The modules

| module | what it is |
|---|---|
| `DerivedStore` | a file's row, chunks and tombstone, one action per transaction |
| `Conversion` (EXTENDS `DerivedStore`) | everything that can happen to one file: a step per call to the core, Postgres or Redis |
| `Indexing` | chunks of a document and the batches of their embedding, a step per request |
| `Plugins` | detection, dispatch, and every plugin as jobs with routes of calls |
| `Ingest`, `OrderedConsumer` | the event loop over the stream; abstract: an in-order, at-least-once consumer |
| `MediaJobs`, `MediaWorker`, `JobLifecycle` | job table; workers, API, reaper, links; abstract: the life a job may have |
| `UsageMeter` | one subject's counters and the runs that use them |
| `Extraction` | job threads, requests, sidecars and events around one file |
| `Windows`, `ExtractItem` | how a document is cut; how its values come about |
| `PromptSets` | editors, applications and runs, a step per transaction |
| `Consent`, `ChatTurn` | approvals over the relay; one chat connection |
| `PermissionGate` | calls of `can_read`, their cache, the invalidator |
| `Access`, `Failover` | requests by every door; one primary, one replica, one breaker |
| `Integrations` | administrators, turns, discovered tools and tokens |
| `MC*` | instances: `MCConversion`, `MCMedia`, `MCExtraction`, `MCChat`, `MCHeadless`, `MCServices`, `MCLoops` |
| `*_proofs` | theorems: `Conversion_proofs`, `Ingest_proofs`, `MediaWorker_proofs` and `Extraction_proofs` about the module of that name; `Headless_proofs` about `UsageMeter`, `Windows`, `ExtractItem`, `PromptSets`; `Services_proofs` about `Failover`, `Access`, `Integrations`, `PermissionGate`; `Chat_proofs` about `ChatTurn`, `Consent`; `Plugins_proofs` about `Plugins`, `Indexing` |

**Conversion.** `pc` says where each caller of `convert` is, `frame` holds its
locals (`ver` the version stat'ed, `got` the version whose bytes were read,
`reuse` the code's `already_indexed`, `todo`/`open` the renditions to come). The
steps `stat`, `status`, `fetch`, `mark`, `convert`, `touch`, `put`, `prune`,
`index`, `final`, `emit` are the remote calls in the order of the code. Text and
chunks are abstracted to the version they came from, a plugin to the kind of
content it produces; a `dull` text is one of which every chunk is dropped, so
that its version is "indexed" with none. `racing` is who was in flight when the
row was last removed, by a delete or an erasure: their later writes are what no
removal can answer for. `queue` holds the events about this file,
`delivered`/`draining` what a restart does to the oldest.

**Indexing.** A text is the sequence of its characters, and a letter is its place
in the document (block, line, column), so that no letter is lost or reordered
can be read off the rows, of documents of any size. `Chunks` is `chunk_markdown`
as folds over the lines of a block, the blocks and the pieces. `todo` is the
recursion of `_fit`: the batches still to embed, the left half first, each with
its depth. `limit` is the provider's (texts per request, length of one) and
unknown to the service. Cutting is enough (`CuttingIsEnough`) where the length a
provider takes, times `2^SplitDepth`, is the target or more: no chunk is longer,
so no cut of that depth is too long.

**Plugins.** A plugin is a list of jobs, a job has routes tried in order, a
route is a chain of hops, one external call each; a call leaves an exit status
and nothing, an empty file or output, and each hop has the code's own test of
success (`judge`). A text of white space is `blank`: the source and the Markdown
plugin draw nothing of it and its text is decoded all the same, so it is ready,
nothing goes wrong, and it has no renditions (`Undrawn`). `programs` are those installed; `owned` are temporary
directories that somebody still has to release.

**Ingest.** Messages are numbers in stream order; handling one succeeds, is
refused by a read-only core, or raises. `phase` and `degraded` are the two modes
in which the loop replays its pending list. Three faults take entries off its
path: a read of new entries that were delivered but whose answer came too late, a
read of the pending list that times out, and a drain that `run_forever` gives up
on. What they leave pending is `stranded` until a restart or an outage replays
the whole list.

**MediaWorker.** `at` is a worker's place in `run_once`/`process`, `job` what it
claimed, `child`/`full` the children in the core (a uid each, so that a removed
and re-created name is another child), `stale` the jobs whose heartbeat is too
old. A worker that lost its job to the stale recovery goes on working: nothing
in the code tells it.

**UsageMeter.** `slots` is the Redis key with `exists` and `expiring` beside it;
`counted` the day's tokens; `cost` what the windows of the file in hand have
cost, counted only when the file is done.

**Extraction.** A thread is in the job loop or in a request; the file has a
current version, a row with the version it claims, its status and the version
its text was fetched as, a sidecar per version and question, an event per job.
Every call of a service others write to is a step; a conversion, by the run
itself or by anybody else, is stat, fetch, "converting", prune and outcome, and
may stop anywhere. A version has text, none, or no supported type. Slots are the
counter in Redis with its key's time to live: a killed run does not give its
slot back. A process that starts without Redis has no job threads. `Windows` and
`ExtractItem` are loops of one document, a step per turn of the loop.

**PromptSets.** A request holds what its first transaction read (`seen`) while
others go on. **Consent** has a run's thread, the instance's relay, the record
in Redis and answering clients; **ChatTurn** the handler, the producing thread,
the bounded stream and the control reader of one socket.

**Access.** A credential keeps when the directory was read for it and what it
named; the roles are those `roles_in_tenant` makes of a group, which for
`administrators` are two. A session may name a tenant with an empty list of
roles. The denylist key of a session lives as long as the session.

**PermissionGate** and **Access** keep absolute times and date what was lost or
gained, so that an answer can be judged by the age of what it shows. An event may
be missed (`Miss`): read in an answer that came too late, or by another process
under the same consumer name; what it would have evicted lives on for the rest of
its lifetime. **Failover**
keeps time relative: what is left of the cooldown, how long ago the primary was
down. Time does not go back (the code uses `time.time()`).

**Integrations.** A new secret, server or version is a fresh number, so that a
cached thing shows what it was made from. A request is a place (`pc`), the row
as it was read, and for a turn the tools offered; each statement is a
transaction of its own.

## 3. What the runs show

Parts that share no state are checked in one run, one part at a time: a
behaviour of `Services` is one of the plugins *or* of the doors and so on, while
the others rest in one initial state, so nothing is lost and nothing multiplies.

| run | instance | properties |
|---|---|---|
| `Conv` | 2 versions, 1 rendition format, 3 events, seven scopes: two kills with a delete; an outage; requests; a sweep with a kill, a failure and an oversized version; everybody over one version; a restart in an outage; a request over texts with and without chunks, with a delete | `RowsAreTrue`, `ResolvedIsAnnounced`, `QuietErasureIsFinal`, `ComplianceIsReal` |
| `ConvLive` | 2 versions, a delete with an outage or a kill, lost erasure events | `EventuallyCurrent`, `ErasureIsHonoured` |
| `Loops` | one loop at a time: 3 messages, batches of 2, 2 crashes, 2 outages, 2 faults (a late answer, a failed drain); 1 run, 2 calls, 2 answering clients, a fault of Redis; 2 turns, 2 tokens, 2 rounds, a buffer of 1, a database that goes away | `OutageDropsNothing`, `ImplementsConsumer`, `EventuallyAcked`; `ApprovalsHold`, `TurnsAreWhole`, `EverybodyEnds` |
| `MediaCopies` | 1 worker, 2 versions, 2 profiles, kills without bound, reaper; an erasure, or an unpublish and a fault | `SucceededHasContent`, `NeverDark` |
| `MediaLive` | 2 workers, 2 attempts, kills without bound; an unpublish, or a fault and a change of the links | `ImplementsLifecycle`, `EventuallyEnds` |
| `Extraction` | 2 threads, 2 requests, 2 jobs, a converter, 2 versions of every kind of content, 1 slot, in eight mixes: requests with an erasure; a request, or a job, with a revision; a conversion in flight at an erasure; two jobs for a slot; budgets; a kill with an outage; kills that jam the counter | `ValuesAreNotStale`, `QuietErasureForgetsValues`, `JobsAreAnswered`, `JobsEnd` |
| `Headless` | 3 runs, 2 slots, a budget of 2, a kill, a failure, a new day, expiry; documents of up to 11 characters, 5 sizes; 2 windows, 2 fields, every reply; 2 editors, 2 applications, 1 run, 2 sets, in six mixes | `LimitHolds`, `SlotsComeBack`, `OvershootIsBounded`; `NoPassageIsCut`; `ValidMeansAnswered`; `PublishedStays`, `AppsStayInTheDay`, `QuietDecisionsStand` |
| `Services` | one part at a time: every kind of file under 7 sets of programs; 2 threads, 2 sessions and 2 tenants around the cache, and one thread by every door; 2 clients, a primary that comes and goes; documents of 2 blocks of 2 lines, 12 providers, which take 0 to 2 texts of 0, 1, 2 or 8 letters (none, the truncated beginning, just what the deepest cut leaves, a whole chunk); 2 administrators, 3 names, a cap of 1; a turn against edits; OAuth tokens against rotation; for the gate, 1 user, 1 file, 2 calls, lifetime 1, 2 changes of the core, 1 error, 1 missed event, 4 instants, the invalidator may die | `FailureIsContained`, `DispatchIsRight`; `RevocationHolds`, `VerdictsAreDeserved`; `FallsBackRecently`, `TablesAreMade`; `TextSurvives`; `CachesAreTransparent`, `TableIsOrderly`; `GrantsAreFresh`, `DenialsAreFresh`, `EvictionCoversLoss` |
| `ConvErasedRace`, `ConvDrain`, `ConvHeal` | as `Conv`; `ConvHeal` with a sweep, a request and a delete over one version | one property each, violated: section 5 |
| `ExtractPending` | as `Extraction` | `PendingTextIsNotTaken`, violated: section 5 |

`ValuesAreNotStale` is as much as the code gives: a value may come from a *later*
text than its version (the content fetched is the current one, whatever was
stat'ed), from an *earlier* one where a version fetched has no text and the row
keeps the former (COALESCE), and from a row taken in conversion at the second
look, which the run records (`hasty`) and `ExtractPending` shows to be wrong.
`JobsEnd` says `started = {} \/ Jammed` for the two ways jobs do not end: no
process has job threads, or killed runs hold every slot of a counter whose key
has lost its time to live. `QuietErasureForgetsValues` leaves out a file that
was being converted when it was forgotten: `ConvErasedRace`.

Several properties are conjunctions of named parts, each stated with its own
comment: `RowsAreTrue` (a settled row describes the file; indexed means
chunks), `PublishedStays`, `FailureIsContained`, `DispatchIsRight`,
`RevocationHolds`, `VerdictsAreDeserved`, `TablesAreMade`, `TextSurvives`,
`ApprovalsHold`, `TurnsAreWhole`, `EverybodyEnds`, `CachesAreTransparent`.

`DispatchIsRight` says of a sweep's limit what is true of it
(`LimitYieldsToContent`): a file passes it by its name and is then parsed in
this process only if its content was recognised as something else, which for a
name of the curated maps takes this service's own sniffing. `SweepsStaySmall`,
in section 5, shows that this happens.

*Scopes and mixes.* A behaviour keeps to one record chosen at the start: who
takes part, which kinds of content, how many of each disturbance. All of them at
once are out of reach, and each property needs only a few together to be at
risk; the properties speak of what did happen (`crashes = 0 \/ flips = 0`), not
of the scope's name.

*Why the bounds are enough.* Two versions are what it takes to be stale, to
overwrite a newer row or to prune the wrong rendition. One rendition format
suffices because formats are independent of each other in `write`. Three queued
events hold an upload, a delete and an erasure at once. Batches of two of three
messages give a batch cut short by an outage and a message behind it. Two
workers, threads or clients are what it takes to work on one thing; of decisions,
two calls and two changes are a verdict that is overtaken and a loss that is
undone, and a lifetime of one instant shows it alive and expired. Three runs for
two slots give a refused one beside two that hold. Documents of eleven
characters hold three windows and every place of a line break. Chunks of eight
characters with an overlap of three, under a provider that takes 0 to 2 texts of
0, 1, 2 or 8, reach every branch of `_fit`. One integration under the cap is enough
for two administrators to pass it together; of an edit, a secret and a server
each have an old and a new value.

*Deadlock* is not checked: the bounds stop the models, and a system without
events, requests or jobs really has nothing to do.

*Fairness.* `ConvLive`: the loop's own steps, the erasure sweeper's and the end
of an outage (`WF`), since `run_forever` and the sweeper's thread never stop and
failovers end; nothing is assumed of uploads, deletes, sweeps or requests.
`Ingest` (in `Loops`): the loop and the end of an outage. `MediaLive`: each worker keeps
polling and an encode ends (ffmpeg has a timeout), and time passes for a
heartbeat that is not renewed; kills are *not* fair and not bounded, so that the
attempt cap alone has to end a job. `Extraction`: each job thread goes on, and a
message that is not acked becomes old enough to be reclaimed, a key with a time
to live expires. The chat (in `Loops`): the thread
of a run, the handler, the producing thread; a client that hung up is noticed
(`Hangs`), and one that did not is waited for no longer than the approval's
timeout (`SitOut`). `UsageOpen`: a key with a time to live expires.

## 4. What is proved

TLAPS proves for every value of the constants what TLC checks on the instances
above. Few of the properties are inductive; what each needs besides is the
argument, and is named here.

* **`Conversion_proofs`.** `TypeCorrect`. `QuietErasureFinal` and
  `ComplianceReal`, from `ErasureInv`: that nothing comes back after an erasure
  needs that whoever is in flight on an erased file was in flight when it was
  erased (`OnlyRacersInFlight`, because `convert` refuses to *start* on a
  tombstone), and that compliance is real needs that an acknowledgement is only
  on its way after the erasure committed (`AckAfterErase`). Types need that the
  loop has an event while it works on one (`LoopHasEvent`), or `Tail` of an
  empty queue would be taken.
  `RowsStayTrue`: with the event loop alone and without a fault, a settled row
  describes the file. `LoopInv` says why in six parts: nobody else is under way
  (`Undisturbed`); the last queued event says what became of the file
  (`EventsInOrder`); the call that handles it is about the current version
  (`OfCurrent`); what a call has written by each of its steps (`HalfDone`); a
  settled row of the current version has its text, chunks and children
  (`RowOfCurrent`); and with no event left to come the row is the file's
  (`LastHandled`). That "indexed" means chunks is of everybody, from `ChunksInv`: what a call
  relies on was read or written while the row stood, and when no call was in
  flight at its last removal, only a version without a chunk takes chunks away.
  `ResolutionIsAnnounced`, from `TellsInv`: whatever the event loop or a request
  resolves has been told.
* **`Ingest_proofs`.** `IngestTypeCorrect`; `AckedInOrder` and
  `IngestImplementsConsumer` from `OrderInv`: the batch is the oldest part of
  what is pending and not stranded, outside the replaying modes all of it, and
  within them nothing is stranded. So what is carried out or acked is always the
  consumer's oldest message that is not set aside. `OutageLosesNothing`, from `DropInv`: without a
  restart an outage of the core drops nothing, because only the replay at a start
  acknowledges what the core refused, and nothing has been read then.
* **`MediaWorker_proofs`.** `MediaTypeCorrect` and `MediaImplementsLifecycle`:
  each operation of the table is a step or a stutter of `JobLifecycle`. The
  invariant adds that a queued job has an attempt left, a busy worker holds a job
  and a worker about to store content created the child. `OneWorkerKeepsContent`:
  with one worker and sizes that can be asked, a recorded success has content;
  `ContentInv` says, step by step, what a worker that found or made the rendition
  may rely on until it records. `OneWorkerKeepsLinks`: where the links stay as
  they are besides, `NeverDark` holds. `DarkInv` adds to `ContentInv` that what
  was removed from under a link has a newer copy that links can play (so that an
  older version finished late may sweep), that whoever is about to remove all
  copies saw no link, and that an empty child about to be cleared is still empty.
  With two workers `MediaTwo`, with changing links `MediaOpen` shows the contrary.
* **`Extraction_proofs`.** From `ExtractionInv`: `ExtractionTypeCorrect`,
  `ValuesStayFresh` (`ValuesAreNotStale`), `ErasureTakesValues` (after an erasure
  nobody was converting through, only a run that had the text in hand records
  values) and `AckedIsAnswered` (a job that is given back has its event or one of
  the excuses the code has). `RunOK` says what a run may rely on from the moment
  it resolved a version until it is over: the text it reads and the entries it
  writes back may be given for that version, and of a forgotten file it has only
  what it read before. `StoreInv` carries this through the conversions: a settled
  row's text is not older than the row unless kept (`RowOK`), a conversion
  fetches what it has stat'ed or newer (`ConversionOK`), and the row of a file
  forgotten in peace stays without text (`ForgottenStays`). That what may be given
  once may be given for good (`FreshGrows`) is what lets each step be looked at
  for the run that moves only.
* **`Headless_proofs`.** `UsageMeter`: `LimitIsHeld` and `BudgetOvershoot` from
  `MeterInvariant`: the counter counts at least the runs in progress and those
  refused but not yet uncounted, which makes "count first, compare after" safe;
  and what the files in hand may still cost is within what the bound leaves.
  Both until the counter's key expires. `SlotsAreFreed` needs the equality behind
  the first: the counter is the runs that occupy a slot plus the killed ones.
  `Windows`: `PassagesAreWhole`, for every length and window size, from where the
  next window may start. `ExtractItem`: `ValidItemsAreAnswered`, for any number of
  windows and fields: a window that is done and not flawed has the data of its
  last reply, and that reply passed (`Settled`); so an item reported valid has no
  field found without a statement, nor lost between windows.
  `PromptSets`: `PublicationIsForGood` from `PublishedInv`: a request has a draft
  in hand only on the way to writing or publishing it, and revisions are never
  removed (`Grows`), so the number a request holds still names a revision when it
  writes. `AppsKeepToTheDay` and `QuietDecisionsAreKept` from `AppsInv` on top of
  it: the applications' revisions of a set and the applications let in but not
  yet done are together below the day's allowance plus the number of
  applications (`RoomForAdmitted`), and a request that no writer overtook still
  sees the row it decided on (`Justified`).
* **`Services_proofs`.** `Failover`: `TablesMadeOnce` from `TablesInv`: who makes
  tables has the lock, what is about to be made is not remembered, what is
  remembered exists; the second look under the lock makes the middle part
  inductive. `FallbackIsRecent` from `RecencyInv`: a breaker that is open was
  opened by an attempt that met the outage, so the age of the outage and what is
  left of the cooldown add up to no more than cooldown and timeout.
  `Access`: `SignOutEnds` and `DoorsAreJust` from `AccessInv`: every cached
  verdict, remembered answer of the bridge and issued token is no older than it
  says and was true then (`VerdictOK`, `KnownOK`, `StoreOK`), and a request in
  flight holds only such (`ThreadOK`). A permission outlives a sign-out by a
  verdict's lifetime, or the session has run out with its denylist key. `Integrations`: `CachesAreFaithful` from `CachesInv`: no
  two servers are known, by anybody, for one id and version (`FactsAgree`), which
  is why a discovery keyed by them cannot be told from asking again;
  `TableStaysOrderly`: names stay distinct, and the cap is passed by at most one
  row for each administrator between counting and writing (`LimitInv`).
  `PermissionGate`: `GrantFreshness` and `DenialFreshness` from `FreshInv`: what
  the cache holds and the verdicts on their way to it show no older past than an
  answer may, because an entry's lifetime starts before the core was asked, and
  each half of the check is dated by itself; `EvictionIsComplete` from `CoverInv`:
  a verdict in flight, too, is real, or has its eviction waiting, or was granted
  when that was missed.
* **`Chat_proofs`.** `TurnsStayWhole` from `TurnsInv`: an answer follows the
  question of its turn (while it streams, that question is the last of its
  conversation) and what was said is what was sent, in order.
  `SocketCallsAreApproved`, from `ApprovedInv`: trust in a tool goes back to an
  approval of an earlier call (`TrustIsApproved`), and nobody's yes is left over
  when a request is made (`Unasked`). `RelayCallsAreApproved`, from `RelayInv`,
  between instances: whatever is on a channel, in a slot or remembered goes back
  to an answer of the run's owner. Together `ApprovalsAreKept`.
* **`Plugins_proofs`.** `Plugins`: `FailuresAreContained` and `DispatchIsJust`
  from `PluginsInv`: the file at hand (`FileInv`); the routes before the one in
  progress broke and the calls before this one worked (`PlaceInv`); of each job
  that is over holds what the property says of all at the end (`PastInv`); what
  was made belongs to a job and an exception took the rest with it (`ProductInv`,
  `RaisedInv`); only what is installed has answered, and while nothing goes wrong
  only what is absent failed (`CallInv`); only a file's first job hands over a
  directory (`LeakInv`). The lemmas before it go through the table of plugins
  once: for each kind of file, what jobs and routes there are and what `ready`
  says of them.
  `Indexing`: `TextReachesTheIndex`, in three parts that are theorems of their
  own. `ChunksAlwaysFit` is about the chunker alone. It is three folds: lines
  into pieces, pieces of all blocks one after the other, pieces into chunks. Each
  keeps two things at every place it has come to: what is put away and what is in
  hand fits (a piece within `BlockLimit`, so that a carried tail and the two line
  breaks still leave it within `Target`), and every letter that went in is in one
  or the other, which no later step takes back (`Gathering`). `CutsLoseNothing`
  and `CountsAreHarmless` are about the embedder and come from `IndexingInv`:
  the texts with a vector, then those owed, batch by batch (`Owed`), are the kept
  chunks, where no chunk is too long for the provider (`Whole`); and letter for
  letter they are, where cutting is enough (`Lossless`). For the second, a batch
  of `n` letters cut to depth `d` has `n * 2^d <= Target + 2^d - 1`
  (`Manageable`): at the depth where `_fit` stops cutting, what is left is
  no longer than the provider takes, so that nothing is ever shortened.
  *Induction.* The library's induction theorems cannot be used (below), and no
  operator is recursive here; but the least element of a set of numbers exists
  (`WFMin`, of `WellFoundedInduction`), and so a set that has 0 and is closed
  under successor has every number (`Induction`). Each fact about a fold is
  then about the set of the places at which it holds. The function that a fold
  follows from place to place exists by the same induction (`FoldExists`).

Assumptions: the named `ASSUME`s of the modules, which TLC evaluates in every
run. Bounds are naturals; the processes of one module are distinct; the set of
runs, of applications and of administrators is finite; a `PromptSets` has an
application; a token lives longer than the margin it is renewed with (`Skew`); a
cache holds something; the setting of IFC backends is `auto` or a list of the
two; a chunk has room for the overlap and the lines between. The mixes of
`Conversion`, `Extraction`, `Consent`, `ChatTurn` and `PromptSets` are any of
their type.

Only model-checked:

* every liveness property (`EventuallyCurrent`, `ErasureIsHonoured`,
  `EventuallyAcked`, `EventuallyEnds`, `JobsEnd`, `EverybodyEnds`):
  fairness and ENABLED are out of the prover's reach.

Every invariant and every other action property of a passing run is a theorem.

## 5. Where code and documentation part

Each was met while modelling. The first four are runs; the others can be seen
with the configuration named, which is kept beside the runs and not part of
them. Where an `Open` configuration names several properties, TLC stops at the
first it finds violated; delete its line to see the next.

| cfg | property | the code | the statement |
|---|---|---|---|
| `ConvErasedRace` | `ErasedStaysErased` | a conversion past its one look at the tombstone writes row, text and chunks back after the erasure was complied with | `schema.py:108-110`, `pipeline.py:100`: the refusal closes the race |
| `ConvDrain` | `EventsSurviveOutage` | a restart during an outage: `drain_pending` swallows the refused write and acks, the file is never converted | `REPLICATION_FAILOVER.md:99-100`: events are not dropped |
| `ConvHeal` | `SweepsHeal` | a row that lost its chunks to a delete in the middle of a call is retried by every sweep and never embedded again: `already_indexed` is true of it | `reconcile.py:130-132`: cheap to retry, rather than trusting a status the chunk count contradicts |
| `ExtractPending` | `PendingTextIsNotTaken` | the look at the row after re-indexing compares the version only: a conversion that stopped after marking the row leaves the new version with the former text, which is extracted from, cached and announced as the new version's | `headless/extract.py:447`: "Re-indexes stale or pending text first." |
| `ConvOpen` | `RenditionsAreComplete` | a child touched and not filled is skipped by every retry | `renditions.py:157-159` |
| | `FailedMeansNothingProduced` | `conversion.failed` although the renditions exist, because this call did not write them | `emit.py:26-28` |
| | `EveryResolutionIsAnnounced` | what a sweep resolves, or a call killed before its announcement, is announced by nobody | `api.py:661` |
| | `StaleTextIsSuperseded` | a version without text keeps the previous version's text (COALESCE) | `EVENT_CONTRACT.md:88` |
| | `CurrentRenditionsSurvive`, `NewestWins` | a slower call of the older version prunes the current renditions and overwrites the newer row | `renditions.py:175-179`, `EVENT_CONTRACT.md:242-243` |
| `IngestTimeout` | `AlwaysInOrder` | a socket timeout reads as an empty pending list and ends the degraded mode; a drain that fails is given up | `ingest.py:229-231` |
| `MediaOpen` | `CancelledLeavesNothing` | a cancel between the last look and the write leaves a rendition | `MEDIA_SHARE.md:554` |
| | `NeverDark` | a link minted between the count and the removal of an unpublish goes dark | `MEDIA_SHARE.md:819-820` |
| | `RequestIsServed` | a file unpublished and published again is not encoded: the job is still `succeeded` | `MEDIA_SHARE.md:441-443` |
| `MediaTwo` | `SucceededHasContent` | a second worker finds the child the first is still filling, writes nothing, records success | `media_worker.py:220-221`: "The rendition is there." |
| | `NeverDark` | a child is filled between being judged empty and being removed | `MEDIA_SHARE.md:811` |
| `MediaStatFails` | `SucceededHasContent` | when the size cannot be asked the empty child passes for a rendition | `media_worker.py:238-241` |
| `UsageOpen` | `LimitAlwaysHolds` | the slot counter's TTL runs from the first run and is never renewed | `usage.py:230` |
| | `CrashedSlotFrees` | DECR on an expired key leaves a counter that never expires; a killed run's slot stays taken | `usage.py:149` |
| | `SpentIsCounted` | a window that raises loses the tokens of the windows before it | `usage.py:25-26` |
| `GateDeny` | `DenyIsNotUpgraded` | a slow check that saw the permission before it was lost stores its yes over a newer no for the rest of the lifetime | `tests/test_permission_gate_security.py:22-23` |
| `ExtractionOpen` | `EveryJobHasItsEvent` | a job that stumbles, whose file its user may not read, or whose event is lost is acked without one | `headless/jobs.py` docstring: "The outcome is an … event" |
| | `ValuesAreOfTheirVersion` | the row of a version without text keeps the former text, which is extracted from; and the text fetched may be newer than the version stat'ed | `headless/extract.py:459-460`: "no text" |
| | `ErasureForgetsValues` | a run that had the text in hand records values of a file after its erasure | `headless/runs.py` docstring |
| | `AnnouncedIsThere` | two runs read the same sidecar and the second write drops the entry of the first, which was announced | `headless/events.py`: the event names the payload to read |
| `HeadlessOpen` | `FoundIsKept` | a field stated with evidence in the first reply is reported not found when the repaired reply leaves it out | `headless/extract.py` docstring: "found: false when the document does not state it" |
| | `DecisionsStand` | an application's revision is published into a set an editor locked while the request was under way | `EXTRACTION_PROMPT_SETS.md`, 4.5 |
| | `SavesAreKept` | a draft published between the look for it and the update: the save answers with a draft that does not have its definition | `headless/promptset_service.py`, `save_draft` |
| `ChatOpen` | `HeadlessIsKept` | a headless run is deleted when the database could not be asked whether it is one | `api.py:343`, comment of `delete_conversation` |
| | `AcceptedOnce`, `AcceptedReachesAWaiter` | without Redis two answers to one request are accepted, and an accepted one may reach nobody | `headless/consent_relay.py` |
| | `TurnsAreSaved` | a client that is gone at the end of a turn takes the handler down before the answer is saved | `api.py`, `_stream_answer` |
| `ServicesOpen` | `SweepsStaySmall` | a sweep reads a file over its limit whole and parses it in its own process: the name, by which the limit is judged, belongs to a plugin that would not have, the bytes to one that does | `pipeline.py:88-92`: "refuses a file larger than that, before a byte of it is read" |
| | `ReadyPromises` | `ready` is TRUE for plugins that do not override it, whose programs may be missing (pdf) | `plugins/base.py:225-227` |
| | `NothingIsLeft` | an exception between a temporary file and its owner leaves the directory | `plugins/base.py`, `Rendition` |
| | `ReadsFindTables` | a connection to read makes no tables | `db.py:138-139` |
| | `RightPasswordIsTaken` | the directory lost between the service's bind and the user's: the right password is refused instead of the replica being asked | `ldap_auth.py:76-78` |
| | `AuthHasItsSecret` | an edit that sends `"secret": ""` passes validation because one is stored, and then clears it; so do two edits that were each valid | `routers/mcp_admin.py:174-175` |
| | `CallIsOfOneVersion` | a tool call presents the secret as it is now with the rest of the row as it was when the turn began | `mcp_store.py:22-25` |
| | `SystemAdminIsHeld` | a password admits any member of a tenant's `administrators` with the role `system_admin` | `core_client.py:57-59`: granted only to actual `system_admin` group members |
| | `NobodyGets500` | an update of a row deleted since reads the slug of `None`; two creations of one name meet in the unique constraint | `routers/mcp_admin.py:250-279`: 404 "integration not found" |

Met while reading, without a property: a glTF whose `children` is not a list
loses the model (`plugins/xeokit3d.py:828-829`); a `notes.md` that starts with
`<html>` goes to the HTML plugin (`mime.py:84-87`); `ffmpeg_encoders` keeps an
empty set after one failed call; `TextMarkdownPlugin` is never reached.

## 6. What is abstracted or left out

* Data: bytes, text, embeddings, names and MIME types are the version or the
  kind they came from; ranking, ffmpeg command lines and the wording of messages
  are not modelled. A hash of a version is the version. `Indexing` is the
  exception, because what it promises is about characters.
* `reconcile_tenant`'s walk of the tree is one more size-limited, forced call of
  `convert`; the row-driven sweep is modelled as it decides.
* Failures of a call are one nondeterministic fault per bound, at every remote
  call, with the handler the code has there.
* `UsageMeter` leaves out the requests per minute of `admit` and the counters of
  cache hits, which limit or report but share no state with the runs.
* `Access` leaves out the parsing of headers and tokens, the rate limits of
  `guards.py` and the fail-open setting of the denylist. One `CacheTtl` stands
  for the lifetimes of the two caches, and 0, which turns them off, is left out.
  A user is in at most one group of a tenant at a time.
* `ChatTurn` has one connection; two sockets of one user on one conversation
  (`api.py:439`) could interleave their turns. `UsageMeter` charges a budget read
  at admission. `Failover` leaves out `provision_tenant` (`db.py:110-117`), which
  makes the same tables without the lock; and an `OperationalError` of any kind
  is an outage. `Integrations` assumes that a token lives longer than its margin,
  which `mcp_oauth.py:87-89` takes from the server unchecked.
* `Integrations` leaves out the wire protocol, the validation of addresses, the
  OAuth fields of the validation, and which of a server's tools the allow-list
  and the cap let through.
* `Extraction` leaves out soft deletes and the indexing of a conversion (both in
  `Conversion`), the marked-up copy, the model registry and the walk of a folder; `ChatTurn` the report block and the prompts.
* Not modelled: search and retrieval (ranking over Postgres and the embedder;
  their permission step is `PermissionGate`'s), the clients of providers, and
  the wiring: `config.py`, `metrics.py`, `onlyoffice.py`, `app_links.py`,
  `capabilities.py`, `crypto.py`. They keep no state that two actors share, apart
  from counters that only report.

## 7. What could come next

Theorems: `NeverDark` under links that change, with a hypothesis about when one
may be minted. Models: the permission step of a search page (over-fetch, gate, slice), the onlyoffice
editing session, and a refinement of `Extraction` to an abstract job.
