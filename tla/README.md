# TLA+ specifications of chain-subconverter

chain-subconverter turns a user's landing and transit subscriptions into one
Clash/mihomo configuration in which landing nodes are dialled through transit
nodes. A Go server (`cmd/server`, `internal/`) offers the HTTP API and calls an
external `subconverter` service; a React front end (`web/`) walks the user
through stage 1 (inputs), stage 2 (instances, chain targets, aggregations) and
the links. This directory models the parts of it whose correctness depends on
the order of things: who holds what, who fails when, what is remembered.

Contents: 1 inventory; 2 plan; 3 modules and code; 4 runs, bounds, fairness;
5 proofs; 6 disagreements found; 7 what is not modelled.

## 1. Inventory

| component | state it keeps | operations | talks to |
|---|---|---|---|
| short link store (`internal/store`) | SQLite table `short_links` (state key, short id, long URL, last access), `maxCapacity`, `writeMu`, a pool of one connection | `CreateOrGet`, `ResolveShortID`, opening with a capacity, `StorageStats` | called by the short link service, `/sub/<id>`, runtime status |
| short link service (`internal/service/short_links.go`, `short_link_store.go`) | none (an in-memory store for tests) | `BuildShortLinkResponse`, canonical target, `DeterministicShortID` | store; decodes long links |
| template fetch cache (`managed_conversion_source.go`) | `entries` (content, expiry), `inflight` calls, one cache for the default template and one for the others, each with its TTL | `LoadOrFetch`, `LoadOrFetchStaleOnError`, `finishFetch` | template hosts over HTTP; waiters over a channel |
| managed template store (`managed_template_store.go`) | documents by random id, in memory | `Save`, `Get`, `Delete` | written by the pipeline, read by the upstream through `GET /internal/templates/<id>.ini` |
| conversion pipeline (`core_pipeline.go`, `conversion_source.go`, `managed_conversion_source.go`) | per request: prepared conversion, pass results, deferred deletions | prepare; discovery passes; snapshot validation; three managed passes; rendering | cache, template store, subconverter client |
| subconverter client (`internal/subconverter`) | `maxInFlight` semaphore | `ConvertWithPlan`, `executePass`, failure classification | the upstream, with a timeout per pass |
| link restore (`resolve_url.go`, `restore_conflict.go`, `replayability.go`) | none | parse a long or short link, dry run, downgrade to a read-only restore, rebuild the catalog | short link store, pipeline (twice) |
| HTTP API (`internal/api`) | rate limiters, access log buffers | endpoints for convert, generate, short links, restore, subscription, templates, status | everything above |
| rate limiter (`rate_limit.go`) | one token bucket per client address, `nextSweep` | `allow`, periodic sweep of idle entries | trusted proxy (client address) |
| trusted proxy (`trusted_proxy.go`) | networks | client address, public base URL from forwarded headers | – |
| stage 1 conversion (`stage1_convert.go`, `input_limits.go`, `chain_emoji.go`) | none | discovery of landing nodes, grouping by server, default modes, restricted modes, available targets | conversion results |
| stage 2 model (`stage2_tree.go`, `artifacts_snapshot_validation.go`, `server_aggregation_groups.go`, JSON forms) | none | validation of a snapshot against the fixtures, aggregation groups and their names, old forms | stage 1 |
| rendering (`artifacts_render.go`, `managed_pass3_*.go`) | none | chain proxies into the full configuration, removal of landing nodes from groups, cleaning of what became empty | snapshot |
| long links (`artifacts_long_url.go`, `link_encoding_canonicalize.go`) | none | encode, decode, canonicalise, local instance ids | snapshot |
| runtime status (`internal/runtimestatus`) | cached probe, mutex | `Status`, refresh | upstream `/version`, `StorageStats` |
| configuration (`internal/config`, `cmd/server`) | read once | validation of the environment, time-outs of the server | – |
| workflow front end (`web/src/hooks/useAppWorkflow*.ts`) | one page state: inputs, stage 2 snapshot and catalog, stale flags, links, in-flight flags, errors | convert, restore, reset, edit, generate, short link | API, asynchronously |
| page components (`web/src/scheme/{default,b1,b2,c1,c2}`, `App.tsx`) | per user interface: open dialog, drafts of relays and of a SOCKS5 node, text fields; the deployment's settings | what is offered in each state, confirming and closing dialogs, filling in the template | workflow |
| stage 2 editor (`web/src/lib/stage2.ts`) | snapshot; aggregation drafts beside it | copy, delete, rename instances, modes and targets, aggregations, errors in rows, merge after a conversion | workflow |

What makes each correct, and what is hard about it:

- **Store.** One short id per state and one state per short id; a write ends
  any overflow and evicts no more than it must, and the earliest accessed; only
  a create makes a link disappear; answers match the table. Hard: a mutex
  and a one-connection pool taken in different orders by the two operations,
  failure between any two statements, restarts with a smaller capacity,
  hash collisions, time stamps compared as text.
- **Cache.** One fetch per template at a time; unusable content never stored;
  the default template outlives an outage and says so; nobody is served
  something older than what was served before, and nobody waits for good.
  Hard: expiry, leaders whose clients go away, late results.
- **Pipeline, template store, client.** The upstream finds each document as
  long as it may ask for it, nothing is left when a request ends, slots are
  neither lost nor exceeded, a full server refuses and does not queue. Hard: six
  hand-written cleanup calls, two functions with deferred deletions, callbacks
  into this server during a pass, two runs of the whole pipeline in a restore.
- **Restore.** The state that comes back is either usable or clearly read-only.
- **Rate limiter.** No client gets more than its rate, whatever is swept. Hard:
  the clock is read before the lock.
- **Stage 1/2, rendering, long links.** Pure functions over nested data:
  grouping, modes, targets and names stay consistent across encode/decode and
  across a re-conversion.
- **Front end.** What is shown as current belongs to the present input; an
  answer that arrives late must not resurrect an earlier state; an id in an
  aggregation means the instance that the user chose; an error is shown at the
  row it is about; a dialog loses nothing of the page below it. Hard: five user
  interfaces over one workflow, each with dialogs, drafts and guards of its own,
  while answers arrive under all of them.
- **Runtime status.** One prober for all pages, its mutex held while it probes
  with the context of one of them.

`PROJECT.json` lists each hazard at its line with the properties that cover it.

## 2. Plan

1. `ShortLinkStore`, with `ShortLinkDirectory` as its abstract specification
   (done, with its proofs).
2. `TemplateFetchCache` (done, with its proofs).
3. `ManagedConversion` (done, with its proofs).
4. `Stage2Editor`: instances, aggregation groups, drafts, the merge after a
   conversion and the way of a snapshot through a link (done, with its proofs).
5. `Workflow`: the page state and its asynchronous handlers, with answers in
   any order, over `Schemes`, what the five user interfaces offer (done, with its proofs).
6. `RateLimiter`, with `TokenBuckets` as its abstract specification (done, with its
   proofs).
7. `Stage1Dialogs`, `Stage1Template`, `Stage2Rows`: the rest of the page, per user
   interface, composed with `Stage2Editor` in `Frontend` (done, with its proofs).
8. `RuntimeStatus` (done, with its proofs), composed with the other parts of the
   server in which requests wait for one another.

What remains, if at all: the algorithms without order (aggregation names, grouping by server, canonical
long links, trusted proxy) as operators against reference definitions.

## 3. Modules and the code they model

### ShortLinkStore

A client is a request goroutine; `pc` follows it through the code.

| action | code |
|---|---|
| `CallCreate`, `LockWrites`, `BeginTx` | `BuildShortLinkResponse` up to the call; `writeMu.Lock()` and the time stamp; `BeginTx` on the one pooled connection |
| `TrimOverflow` | look the state up, choose the target (one below the capacity for a new state), `trimOverflowBeforeWrite` |
| `UpdateRow`, `InsertRow`, `RefuseCollision` | the three ways on: known state, new state, primary key taken |
| `CallResolve`, `RefreshRow`, `ResolveMiss` | `ResolveShortID`, which takes its stamp before it has the connection |
| `CommitCreate`, `CommitResolve` | `Commit` and the return |
| `Fail` | any statement, the wait for the connection or the context fails; deferred `Rollback` |
| `Restart` | the process dies and opens the file again with some capacity |

`tx` is the open transaction's view of the table, `db` what is committed.
Commit, unlock and answer are one step: nothing can be observed between them
except by calls that would also be allowed before or after. A long link is its
state and its base URL (the canonical link of a state under a base is unique).
The fallback for a unique violation on the state key is left out: it would
take a second writer within the mutex. Time stamps have two fraction digits of
radix `Radix`; `TextRank` is how RFC 3339 text with trailing zeros dropped
compares. `ShortLinkDirectory` has links and a capacity only.

### TemplateFetchCache

`Hit`, `Join` and `Lead` are the three outcomes of the first critical section,
with what an expired entry turns into (`Expire`): `LoadOrFetch` deletes it,
`LoadOrFetchStaleOnError` (the default template) keeps it as a fallback.
`FetchAnswered` and `FetchFailed` are the leader's fetch with its validation,
`FinishFetch` the second critical section and the leader's return,
`FollowerReturns` and `FollowerGivesUp` the two arms of the waiters' `select`.
The host's versions and their validity are chosen by the environment; a version
is a number, so that "older" can be said. `since`, `served` and `floor` are
history variables. The default template's cache and the others' are separate
maps in the code with different TTLs; the model keys both by URL with a TTL per
URL, which is the same thing as no URL is in both.

### ManagedConversion

A request goes through `Prepare` (save the template), `Acquire`/`Refused`,
`PassAnswers`/`PassFails` for each pass, `Converted` or `HostManaged` after the
discovery passes, `RenderReturns` (deferred deletions) and `PostProcess`. Kinds
of request: `convert` ends after discovery; `render` is generate and the
subscription itself; `resolve` runs the whole of it twice (`round`).
`UpstreamLoads` is the upstream's callback, interleaved with all else.
`Abort` holds what each endpoint answers when its pipeline fails, with the
downgrade of restore failures. Document ids are pairs of a request and a role:
the code draws 128 random bits and never issues one twice.

### Workflow

The variables are the fields of `AppState` with the flags of the hook.
A handler reads the page when the user acts, sends a request, and
applies the answer to the page as it is by then. JavaScript runs each of the two parts
without interruption, so each is one action; between them anything may happen
that is not disabled. `calls` holds what the handlers of requests in flight have
captured, `busy` the flags that disable controls.

| action | code |
|---|---|
| `EditInput`, `EditStage2`, `TypeLink` | `updateStage1InputState`, `withStage2Mutation`, `setCurrentLinkInputState` |
| `Convert`, `Reset`; `Converted`, `ConversionFails` | `handleStage1Convert` and `handleStage2Reset` up to the request; their answers |
| `Restore`; `RestoredReplayable`, `RestoredConflicted`, `RestoreFails` | `handleRestore`, with `buildRestorePatch` |
| `Generate`; `GeneratedLong`, `GeneratedToShorten`, `GenerateFails`; `GeneratedShort`, `GeneratedShortFails` | `handleGenerate`: the link comes first, then, if preferred or required, its short form |
| `PreferLong`, `PreferShort`, `Shorten`; `Shortened`, `ShortenFails` | `handlePreferShortUrl` |

The guards of the user's actions are what the user interface offers, from
`Schemes`, and the early returns of the handlers; `scheme` is chosen once. An input or a
snapshot is a model value, and a link is the pair that it encodes: what editing,
merging or encoding does to them cannot change which answers are late.
`misled` and `outrun` are history variables: what the page differed from when
its links, or its catalog, arrived.

### Schemes

The five user interfaces share one workflow and differ in what they let the user do with it.
`DefaultStage1`, `B2Stage1` and so on give the controls that are there and not disabled in
a state of the page, stage by stage, as sets; `RowOf` gives the operations offered in a row of stage 2
(`DefaultRowMode`, `B1Picker`, `C1Target`, ...), each with the target mode or value that
it leads to. The module has no state; `Workflow`, `Stage1Template` and
`Stage2Rows` use it as their guards.

### Stage1Dialogs, Stage1Template

`Stage1Dialogs` is the relay dialog and the SOCKS5 dialog of each scheme over the page that lists both:

| action | code |
|---|---|
| `DefaultRelayDialog`, ... | typing, adding, removing tags, closing and confirming, each scheme with its own order of splitting, normalising, comparing and writing |
| `ConfirmB2`, `SubmitInUpdater` with `Crash` | an updater that throws inside `setState` when React runs it: nothing catches it, and the page is unmounted until it is loaded again |
| `DefaultInputs`, ... | opening a dialog with what the scheme begins it with; removing a relay from the page |
| `StartRestore`, `RestoreArrives` | a restore that was begun before the dialog was opened replaces stage 1 below it |

A text is a model value and `Norm` its normal form. `late` and `dropped` are history
variables: what a draft of b1, which replaces the list, cannot know of, and what the
user took out of it.

`Stage1Template` is the options of stage 1, `GET /api/runtime-config` arriving once
(`SettingsArrive`, `applyDefaultTemplateURL`) and the reset that is offered unless the page is as
new (`AtInitial`). `untouched` is the history that the test stands for.

### Stage2Rows

| action | code |
|---|---|
| `Rename`, `Blur` | `updateStage2ProxyNameState`; the check for duplicate names when the field is left |
| `ChangeMode`, `ChangeTarget` | `updateStage2RowState`, with `pickNextTarget` over the choices that are not disabled |
| `Clone`, `Delete` | `cloneInstance` with a name derived from the old one; `deleteStage2RowState` |
| `Generate`; `Answer`, `Failure` | the precheck of names, the request with the server's verdict on what was sent (`validateGenerateSnapshot`), its answer |
| `Request` | `startWorkflowRequestState` of any other request, or its failure: the marks go |
| `Convert`, `Reset` | `applyStage1ConvertSuccessState`: with `mergeSnapshotAfterConvert`, by which the rows of a source that is gone go, the others are kept and a new source has the catalog's; with the catalog's rows for all |
| `RestoreReplayable`, `RestoreConflicted` | `applyRestoreReinitializedState`, `applyRestoreConflictState`: a link's rows (`buildRestorePatch`), with a catalog they are valid for, or without one |
| `EditInput` | `updateStage1InputState`: the rows are stale |

`status` says whether rows can be edited; in a read-only conflict only a menu of the default scheme that
was open before still changes one (`OpenMenus`). The answers to a conversion and a restore come at any
time, during a generation too, as no scheme rules that out: the buttons look at `isConverting` and
`isRestoring` only, and `canGenerate` at neither. A reset excludes a generation and is excluded by it, and only
the default scheme has a button for it. That a request was sent before its answer comes is not
followed here but in `Workflow`: any of these answers may come in any state, so that every order
of them is among the behaviours. A catalog is the sources that
it has (`Found`), its targets and services (`Offers`); a restored link is one of `Links`, rows that the server
has accepted (`Linked`). Because the server loads the upstream anew for each request, it
validates a generation against any of the catalogs, not the page's.

A mark is an error of a row as the page stores it: by source and proxy name. `about` is a
ghost, the row that the server found it in. It becomes `Unknown` once a name like its own
is edited (`Doubted`), and, while the answer is on its way, once its row is edited or deleted, a
restore is answered, or a conversion that has not its source (`Forgotten`): `MarksStayInPlace` says nothing of these
marks, which the program leaves on whatever row of that source and name there is (section 6).

### Stage2Editor

`home` is the server of each source (the catalog's tree), `rows` the instances of each
source, `members` and `drafts` the two places a group's list of local ids can be.
`Workflow` treats a snapshot as a value; this module is what happens inside it. An
answer to a conversion is one action here, since how it interleaves with edits is
`Workflow`'s subject and the merge reads the page's snapshot when the answer arrives.

| action | code |
|---|---|
| `Clone`, `Delete` | `cloneInstance` with `nextOrdinalForSource`; `deleteInstance` |
| `Enable`, `Disable` | `handleServerAggregationEnableWithDefaults`, which writes a draft back and then goes over the rows; `setServerAggregationEnabledState`, `clearServerAggregationGroupsState` |
| `Check`, `ChangeStrategy` | `handleServerAggregationChange`, called by a row's box and by the strategy menu |
| `Drag`, `MoveMember` | `handleDragEnd` over the members that lead somewhere (`Displayed`); `moveMember` over all of them |
| `ServerRow`, `MemberBoxes`, `LeaveTree` | what the tree of the default scheme (`Tree`) offers in the row of a server and below it, and its switch |
| `Convert`, `Reset` | `mergeSnapshotAfterConvert` with `hydrateInstanceIds`; the same answer when the snapshot is overwritten |
| `Restore` | `normalizeSnapshotForRequest`, `validateServerAggregations` (Go), the order a link gives members, `hydrateServerAggregation` |

An id is the pair of its source and ordinal, and may be issued again. So that "the
instance that was chosen" can be said, each instance carries `who`, a ghost that no guard
reads and that each member remembers from the moment it was chosen. Members lose it in
a draft (`Forgotten`): the code does not keep drafts in step with deletions, copies and
conversions, and what a draft brings back may be missing, another instance or
another server's. Modes and targets are in `Stage2Rows`: here a row's mode enters only as the set of rows that
`Enable` selects by it, chosen freely. Reordering rows and selecting a strategy
for a whole server are functions that no control calls, and are left out.

`Lists` has the choice from a list that the modules of the page use (`filter` in the code): `Those` is
`SelectSeq` by a recursive function, which the provers can reason about, as they cannot about
`SelectSeq`; `MCFrontend` compares the two on every list of up to four items.

### RateLimiter

| action | code |
|---|---|
| `Read` | `allow` up to `currentTime()`, before the mutex |
| `Grant`, `Refuse` | the critical section: `shouldSweep` and `deleteExpiredEntriesLocked`, the look-up, `lastSeen`, and `rate.Limiter.Allow`, which reads the clock for itself |
| `Tick` | time passes; no request waits for the mutex for longer than `MaxDelay` |

An entry holds what the limiter had left when it last granted. Tokens are counted in the time
they take to fill, so a request costs `Cost` (a minute divided by the requests
per minute) and a bucket holds `Full` (a minute). The read and the write limiter are two
instances of the module. A limiter that is switched off (zero requests per minute) is
left out. `TokenBuckets` keeps a level per client for ever.

### RuntimeStatus

| action | code |
|---|---|
| `Open`, `Point` | the badges are mounted (`load(false)`), pointed at or focused (`load(true)`) |
| `Leave` | the page is closed, which ends the contexts of its requests |
| `Count`, `CountFails` | `StorageStats`, before the prober is asked |
| `Cached`, `Probe` | `Status` with the mutex: the cached status, or a probe, during which the mutex is kept |
| `Probed` | the probe ends, by its answer, the client's timeout or the request's context; what was found is cached |
| `Arrive` | the answer reaches the page |

A status is the time of its check and `cut`, a ghost: its probe was ended by the request's context. What else a probe finds is data.

Other modules: `MCShortLinkStore`, `MCTemplateFetchCache`, `MCManagedConversion`, `MCWorkflow`
and `MCRateLimiter` instantiate the constants. `Frontend` puts `Stage2Editor`, `Stage1Dialogs`,
`Stage1Template` and two instances of `Stage2Rows` (one with services only, one with chain targets
only) side by side: a behaviour is about one
`part`, and the variables of the others keep their first values. The parts read nothing of
one another in the code, so that their product would show nothing more. The scheme is shared by all, and the flag of
a restore by the dialogs and the options: the rows know a restore by its answer. The properties of the editor and the dialogs are their modules'; `Frontend` states
those of the other parts for the page. `MCFrontend` gives it constants. `MCServer` does the same for
the store, the cache and the prober. `ShortLinkStoreProofs`, `TemplateFetchCacheProofs`,
`ManagedConversionProofs`, `WorkflowProofs`, `RateLimiterProofs`, `RuntimeStatusProofs`,
`Stage2RowsProofs` and `FrontendProofs` hold the theorems.
Operators named `X_Something` beside a definition `X` are
deliberately broken variants: with one in place of its original, the run named
in `PROJECT.json` fails. They show that the properties can fail, and no
specification uses them.

## 4. Runs

`tlc -workers 2 -config <cfg> <module>`. `PROJECT.json` lists the properties.

| run | bounds | what it shows |
|---|---|---|
| `store_safety` | 2 clients, 3 states of which two share an id, 2 bases, capacities 1 and 2, 2 seconds, 4 rowids | uniqueness, trims, evictions in the order of seconds, truthfulness of answers, and that the store implements the directory |
| `store_text_order` | 1 client, 3 states, capacity 2 | found: evictions are not right within a second |
| `store_collision` | 1 client, capacity 1 | found: a collision can succeed |
| `cache_safety` | 2 callers, 2 templates, 2 versions, clock 0..2, TTL 1 | all of the cache's safety |
| `pipeline_safety` | 2 requests, 1 slot | documents, cleanup, slots; every request ends |
| `pipeline_restore` | 1 slot | found: replayable without a catalog |
| `workflow_safety` | 5 schemes, 3 inputs (one blank, one that makes oversized links), 2 snapshots, 2 requests in flight in the default scheme, 1 in the others | late answers are the only source of links and of a stage 2 that do not fit the page; controls, expiry, oversized links |
| `workflow_outrun` | the same | found: an edit during a conversion is not marked |
| `workflow_readonly` | the same | found: an open menu edits a read-only stage 2 |
| `rate_safety` | 2 clients, 2 requests, buckets of 2 tokens, a wait of 1, TTL 3, clock 0..8 | rates, refusals, forgetting, and that the limiter implements a bucket per client |
| `frontend` | groups: 2 servers, a source that stays with up to 2 instances, one that moves or goes with 1, ordinals up to 3; dialogs: 5 schemes, 2 relays of which one is typed in two ways, a text that is refused, 2 tags; options: 5 schemes, 2 tags; rows: 5 schemes, 2 sources with 2 rows and 1, of which a catalog may lack the first, a name that can be typed, with its number, one service or one chain target, the service at times not offered, 2 links | ids, members, the precheck, what conversions and restores keep; what dialogs keep and lose; what is fresh; marks that stay where they belong |
| `server_live` | store: 3 clients, 2 colliding states; cache: 3 callers, 1 template; status: 2 pages with a request each, a clock of 0..1, TTL and timeout 1 | everyone is answered; statuses are current |

Why these are enough. Store: a collision takes two states, an eviction by a
third party another; capacity 1 is the boundary at which a trim for a new
state empties the table, the change 2 to 1 makes an overflow; `MaxRowid` 4
allows an insert beyond each row that may be there; stamps within one second differ in
`store_text_order` only (there they are what goes wrong), and the theorem on evictions covers
them all; calls interleave only
through the mutex and the connection, for which two clients suffice (a third
matters for waiting, hence `server_live`). The proofs of section 5 have no such
bounds. Cache: a waiter and a leader, with expiry once (TTL 1 within a
clock of 2), one change of version, each combination of validity. Liveness
needs a leader, a waiter and a late comer: three callers. Pipeline: two
requests over one slot is the smallest case where one is refused while another
runs, and the proofs hold for any number of both; each request's own state is finite and
unbounded in time. Workflow: the
blank input is the one that conversion refuses, two others differ, and two
snapshots tell an edit from none; two requests in flight give every order of two answers
with edits in between. There may be five in the program (one per control), and
the proofs hold for any number, in each of the schemes. Rate limiter: the TTL is
the smallest that the assumption allows, `Full + MaxDelay`, where an entry that is forgotten
is full only just; two sweeps follow the first within the clock's range. Stage 2: with two instances and ordinals up to 3 a
number can be free below and above those in use, be issued again, and move to a
neighbour when ids are renumbered; a group of both sources has three members to reorder; the second source is on the group's
server, on the other, or gone, which is all a merge tells apart. The proofs, of all five properties of
groups, have no such bounds. Dialogs: a duplicate takes two
texts with one normal form, a lost relay one that arrives below a draft. Rows: a name that is
typed can meet its namesake in its own source and in the other, a copy needs a second row to be marked apart from
the first, and a service that can be taken is one; the links hold the names
that were there in other modes, in one source and in both, so that a restore during a generation puts another row
where the refused one was, and a source that a conversion drops comes back with the catalog's row; chain targets and services are in two instances,
since which modes a row has does not depend on both. Status: a
page that leaves, one that stays, and a probe that begins before another ends.

`MaxTick`, `MaxClock`, `MaxVersion` and `MaxRowid` bound the clock, the versions and the
inserts, `MaxRows` and `MaxOrdinal` the instances of a source and their numbers. Client and request names are symmetric where `SYMMETRY` is given (safety runs only; in `server_live` all callers of a part are alike, so that one stands for all).
`CHECK_DEADLOCK` is never switched off: calls can always arrive. A property that names several
(`NothingTwice`, `ServedAsPromised`, `MarksKeepUp`, `StatusIsSound`) is their conjunction.

Fairness. `ShortLinkStore`: a call under way goes on (weak fairness; every
statement has an outcome), and the mutex and the connection are given to every
waiter in the end (strong fairness: Go's mutex hands over to a waiter that
starves, `database/sql` queues requests in order). `TemplateFetchCache`:
callers go on; a fetch ends because the HTTP client has a time-out.
`ManagedConversion`: requests go on; a pass ends because of its time-out,
whether or not the upstream calls back (callbacks are not fair). Nothing is
assumed about new calls, cancellations, ticks or restarts. `Workflow` states no fairness:
it has safety properties only, a request may stay unanswered for ever; nor do
the other modules of the page, whose actions are the user's, and `RateLimiter`.
`RuntimeStatus`: handlers go on, probes by the client's timeout, and the mutex is given to
every waiter in the end; pages and the network owe nothing. `MCServer` takes the conditions of its
parts together, one for each place: who takes a step in one part takes none in the others.

## 5. Proofs

Checked by TLAPS, for every value of the constants that satisfies the
`ConstantsAssumption` of the module, or the assumption that a theorem names (`EditorAssumption`, `DialogsAssumption`, `RowsAssumption`, `PageAssumption`) (distinct sentinels, positive capacities and
slots as `internal/config` enforces them, the hash a function).

- `ShortLinkStoreProofs!Typing`: `TypeOK`, with `CallsFit`: a call is of the kind
  its program counter requires (only creates lock and write), so `call[c].url` is
  there when it is used.
- `ShortLinkStoreProofs!Bijective`: `LinksAreBijective`. Commits publish `tx`,
  so the invariant speaks of `db` and `tx` (`BijectiveInv`). It survives an update because
  a row keeps its key and id and gets a URL of its own state; an insert because
  key and id were free; a trim because a subset keeps it.
- `ShortLinkStoreProofs` on its abstract specification: `OverflowEnds`, `Truthful`, `CreatesForget`,
  `TrimsExactly`, `EvictsEarliest` and `Implements` (every step of the store is
  a step of the directory or a stutter). All of them speak of the step that commits,
  and what it commits was decided earlier in the transaction. So the inductive
  invariant `IInv` says how `tx` relates to `db` at each point of the call
  (`TxFits`): after the trim it is `TrimmedFor` its state, before the commit
  it is what a create has `WrittenFor` it, or what a resolve has refreshed. It is
  kept because only the holder of the connection changes `db` or `tx`
  (`ConnFit`), so one transaction is open at a time. `db` is finite, and the trim's
  size comes from `FiniteSetTheorems`.
- `TemplateFetchCacheProofs`: `Typing`, `OneFetch`, `Validated`, `Warned`,
  `Promised` (both), `Monotone` and `DefaultSurvives`. `SingleFlight` is inductive with typing: whoever fetches is on
  record, so nobody else starts a fetch or ends one. The others rest on
  `IInv`, which follows content from the host to the reply: what is cached is
  the newest version served (`ServedFits`), an expired entry in a caller's
  hands is the default template's and not older than what the caller's call must beat
  (`CarriedFits`), a result that waits to be returned is valid and at least
  as new (`ResultFits`), and a reply is what the properties say (`ReplyFits`).
  That a fetch's content cannot be older than what was served is where
  `OneFetch` is needed: no other fetch of the template ended in between.
- `ManagedConversionProofs!Inductive` and its corollaries `Typing`, `DocumentsThere`
  (`NoDocumentMissed`), `CleanEnd` (`NothingLeftBehind`) and
  `RefusalsJustified` (`RefusedOnlyWhenFull`). The inductive invariant `IInv`
  says which documents of a request are stored at each point of the code, that
  what is left of a pass list names only documents that are stored, that what
  was looked up was found, and that `slots` counts the passes under way. The last part
  rests on cardinalities of finite sets (`FiniteSetTheorems`) and makes `release`, which silently
  does nothing on an empty channel, exact.

- `WorkflowProofs`: `Typing`, `BusyControls`, `Misled`, `Unmarked`
  and `StaysShort`, for any number of requests in flight. Types
  need `CallsFit`: a request to restore or to shorten carries a complete link, one
  to generate has rows, as what is shown when it is answered is made of it.
  `OfferFits` is `OnlyLateAnswersUnmark` without the flags in its guard, which
  the end of a request may clear. The rest is inductive as it stands.

- `RateLimiterProofs`: `Typing`, `WithinRate`, `Forgets` and `Implements`. They rest on
  `Full + MaxDelay <= EntryTTL` (in the code: one minute and fifteen, which leaves
  fourteen for a wait). The inductive invariant bounds how late a stamp can be where it is
  kept: an entry's `lastSeen` is at most `MaxDelay` before its last grant, hence a
  bucket that a sweep takes has had `Full` to fill (`SweepIsInvisible`); `nextSweep` is within
  two TTLs of each entry that a sweep left. `SpentFits`, that what was spent and what is left
  are within the rate, is kept by ticks because they fill each bucket by at most one (`TickFills`).

- `RuntimeStatusProofs`: `Typing`, `Currency` and, of both, `Sound` (`StatusIsSound`), for any number of pages and requests. Only the
  holder of the mutex probes (`HolderProbes`), so the prober keeps the newest check ever
  answered (`KeepsNewest`), and a probe under way began after it (`InOrder`).

- `Stage2RowsProofs`: `Typing`, `InPlace`, `Copies`, `Namesake` and `Spares`, for any sources, names,
  targets and catalogs. A copy
  gets a name that no row has, which says nothing of the marks, and a conversion, a reset or a restore replaces rows
under a verdict that is on its way; so the invariant adds that the row
  a mark is about is still there, under that name, and alone with it in its source (`Held`), for the
  marks on the page and for the verdict on its way, as far as these are not `Forgotten`. That a copy's name is free
  rests on the numbers being well-founded, and counting namesakes on the rows being finite (`FiniteSetTheorems`).
  That services come to be shared by a copy only (`SharingIsCopied`) counts the rows that have one, before
  and after, by an injection: a row that takes a service takes one that is offered to it, so nobody
  has it; what a catalog brings has no service yet, and a link has none twice (`Linked`, an assumption on what
links are made of, which TLC evaluates). That duplicates have namesakes needs `AllNamed` besides: what is marked as a duplicate is
  at a row that is there under that name, and a verdict on its way marks none.

- `FrontendProofs`, of the snapshot (`Stage2Editor`): `EditorInductive` and its corollaries `EditorTyping`, `Once`
  (`NothingTwice`), `Strays` (`OnlyDraftsStray`), `Precheck` (`PrecheckSuffices`), `MergeKeeps`
  (`MergeKeepsGroups`) and `RestoreKeepsSnapshot` (`RestoreBringsBack`), for any number of sources, servers and
  instances. That a member leads to the instance that was meant is not inductive: with a number given out
  twice it would lead to either instance at the next renumbering. `EditorIInv` therefore has that ids are unique, that
  lists have nothing twice, which a renumbering keeps because ids are unique, that a server has a group or a draft but
  never both, and that whatever is in a draft is `Forgotten`, as `Enable` takes it over unread. The code works on lists by
  filtering, joining and moving; the lemmas say where the items of the result come from:
  `InOrder` for `Those`, `Flat` for `FlattenSeq`, `Rearranged` for `InsertAt` after `RemoveAt`, and `Narrows` and `Follows` for
  what a conversion makes of a group.
- `FrontendProofs`, of the dialogs (`Stage1Dialogs`): `DialogsInductive`, `RelaysStayDistinct`, `LosesNothing` and `Crashes`, for any relays, texts,
  normal forms and bounds. That the page has each relay once needs a word on the draft only in b1,
  whose dialog replaces the list (`B1Draft`): its draft holds distinct relays, and all of the page's
  but for those taken out of it. The other schemes compare what they append.
- `FrontendProofs`, of the page (`Frontend`): `PageInductive`, that the parts' invariants hold side by side (`PageInv`), and
  from it `PageTyping`, `PageFresh` (`FreshIsInitial`), `MarksInPlace`, `PageCopies` and `PageMarks`. The tables' invariant
  is that of `Stage2RowsProofs`, twice instantiated. `PageEdits` and `PageDialogs` are refinements: every
  step of the page is one of `EditorSpec` or a stutter, and one of `DialogsSpec` or a stutter, so that what is proved of
  these two is proved of the page. The second is not a projection: a restore started in the part of `Stage1Template`
  is one of the dialogs' too, because no dialog is open there (`Closed`).

Every safety property of the passing runs is stated by a theorem. Only model-checked: liveness
(`EveryRequestEnds`, `EveryoneIsAnswered`), which the proof system does not reach, nor `ENABLED`,
and the absence of deadlock. The library's induction theorems, and what rests on them, cannot be used here; what `Picked` and `FlattenSeq`
compute is proved all the same, since both are recursive functions on the places of a list, and the places
where a claim fails would have a least one (`Least`).
`OnlyCreatesForget` and `RefusedOnlyWhenFull` are proved and not
in a run: `ImplementsDirectory` implies the first, `NothingLeftBehind` with the guard of a refusal the second.

## 6. Disagreements between the code and its documents

Five have a run that is expected to fail, with the quoted text in `PROJECT.json`.

1. `store_text_order`: `last_accessed_at` is RFC 3339 text whose fraction has no trailing zeros, and
   SQLite orders it as text; within one second "...05.1Z" sorts after
   "...05.11Z". The record evicted is then not the one accessed earliest. What does hold is
   `EvictsEarliestSecond`.
2. `store_collision`: the trim for a new row runs before the insert. At
   capacity, if the record with the colliding id is the one to evict, the
   insert succeeds and the old short link now leads to another state, where the
   document requires a failure. What does hold is `LinksAreBijective`.
3. `pipeline_restore`: a restore that passed its dry run runs the pipeline again
   for the catalog. If that fails, the answer is still "replayable", without a
   catalog to edit from.
4. `workflow_outrun`: stage 1 stays editable while a conversion is under way, and
   its answer clears the mark that stage 2 is stale without comparing
   inputs. Generating is then enabled for a stage 2 made from another input.
   What does hold is `OnlyLateAnswersUnmark`.
5. `workflow_readonly`: a menu of stage 2 that is open when a restore comes back
   conflicted is not closed, and its options are not disabled: choosing one edits
   the read-only stage 2 (`02-frontend-spec.md:339`).

Others show in the actions, or as an exemption of a property, and have no run of their own.

- `Stage2Editor`: a draft written back can name an instance that was deleted, replaced, or moved
  to another server (`06-stage2-model.md:173` allows none of these), and such a group can pass
  the page's precheck and be refused by the server; a member that leads nowhere is not shown in the
  order list but counts in it, so that a member dragged below it ends up a place too high (`Drag`); writing a draft back loses its order and may lose
  its first row (`Enable`); changing the strategy moves the first row's member to the end of
  the fallback order (`ChangeStrategy`, against `06-stage2-model.md:202`).
- `Stage2Rows`: a copy takes a port forwarding service along, which
  `06-stage2-model.md:171` allows to one row only, and the server refuses it later (`Clone`); changing
  one row's mode or target also clears what is marked in another row of the same
  source and name (`Cleared`, against `04-business-rules.md:549`); renaming any row takes all
  marks of duplicates away until a field is left (`Lasting`), and deleting one of two namesakes of
  different sources leaves the other marked; a blank name is refused by the
  server, and the page shows that at no row (`Refusals`); a generation's refusal that arrives after a restore, or after
conversions that dropped its source and brought it back, is marked on the row of the same source and name, though this holds
another mode or target and the server never saw it (`Answer`, `useAppWorkflow.ts:992`): `MarksStayInPlace` exempts it, no
document rules it out.
- `Stage1Dialogs`: an invalid text in b2's relay dialog, or an incomplete form in c1's and c2's
  SOCKS5 dialog, is thrown where nothing catches it and takes the page down; b1's relay dialog, when it
  is confirmed, takes away what a restore has brought since its draft was begun; c2's cannot be confirmed
  while a relay of the page is among its tags, with which it begins.

## 7. Not modelled

Trusted proxy, grouping by server and emoji, rendering, and the codec of long links: pure functions
over text and nested data, without state, order or failure between their steps; their tests reach
them. Of the front end: layout, themes, notices' texts, previews and the log. Restrictions of modes to some
protocols. Groups and rows of stage 2 are not composed: a row's mode enters `Stage2Editor` as a free choice,
its group does not enter `Stage2Rows`. What a row shows without a mark of the page's: the conflicts of a
conflicted restore, which come with its answer, and the page's own word on a target that the catalog has not
(`rowErrorsWithUnresolvedTargets`); while rows cannot be edited, marks are kept but not shown. Opening a database of the legacy schema
(one statement at start-up), caches switched off by a TTL of zero or less (plain fetches),
request decoding, headers and logging: nothing in them depends on order. What the badges show is the
last answer to arrive; the order in which answers arrive is the network's. The
server's write time-out of 30 s is shorter than a pipeline may take; the
handler runs to its end all the same, so the model is not affected, but the
client may never see the answer (listed as a hazard without a property).
