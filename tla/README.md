# WikINT in TLA+

WikINT is a document library: a FastAPI service with background workers (`api/`), a Next.js client
(`web/`), an edge worker that delivers files (`worker/`), and PostgreSQL, Redis, an S3-compatible object
store, ARQ queues and Meilisearch behind them. The parts that are hard to get right are those that
change several of these stores without a common transaction: an upload is a row in PostgreSQL, a
reference count and a handful of markers in Redis, and one or two objects in the store. The client has
hard parts of its own: it keeps copies of what the server holds, and answers, events, other tabs and
other members come in any order. This directory models these parts, checks them with TLC and proves nearly
all their safety properties with TLAPS, for any number of actors, files, tabs and requests.

1. [Inventory](#inventory) 2. [Plan](#plan) 3. [Modules and the code](#modules-and-the-code)
4. [Runs](#runs) 5. [Fairness](#fairness) 6. [Proofs](#proofs) 7. [Disagreements with the
code](#disagreements-with-the-code) 8. [Limits](#limits)

## Inventory

Paths are under `src/api/app/` unless they start with `src/`.

| Component | State | Operations | Hard because | Correct when |
|---|---|---|---|---|
| CAS usage journal (`core/storage/{capacity,facade,s3}.py`, `storage_*_cas_*.lua`) | Redis: cached total, generation, epoch, dirty mark, intents; the objects | write, delete, read the total, reconcile, recover | two locks that can be lost, presigned requests that land late, Redis falling back to its AOF, skewed clocks | a clean total is the truth; no request without a durable intent; intents drain |
| Capacity reservations (`capacity.py`, `storage_reserve.lua`, `storage_release*.lua`) | Redis: reservations with expiry, their sum, a generation | reserve, release, promote, sweep | the three summands of the decision live in different places and bytes move between them | an admission fits; the sum is the sum |
| Upload pipeline (`workers/upload/*`, `workers/process_upload*.py`) | the upload row, checkpoints, reference counts, status cache, quota | scan, strip, store, count, publish, post-scan | jobs interrupted and run again at a checkpoint, cancellation at any await | only sanitized bytes are published; references neither leak nor are released twice |
| Upload cancellation (`routers/upload/{status,cancellation}.py`) | row, marker, reference count, objects, quota | cancel, retry of a cancel | races publication, post-scan, cleanup | a cancellation is final and gives everything back |
| Scheduled cleanup and collection (`workers/cleanup_uploads.py`, `core/storage/liveness.py`, `routers/admin_storage.py`) | rows, references, objects | expire, reap, collect orphans, prune | decides on snapshots, deletes later | nothing live is deleted; nothing dead stays |
| Transactional outbox (`core/database/post_commit.py`, `workers/outbox.py`, `workers/storage_ops.py`) | outbox rows with attempts, leases, completion | persist with the transaction, dispatch, acknowledge, compensate | delivery at least once, lapsed leases, partial compensation | every committed intent is delivered; effects happen once |
| Redis locks and semaphores (`core/database/redis.py`, `semaphore.lua`) | leases, holders | acquire, renew, release | a renewal task that cancels its owner; leases that lapse under it | no two owners while leases are renewed; cancellations are not lost |
| Upload protocols (`routers/tus.py`, `routers/upload/{direct,presigned,batch_zip}.py`, `core/storage/multipart_completion.py`) | Redis upload state, multipart parts, intents | create, patch, complete, confirm, expire | retries of chunks, ambiguous completion | no byte twice or missing; one job per upload |
| Pull requests and directories (`services/{pr,directory}.py`) | contributions, file claims, materials, the tree | submit, approve, reject, revert, auto-merge | advisory locks before row locks, auto-merge against cancellation | the tree is acyclic; a contribution applies once |
| Authentication (`services/auth.py`) | users, tokens, setup state | bootstrap, login, refresh, demote | concurrent bootstrap and demotion | one bootstrap; never without an administrator |
| Upload event stream (`routers/upload/sse.py`, `workers/upload/cache_repo.py`) | status cache, event log, channel | emit, replay, follow | a subscriber between replay and channel | no terminal event is missed |
| Scanning and sanitization (`core/security/*`) | none | scan, strip, sandbox | data transformations | outside the reach of a model checker |
| Search index, presentation of the client, infrastructure | | | thin or pure I/O | not modelled |

The client (`src/web/src/`, one tab unless stated otherwise) and the delivery worker:

| Component | State | Hard because | Correct when |
|---|---|---|---|
| Session (`lib/auth-sync.ts`, `lib/api-client.ts`) | the cookie all tabs share, a token, a timer and a user per tab | a cookie is good for one refresh; tabs refresh at once | no cookie is used twice; a token has its renewal ahead |
| Routing (`layout-shell`, `auth-guard`, `config-provider`, pages) | path, account, `?next=` | each component redirects on its own | redirects come to rest, at a page the account may use |
| Event stream (`lib/sse-client.ts`) | the leader's stream, topics of all tabs | tabs close, the leader changes, topics do not fit | quiet means up to date |
| Upload client and queue (`lib/upload-client.ts`, `hooks/use-upload-engine.ts`) | parts, retries; items, runs, a counter | lost answers; pause, remove and retry while a run ends | nothing accepted is withdrawn; no slot is lost |
| Draft (`lib/staging-store.ts`, review drawer) | staged operations | references by temporary id and by index | a removal takes what is inside |
| Tree, browse page, listing (`components/browse/*`, `hooks/use-augmented-listing.ts`) | caches, requests, expansion; rows, selection, clipboard | requests overtaken by events and by each other | what is followed is current; no spinner without a request |
| Editing, pending contributions (`file-edit-dialog.tsx`, `lib/pr-client.ts`) | text and lock; ghosts | events that overtake answers | an edit builds on what it replaces; ghosts go |
| Pull request and search pages | verdict and copies of it; query, page number | decisions of others; debouncing | what is shown is the server's, and of this search |
| Viewers, thumbnails, inspector, menu, likes | loads and engines; a cache; tabs; archives; overrides | the component outlives its item | it shows its own item |
| Staff console | lists, scans, backups | acts on what it listed earlier | lists are their filter's; an old scan prunes nothing |
| Quizzes, discussions, notifications, saved items, accounts | forms, threads, pages | late answers, events, closures | as above; answers given are kept |
| Sign-in forms (`app/login`, `app/register`, `app/setup`) | challenges, generations, grants | one challenge shared by a code, a link and several tabs | a challenge signs in once |
| Delivery worker (`src/worker`) | the edge cache | requests share what one of them fetched | who asks for a file gets the whole of it |

The components meet at few points. The pipeline writes objects through the facade (the CAS journal),
asks for room through the reservations, counts references with `cas_incr.lua` and `cas_decr.lua`, and
leaves follow-up work in the outbox in the transaction that publishes. Cancellation shares the row, the
lifecycle lock in Redis and the reference counts with the pipeline; cleanup shares the rows and, through
the outbox, the reference counts. In the client the parts meet through the stores
and the cache of the browser; each module takes the others' moves as things that happen to it (an event, a
change of item, another tab). `PROJECT.json` lists the forty hazards that matter most, line by line. More of
the same kinds were seen and are not covered by a property: `clearOperations` after an await wipes what was
staged meanwhile (`review-drawer.tsx:419`); a lost answer to a POST leads to a second contribution, comment
or note; the edit dialog that a phone keeps mounted shows the text of the item before
(`viewer-fab.tsx:556`); `stagedStatus` reports the first operation staged for an item only; a range
selection past a list that has shrunk throws (`directory-listing.tsx:318`); pasting a staged folder into
one nested in it is not refused (`:442`); a late answer to a batch clears a newer selection (`:1292`); the
favourite POST toggles (`saved-card.tsx:209`); a refetch in bulk uses the filter of the closure that asked
(`users/bulk/page.tsx:261`). In the API: the completion of multipart uploads, expiry of rows whose job is
queued, the collector's snapshot (`workers/cleanup_uploads.py:455`), leases of Redis locks, lock order when
contributions are applied, auto-merge against cancellation, concurrent demotion of administrators.

## Plan

Done: `CasJournal`, `UploadLifecycle` (its reference counts as a refinement of `References`) and
`StorageReservations`, checked and proved; the 27 modules of the client and the delivery worker, checked, and
their types and all their properties proved.

Next, in this order:

1. `Outbox`: rows with attempts, lease and completion, the dispatcher, workers that die before they
   acknowledge. Abstract specification: a set of intents, each executed at least once after its commit;
   `Outbox` implements it under a refinement mapping that forgets leases and attempts.
2. `StorageLifecycle`: publisher, canceller and orphan collector around the storage lifecycle lock;
   expiry of pending rows and of quarantined objects against queued jobs. Property: what a row owns is
   never deleted.
3. `RedisLock`: lease, renewal task, internal and external cancellation; the semaphore script. Abstract
   specification: a mutex with a failure action, which `CasJournal` and `UploadLifecycle` assume.
4. `TusUpload`: offsets, parts and the two nested locks; completion whose answer is lost.
5. `PullRequest`, `DirectoryTree`, `Administrators`: claims, apply and revert, lock order, acyclicity.
6. The event log with replay; the panels of the configuration, the tools and the home page of the client.

Refinements worth stating next: a cache with one atomic total, implemented by `CasJournal` whenever the
total is clean; a mutex with a failure action, implemented by `RedisLock`.

Theorems worth proving next: mutual exclusion of `RedisLock`, acyclicity of the server's directories. No
module that is to be proved about declares a RECURSIVE operator.

## Modules and the code

`PROJECT.json` maps every definition to the lines it models. What follows explains the choices.

### CasJournal

An actor is a task of an API or worker process. It takes the PostgreSQL session lock (`fence`), then the
Redis lease (`lease`), and does one of the jobs that `capacity.py` runs under both: a mutation, a read of
the total, a reconciliation, or the scheduled recovery. Each action is one script, one command or one
call; the scripts are operators on a record (`db`) that holds the five Redis keys, and `aof` is the record
that Redis would load after a crash. `Fsync` in `BeginSync` and `DispatchSync` is `WAITAOF`, which must
return before the request may leave.

A request is a record on `wire`. The store admits it until its presigned window closes and may apply it
up to `Settle` later, whether or not the client still waits: `GiveUp` is the timeout of
`_bounded_cas_io`, which leaves the request on the wire. A listing that overlaps a landing may add up to
anything (`Listed`, `fresh`). `Die`, `Raise`, `LoseLease`, `LoseFence`, `CrashRedis` and the repeated
`WAITAOF` are the failures. `RecoveryDelay` and `Window` carry the arithmetic of the recovery clock, with
the signer's clock ahead of the store's by a member of `Leads`.

Not in the model: the copy and move wrappers of the facade, which nobody calls for `cas/` keys; failures
of the object store that tear a listing without a concurrent change.

### StorageReservations

One admission is four steps, as in `reserve_storage_limit`: the CAS total, the generation, the database
snapshot, the script. The CAS total behaves as `CasJournal` describes it: exact or not clean. Each upload
has content of its own here; sharing is the subject of `UploadLifecycle`. An upload that the client
announces with a size asks again with the real one. `Promote` and `ReleasePromoted` are the two halves of
approving a text edit, in a transaction and in a job that may run twice. A text edit's reservation lives
longer than its pull request may stay open, so that `Lapse` spares it while it is held; the others lapse
whenever `Lapsing` allows it. The usage cache under the legacy key is written and never read by the
decision. The retry limit is a nondeterministic end (`Stale`).

### UploadLifecycle

All uploads carry the same file, the case in which they share an object. Two contents exist, the
sanitized bytes and the raw ones; for a file with nothing to strip they are the same (`Original`). A
variable stands for one field of one store: the row, its outbox intent and the queued releases
(PostgreSQL); the counts, the markers of applied operations, reservations, quota, cancellation marker,
status and lifecycle lock (Redis); the storage lifecycle lock (a PostgreSQL advisory lock); the objects.

The worker's places follow `UploadPipeline.run` await by await, the canceller's follow
`cancel_upload_lifecycle`, the post-scan job's follow `process_upload_post_scan`. Awaits that only read
what the same actor keeps locked are merged with the next write. `Start` reads the checkpoint,
`Download` always fetches the quarantined original, `Sanitize` is skipped when the checkpoint is 2.
`Checkpoint` may fail silently, as the code suppresses it.

`Interrupt` is the shutdown or the death of a worker process: ARQ runs that job again. An ordinary
exception ends the job for good, whatever the comment in `process_upload_post_scan.py` ("Let arq schedule
the retry") hopes, so `Raise` leads to `_fail_upload` or, where nobody catches it, to the place `lost`.
`Reap` waits until the upload is at rest: it takes rows that were untouched for 48 hours, far longer than
a job may run.

Merged or left out: "malicious" is "failed"; pull request claims and the status "applied"; the personal
deduplication cache, which is validated against the database when it is used; retroactive quarantine,
which nothing enqueues; the loss of the lifecycle lease while it is held (planned with `RedisLock`);
markers that expire after 24 hours or 30 days; repeated post-scan jobs (planned with `Outbox`). Uploads in
`Earlier` start in the state a completed publication leaves.

### References

The abstract specification of the reference counts: holders take one reference each, operations give back
once, nothing is given back that is not counted. `UploadLifecycle` implements it under `Shares`.

### The client

A module stands for a hook, a store or a page with the components that share its state. A variable is a
piece of React state, a ref, a field of a store or a module-level cache; a request is a record in a set, with
what the server read when it answered and the marks by which the code tells it from others (an `AbortSignal`,
a counter, the component that mounted it). An action is a handler, an effect with what it triggers at once,
or the continuation of an await. Data are versions: "old" and "now", or the item they are about.

| Module | What it models | Simplified |
|---|---|---|
| `ClientSession` | tabs that refresh one cookie under a Web Lock and tell each other; sign-in and sign-out; the server's single use of a cookie | tokens are names; no browser without locks |
| `ClientRouting` | every redirect of the shell, the providers, the guard and the pages, any of which may come first | paths are classes |
| `EventStream` | leader, snapshots of the tabs' topics, the stream with its gaps, overflow and its timer | the server delivers or asks for a resync |
| `UploadTransfer` | one upload: direct, presigned, multipart, tus; retries; cancellation; the verdict | sizes are three classes |
| `UploadQueue` | the items of the drawer, their runs, the counter of slots, reloads, dropped folders | one tab |
| `DraftStaging` | staged operations with temporary ids, saves by index, cascades, purge and submission | one tab |
| `DirectoryTree` | caches of listings, requests overtaken, the walk to the current page, events | the root and one directory |
| `BrowsePage` | shared requests, the cache, background revalidation, prefetches, events | a folder and one inside |
| `DirectoryListing` | rows with staged changes and ghosts, arrow keys, selection over folders, cut and paste, batches, a download in parts | others change each item once; ghosts of others are not selected |
| `MaterialEditing` | the edit dialog as a row's menu and as a phone's page mount it, drafts and direct submission, version locks | one reading of the text at a time |
| `PendingContributions` | ghosts of submitted contributions against events, answers and a change of member | contributions of one kind |
| `PullRequestPages` | list, page and preview of a pull request, with decisions of others | one pull request |
| `SearchPages` | the hook with its timer and request, and the page and dialog that use it | two queries, two filters |
| `DeliveryWorker` | checks, cache, ranges, decompression and archives, step by step, for several requests | two requests for one key in the run |
| `MaterialViewer` | loading with retries, the PDF engine, the office editor, the waveform, printing | rendering left out |
| `MaterialThumbnails` | the bounded cache, regeneration and its polling, cards | the endpoint answers with what is published; `told` rises with a recalculation only |
| `ItemReactions` | two hearts that toggle one like; overrides of an item, the data of the sidebar's target | counts of likes; a sidebar that is closed; a bar that is mounted anew during its press |
| `ItemPanel` | target and tab of the inspector, what its tabs fetch, staff actions | |
| `ItemMenu` | the menu of a row and the toolbar of a page: delete, download in archives, print, thumbnails; a row scrolled away and back, each visit with its cancel ref | |
| `StaffLists` | the five lists with filters, pages, selections and actions | rows are any set |
| `StaffSystem` | health, scan, backups, featured items; a prune key by key (lock, look up, delete) against those who store an object under the same lock | one prune at a time; a connection lost with its locks |
| `QuizPages` | editor with images inserted one at a time, preview with the ref that says an attempt was started, viewer whose file may come late, import | what is typed left out |
| `Discussions` | threads under the event stream, comments | bodies and the order of threads left out |
| `Notifications` | filter, pages, marks | the badge; an answer is read when it comes |
| `SavedPages` | saved items, collections, dialogs, batches, the picker | mutations take effect with their answer |
| `SignInForms` | codes, links, passwords, registration, reset, setup in several tabs, with the server's scripts | every method enabled; a rate limit is a refusal |
| `AccountPages` | profile with its tabs, settings, leaderboard | recently viewed items left out |

The parts share no state, so that a product of their state spaces would say nothing new and be far too
large: each module is instantiated on the same variables `v1`, `v2`, ... (declared in `ClientParts` with the
constants), in `ContributingParts`, `BrowsingParts` or, where it has a module of proofs, `MCWebClient`; the
variable `part` says whose behaviour this is. The initial states of `MCWebClient` are
those of all parts, its steps those of the part that runs. Where several parts have a property of the same kind, `MCWebClient` states them as one: a page shows
what it was last asked for (`WhatIsShownIsAsked`), what is kept twice agrees (`CopiesAgree`), a credential is
used once, a refresh cookie once unless an answer was lost (`CredentialsAreUsedOnce`), and what says that it is under way is (`WaitingEnds`). Each conjunct is
the property of its module, with the comment that states it there.

## Runs

| Run | Instance | What it shows |
|---|---|---|
| `cas_journal` | 2 actors, 2 keys, 2 mutations, 2 failures | the six invariants, `JournalInv` (the inductive one) among them |
| `cas_journal_liveness` | 2 actors, 1 mutation, 1 failure | every intent is resolved |
| `cas_journal_retries` | with the client's retry policy | a violation, see below |
| `storage_reservations` | 2 CAS uploads, 1 text edit, sizes 1 and 2, capacity 3 | `TotalIsSum`, `SnapshotsAreFenced`, `CleanGrantsFit` |
| `storage_reservations_atomic` | the same | a violation of `GrantsFit` |
| `upload_lifecycle` | 1 cancellable and 1 earlier upload, 3 tries, 2 exceptions | `CancellationIsFinal`, `NothingCleanAfterCancellation`, `OwnersAreCountedOnFirstRun`, `NothingLeaks`, and that the counts implement `References` (`CountsAreReferences`) |
| `upload_lifecycle_liveness` | 2 fresh uploads, 1 exception | `UploadSettles` |
| `upload_lifecycle_sanitized`, `_release`, `_settled` | 2 tries, no exception | violations, see below |
| `web_client` | each of the 27 modules on an instance of its own | their types and 21 properties, see below |
| `stale_edit` | 2 materials, 1 of them edited as text, edits of others | a violation, see below |

The bounds. Two actors are enough for the journal because its serialization admits one at a time and the
interesting states have one intruder; the second mutation is the one that could be confused with the
first; two failures allow a lost lock and a crash together. Times are 0 or
1 because only their order matters, and the view `Relative` identifies states that differ by a shift of
the clock or in instants that have passed (every guard compares a time with `now` plus a constant);
actors are declared interchangeable, keys are not. Three units of capacity and sizes 1
and 2 let two uploads fit and not three, and make a double count visible. Two uploads are the smallest
number that share a reference count; the third try is the one that meets the state a completed second
run left behind. `MaxTries` also sets ARQ's limit after which the quarantined bytes go.

In `web_client` every part has an instance as small as its hazards allow, chosen so that the case each
property is about happens: two tabs and a refresh that fails, one topic too many for the stream, three parts
of which two are sent at once, three files for two slots, two requests that overtake each other, two items to
go between, two visits to a row, one contribution and two members, a part of a file asked for beside the whole of it. All actions
of every module fire. A mutant of each property (in `PROJECT.json`), a plausible slip in one definition of
the module, is refuted on the same instance. What the instances leave out: refreshes that are throttled, a
second tab for the queue and the draft, more than one level of nested folders (two in the draft), and
quantities larger than two or three, which the code treats alike.

Deadlock is reported in the runs of `CasJournal`, where time always passes. The other systems end, when every
upload has ended or every bound of a part of the client is used up, so their configurations switch the
report off; `UploadSettles` covers waiting for ever.

`NothingLeaks`, `OwnersAreCountedOnFirstRun` and `UploadSettles` carry their hypotheses in the formula:
the first needs a run without exceptions, since an exception after the count leaves a reference that only
the collector can see; the second excludes jobs that ran twice, where the property is false (a finding).

## Fairness

Weak fairness of every actor's own steps: tasks of an event loop keep running. Weak fairness of `Tick`
and of the expiry of a dead owner's lease: time passes. Strong fairness of the recovery's attempt to take
the fence: it is scheduled every five minutes and at worker start, and competes with others each time.
Nothing obliges a client to start a mutation or a cancellation, nor a failure to happen.

In `UploadLifecycle` weak fairness suffices for the locks although they are contended, because in any
behaviour each is taken finitely often. The dispatcher is a cron job, so delivery is weakly fair. A
cancellation that begins ends, with an error or not: the request handler runs to its end.

The modules of the client state no fairness: their requests may stay unanswered for ever, which is what a
network does. That something comes to an end is stated as an invariant that ties what is shown to what is
under way or tended by a timer (`WaitingEnds`, `QuietMeansCurrent`, `TokenIsTended`, `NoSlotIsLost`).

## Proofs

Eight modules hold the proofs: one for each module of the server, `ContributingPartsProofs`,
`BrowsingPartsProofs` and `BrowsingTypes` for the parts of the client and the delivery worker,
`WebClientProofs` for what they amount to, and `SumTheorems` for what several need. Each theorem holds for
every value of the constants its module's named assumptions admit.

`SumTheorems` is about the community operators `SumFunctionOnSet` and `SumFunction`, folds whose recursive
table the prover cannot unfold by induction. It derives what is needed (a sum takes one element out of its set
at a time, in any order; sums over disjoint sets add) from the definition of the table, by a smallest
counterexample: a family of subsets of a finite set has a minimal and a maximal member (`SmallestOf`,
`LargestOf`), a set of numbers a least one (`LeastNumber`), which needs no induction theorem with an operator
parameter.

### The server

`CasJournalProofs` proves type correctness and that every request that can still
change the store is covered by a dispatched intent, in memory and in the AOF, that nobody may recover
before the request's last instant, for all actors, keys, delays and bounds. It uses the named
assumptions of `CasJournal` only; the one with content is `TimeAssumption`: an admitted request lands
within the I/O timeout plus the grace period, which is what the code assumes of the store.

The property is not inductive. `JournalInv` adds what the actors know: identifiers are handed out once
(`IdsAreUnique`), a request has its actor waiting for it (`RequestsAreAwaited`), an intent is dispatched
once and by its own actor (`DispatchedOnce`), whoever recovers an intent saw its deadline pass
(`RecoveryWaits`), a capability is covered before it is used (`CapabilityIsCovered`), requests vanish
with their last instant (`RequestsAreLive`), and there is one intent at most (`SingleIntent`). Steps fall
into classes (`ActorStep`): one that only takes intents out of the journal keeps the invariant when
nobody needs what it takes, so most actions are proved by showing to which class they belong. The
actions that add something, `Begin`, `Dispatch`, `Send`, `Admit` and the fsyncs, have proofs of their own.
Notably the proof needs neither lock: serialization of intents follows from the scripts alone. With the
journal's invariant it gives `RequestsAreSerial`: at most one request that may change the store is under way
at any instant, although fence and lease may both have lapsed.

`TotalsAlwaysAddUp` is the invariant `TotalsAddUp`, for any finite set of keys: the physical usage is the sum
of the objects' sizes, and no total in memory, in the AOF or in an actor's hand is ever negative. Sizes are
what the store holds, so that a listing is a sum of them (`SumTheorems`), and the scripts change a total by a
difference only after the test that floors it.

`LandingInv` adds what the store holds. While an intent is pending only its own request can land, so what its
actor measured stays the size of the object until then (`SizeIsKnown`), a request names the key its actor
waits for (`RequestIsAsked`), and a listing during which nothing landed is exact, which is the case of every
listing made to settle an intent that is still pending (`ListingIsExact`). It holds unconditionally and gives
`RecoveryIsExact`.

`TotalInv` adds the total: without a dispatched intent it is unknown or right (`TotalsAreKnown`), with one it
lacks just what that mutation changed (`LackIsKnown`), and a scan during which something landed finds the
journal past the epoch it has read, or an intent still pending that will take it there (`ScanIsFenced`). All
three are about memory and the AOF alike. `CleanMeansExact` follows, but under a hypothesis, `RestartsKeepScans`: a
restart of Redis does not take the journal back before the epoch that a scan in progress has read. Without
it the property is false, because a pair (generation, epoch) does not identify a content of the store. An
actor is suspended before it takes its dispatch back, its intent is recovered (generation +1), another mutation begins
and is aborted (epoch +2), and a scan reads that pair; Redis restarts and has lost all of it. The late
undo of the first actor retires the restored intent, which raises the epoch and not the generation, and one mutation that is
committed brings both to the values the scan has read, with an object landed in the middle of the scan. TLC reaches
this along a given schedule with three actors, three mutations and seven failures: one restart of Redis, two exceptions
and four locks that lapse. With `appendfsync everysec`
(`src/infra/docker/redis/redis.conf:19`) a restart loses about a second of writes, so the hypothesis excludes
only a restart within about a second of a change of the journal that a scan began after.

`StorageReservationsProofs` proves type correctness and the three properties of the admission, for any
finite set of uploads, any positive sizes and any capacity. Its sums are those of `SumTheorems`. The
invariant adds to the types and the properties that whoever writes has the pending mutation
(`WritesArePending`), a clean usage is the sum of what is stored but for that mutation (`UsageIsExact`), an
admitted upload has its reservation until it is accounted elsewhere (`HeldIsReserved`), and an admission that
is under way asks for a size (`AsksAreSizes`) and has read a generation that exists (`GenerationsAreRead`).

- `TotalIsTheSum`: each script changes one reservation and the total by the same amount; the sweep sums what
  it removes.
- `SnapshotsStayFenced`: a row is committed before its reservation goes, and the release moves the
  generation on, so that a snapshot that misses the row is either refused or still counts the reservation.
- `CleanAdmissionsFit`: what is stored, promised or promoted after the script is covered by the clean usage,
  the rows of the snapshot and the new total together, each byte at least once.

`UploadLifecycleProofs` proves that every variable of `UploadLifecycle` keeps its type, for any uploads,
any number of runs and exceptions. `TypeOK` alone is not inductive, because the worker stores and counts
the bytes it carries: `BytesInHand` says that from the scan to the publication it carries some.
The assumptions are that there are finitely many uploads and that `None` is a value of its own.

- `CancellationHolds`: every step changes the row of one upload only, by an update whose WHERE clause
  spares cancelled rows or that leaves the status alone (`RowSteps`, one case for each way of updating).
- `CancellationSilences` needs `CancelInv`: whoever is about to announce, complete or cancel holds the
  lifecycle lock (`LockIsHeld`); an upload with a cancellation marker is not announced as clean and
  nobody is about to do it (`MarkedIsSilent`); a canceller has committed, marked and forgotten the
  reference by the time it is past these steps (`CancellerHasDone`). Without the first conjunct a worker
  that checked for a cancellation before the marker was set could announce after it.
- `CountsAreOnce` is inductive with the types: a step leaves counts and markers alone, adds a reference
  with a marker that was not there, or gives one back (`CountSteps`).
- `CountsImplementReferences` proves the refinement under the mapping
  `Shares`: the counts are the counts, the holders that took their reference are the uploads with a
  "finalize" marker, and the applied releases are the other markers. It needs `ContentIsRecorded`: whoever
  gives a reference back on behalf of a row (the canceller, the reaper's queued release) finds the content
  named in it, even after the row has forgotten that it owns a reference.
- `FirstRunsCountOwners`: while no job has run twice, the reference count is the number of uploads that took
  a reference and have not given it back (`CountsAreHeld`). `FirstRunInv` adds that a worker before the
  count has not taken one, one past it has and has not returned it (`FirstJob`), and that of canceller,
  compensation and reaper one at most is entitled to return it (`FirstReturn`). The hypothesis is one of the
  formula: nothing is claimed of later runs, where the property is false.
- `SmoothRunsLeakNothing`: if moreover no exception came, an upload at rest is accounted for wherever a
  cancellation met the worker. `SmoothInv` follows reservation, quota and reference from place to place.

The lock in these theorems is one that lapses only with the job that holds it; a lease lost by a live job is
outside the model, and so outside the theorems.

### The client and the delivery worker

The proofs come in two groups, `ContributingPartsProofs` (session, forms, queue, transfer, pull requests, ...)
and `BrowsingPartsProofs` (tree, browse page, search, viewer, delivery worker, ...), one section for each part:
that the invariant of the part holds at first and that its steps keep it. The invariants stand at the end of
the parts' modules. `WebClientProofs` draws the conclusions for the run. No step leaves its part
(`PartStays`), and a step of the run is one of its part or a stutter (`OwnSteps`), so that what each part
keeps, the run keeps.

- `NoReplay` and `TokensAreTended`, for any number of tabs, sign-ins, refreshes and
  messages, if a refresh fails in the two ways the code knows (`Failures`): what
  `NoCredentialIsUsedTwice` and `TokensHaveRenewals` below take to the run. A cookie is spent at the server
  before the browser stores the next one, so `CookieInv` says which cookie is ahead of all that was spent in
  its session: the browser's, or, between a granting answer and its arrival, the one that is coming. The
  messages between tabs play no part in it. For the tokens it is enough that every step leaves a tab with no
  token, an armed timer or the timer's refresh under way, and the other tabs alone (`TendedStep`).
- `ServedWell`, for any clients and keys, which `WholeFilesAreServed` below takes to the run. `WorkerInv` adds that the cache and what is
  on its way to it are whole, decoded files without a capability's headers (`CacheIsClean`), and that only
  requests for whole files look there (`StagesFit`).

The named assumptions of `ClientParts` are what the proofs need of the constants:
a refresh fails in one of the ways the code tells apart (`FailuresAreKnown`); a visitor may be sent on
at least three times, which is as often as the guards do it (`HopsSuffice`); bounds are numbers, and the
first page of a search is one (`BoundsAreNumbers`); files and channels are finitely many (`FewAtATime`);
"none" names nobody and nothing (`NoneIsNone`). The types need of each part that its own bounds are numbers,
that what it counts is finite, and that there is room for the first of what it bounds: a sign-in, a try, a
page, an item (`SessionBounds`, `TransferBounds`, ... `ListingBounds`).

| Theorem | Property | What had to be added |
|---|---|---|
| `PartsAreTyped` | `TypeOK` | see below |
| `TokensHaveRenewals`, `NoCredentialIsUsedTwice` | `TokenIsTended`, `CredentialsAreUsedOnce` | for the forms: a challenge is in one place only, and what was granted before is spent (`FormsInv`) |
| `VisitorsComeToRest`, `RestingPagesAreAllowed` | `RedirectsSettle`, `RestIsAllowed` | how many hops remain from each place, by cases on the visitor's account |
| `QuietStreamsAreCurrent` | `QuietMeansCurrent` | `StreamInv`: the stream is its leader's, its address covers what fits, overflow has its timer, a tab behind is told by a note, the wire or a resync that is coming |
| `CompletedUploadsStay` | `CommittedIsKept` | nothing is committed before a completion is sent; a withdrawal nobody asked for ends the call |
| `SlotsComeBack` | `NoSlotIsLost` | `QueueInv`: the counter is at most the number of runs that will give a slot back |
| `OpenTreeFollows`, `WaitingIsForSomething` | `FollowedIsCurrent`, `WaitingEnds` | `TreeInv`: an overtaken answer leaves a mark, a request or a fetch of the walk behind; `SearchInv` |
| `CacheFollowsEvents` | `CachedIsPostEvent` | answers that may still fill the cache are no older than the event |
| `CorrectionsAreDue` | `OnlyPastTheEndIsCorrected` | the total belongs to the hits beside it |
| `DecisionsShownWereMade` | `ShownIsDecided` | what the server answers to have done, it has done for good |
| `NoThumbnailFromBefore` | `NoneOlderThanTold` | neither the cache nor what may fill it is older |
| `ClosedGhostsGo` | `NoStaleGhost` | `PendingInv`: the store is its owner's, a POST is its author's |
| `CopiesStayAlike` | `CopiesAgree` | `LikesInv` counts the presses on both sides, and says that an override hides what the target's data were of old, as long as no like has strayed into other data; `DiscussInv` |
| `PagesShowWhatIsAsked` | `WhatIsShownIsAsked` | see below |
| `WholeFilesAreServed` | `ServedAsAsked` | `WorkerInv` |
| `RemovalsTakeContents` | `RemovalTakesContents` | `DraftInv`: staged folders have temporary ids and no upload; that `Nested` reaches every depth |
| `GoneRowsStopArchives` | `ZipStopsWithItem` | `MenuInv`: the ref of every visit that is over is set and no later download resets it |
| `NamedStaysStored` | `NamedIsStored` | `PruneInv`: a key being looked up or deleted is locked, by nobody who would store it; what is to be deleted is still not live |
| `AnswersOutliveImports` | `AnswersAreKept` | `QuizInv`: who has answered has the ref set, and nothing is loaded while one edits |

`PartsAreTyped` joins the types of all 27 parts. Those of the contributing parts are proved at the end of
`ContributingPartsProofs`, those of the others in `BrowsingTypes`; routing, forms and the draft have them in
their invariants. In some parts the types are inductive, in some with the invariant that their property needs
anyway. In the others a field is bounded because another one is, as definitions at the end of the module say:
a channel is only written to while it has room, and a refresh that was granted has a renewal left
(`ChannelsFit`, `RequestFits`); an upload that is not over has a try left for its step (`AttemptsFit`), as has
a viewer that waits (`TriesRemain`), and an archive that waits has a part left (`PartsRemain`); the requests
for thumbnails never exceed `MaxActive`, and every button that remakes one has a generation of the cache
reserved (`RequestsFit`, `DropsFit`); one replies only beside a material, and a thread starts with its root
(`SendsFit`); images are inserted at a place of the quiz (`PlaceFits`); the page of the backups shows backups
and no forms (`BackupsFit`). In the dialogs of materials every lock that a form, a staged edit or a
contribution carries is below the bound, because no material has more edits than all of them together
(`EditingFits`, with `SumTheorems`); the rows of a listing are finitely many, of the tree's places
(`ListingFits`).

`RemovalsTakeContents` needs what a recursive function computes. That the table behind `Nested` exists, and that
as many rounds as there are operations suffice, is proved by a least counterexample among the natural numbers
(`LeastNumber`): a round that adds a folder also adds an operation that lies in what was found so far, and there
are only so many.

`PagesShowWhatIsAsked` joins eight parts in which a request outlives what asked for it. Each invariant says
which of the requests under way may still be shown, and that these are for what is asked now: those of the
viewer that are alive (`ViewerInv`, which also says what each engine shows while it loads), the name and the
edits of the inspector's target (`PanelInv`), the request of a staff list that its counter names (`ListsInv`; no such thing
holds of the list whose actions ask again with the filter of their closure, and the property does not claim it), the
current refresh of the notifications (`NotificationsInv`), a press in the picker, which remembers its item
(`PickerInv`), the period of the leaderboard (`AccountInv`), and the texts a row's own dialog waits for (`RowsInv`).

### Only model-checked

- `CleanMeansExact` without `RestartsKeepScans`, which TLC finds to hold up to the failures the run admits.
- All liveness, which like ENABLED is out of the prover's reach.

## Disagreements with the code

Each is a run that TLC refutes on the code's own terms; `PROJECT.json` quotes the line that is contradicted.

- `cas_journal_retries`: the Redis client repeats `WAITAOF` on a new connection, which says nothing about
  writes lost in the restart. The base specification assumes that a broken connection surfaces as an error.
- `storage_reservations_atomic`: the script adds a total whose cleanliness was established earlier.
- `upload_lifecycle_sanitized`: a job that resumes after the scan publishes the original bytes.
- `upload_lifecycle_release`: a second run's compensation and the canceller release the same reference.
- `upload_lifecycle_settled`: a second run of a finished job leaves the row in processing.
- `stale_edit`: the edit dialog sends the text it loaded when it opened with the lock of the version the page
  holds now, so that another member's edit published in between is replaced without a conflict.

Seen while modelling, without a run of their own: a like that is confirmed after the sidebar moved is merged
into the data of the item it moved to (`details-tab.tsx:217`), whose bar then shows it although `stores.ts:134`
means the hearts to stay in sync, and one that fails by then sets that bar to the opposite of the press (`:220`),
so that `HeartIsServers` is stated for behaviours without either (`strayed`, `orderly`); an exception between
the count and the publication leaves a reference nobody records, and the collector takes the Redis record for
an owner; `_fail_upload`
after a publication turns a clean row into a failed one that still owns its reference; nothing expires
rows in processing; when the answer to a refresh is lost after the server consumed the cookie, or is a 5xx
(the cookie is consumed before the rest of the handler, `routers/auth.py:696`), the retry that
`auth-sync.ts:144` schedules to keep the session presents the spent cookie and the server revokes the
session; a refresh of the session that the server throttles (429) signs the user out, although
the comment at `api-client.ts:120` means to keep the session, because `isRetriableError` does not count it
as transient.

## Limits

Data are abstracted: no bytes, names or MIME types. PostgreSQL is a set of variables changed by atomic
committed statements, at READ COMMITTED, which is how the modelled statements use it. The object store is
strongly consistent. Redis scripts are atomic. Redis crashes are modelled in `CasJournal` only. What a
composition of the three modules would add, an upload's write being a journalled mutation and its
admission a reservation, is planned after `StorageLifecycle`.
