# Verification of ratatoskr

Ratatoskr is an HTTP service that answers update questions for OpenShift: which versions and
channels an installed operator can go to (from file-based operator catalogs), and which
releases a cluster can go to (from the OpenShift update graph).  This directory holds TLA+
models of its Go source, TLC configurations that check them on small instances, and theorems
about them that TLAPS checks for every value of the constants.  Paths in this document and in
`PROJECT.json` are relative to the repository (`src/` here stands for its root).

How to run, in this directory:

    tlc -config RefreshSafety.cfg MCCatalogRefresh.tla     # any run of the table below
    tlapm CatalogRefreshProofs.tla                         # any *Proofs module

## 1. Inventory: the parts of the system

### Catalog refresh scheduling and publication (`internal/service/service.go`)

*State*, all under `Service.mu`: the configuration, `snapshots` and `statuses` by source id, the
sets `queued` and `running`, `runContext`; and the semaphore channel `refreshSem` of capacity one.
*Operations*: `Run` (a first `queueAll`, then a timer), `queueAll`, `QueueRefresh`,
`refreshQueued` (one goroutine per queued source), `Refresh`, `refresh`, `markAttempt`,
`markFailure`, `finishQueued`, `Reload`.
*Interactions*: the scheduler, reloads and the two POST endpoints all go through `QueueRefresh`;
the `refresh` command and library users call `Refresh`; the reader is called with no lock held;
HTTP handlers read `snapshots` and `statuses`.
*Hard*: a refresh is six or more sections under the lock with a long read between them.  A
reload, a request or the shutdown can come between any two.  A source can be replaced, removed
and brought back while a goroutine works for it.
*Correct when*: refreshes never overlap; the maps agree with each other and with the
configuration; no mark is left without a goroutine that will clear it; readers see whole
snapshots of the configured source that never go back to older settings; every accepted refresh
ends; a new source is read without waiting for the timer.

### Freshness of snapshots over time (`service.go`, `internal/config/config.go`)

*State*: the timer of `Run`, the line in front of `refreshSem`, the `GeneratedAt` of snapshots.
*Operations*: the timer, requests, reads that succeed, fail or time out, the configuration check
of `maxSnapshotAge`.
*Hard*: whether a snapshot expires depends on the other sources, on failures, and on reloads that
restart the timer.
*Correct when*: an accepted refresh is over within a known time and the age of a snapshot has a
known bound.

### OpenShift lookups and retained results (`internal/service/snapshot.go`)

*State*: `openShiftSnapshots` (at most 128 retained results), `openShiftInFlight` (the order of the
lookups of each request, counted by references), `openShiftAttempt`, `openShiftGeneration`.
*Operations*: `openShiftUpdates`, `snapshotAcceptableLocked`, the OpenShift part of `Reload`.
*Hard*: lookups of one request overlap and finish in any order; results are evicted; the upstream
changes and changes back during a lookup; the age limit changes between storing and serving.
*Correct when*: the memory that clients can claim is bounded, a client never sees a request go
back, and no answer is too old or from another upstream.

### OpenShift graph client and release stream (`internal/openshift/releases.go`, `release_stream.go`)

*State*: none that lasts; a lookup reads the update graph and then the release stream.
*Operations*: `Client.Updates`, `addReleaseStreamHistory`, `streamReleasesBetween`.
*Hard*: two upstreams are read at different times, need not agree, and fail independently; the lag
hides the newest updates, which the release stream also knows.
*Correct when*: the answer has exactly the updates that the lag leaves, all accepted releases up to
the newest of them and nothing newer, or there is no answer.

### Advisory changelogs (`internal/openshift/changelog.go`)

*State*: `ChangelogCache.entries` and `pending`; per response, one goroutine per release, a
semaphore of four tokens and a context of five seconds; a byte budget for all texts.
*Operations*: `enrichChangelogs`, `cachedChangelog`, fetching and rendering an errata page.
*Hard*: goroutines of different responses wait for each other's fetches while they hold tokens;
contexts end at any moment; the clock is read before the lock is taken; a fetch that fails falls
back on a stale text.
*Correct when*: an advisory is fetched once at a time, nobody waits for ever, the cache moves
forward, no text that was known is lost, and a response stays within its budget.

### Catalog update graph (`pkg/catalog/resolve.go`)

*State*: none; a package of a snapshot is read.
*Operations*: `VersionUpdates` (direct or reachable versions in a channel), `ChannelReleases`
(channels that accept the installed bundle, all of them or the next), `currentBundle`.
*Hard*: catalogs contain cycles, branches, skip ranges that contain their own entry, several
bundles with one version, deprecated bundles and channels; a client acts on an answer and comes
back with what it remembers of it.
*Correct when*: the answers are exactly what the edges of the channel reach, and a client that
follows them is never lost nor led off its path.

### File-based catalog reader (`pkg/catalog/catalog.go`)

*State*: none that lasts; one `Snapshot` under construction, guarded by a mutex.
*Operations*: `Read` pulls and unpacks an image; `readFS` walks its files with several goroutines
and merges each record (`addMeta`, `ensurePackage`); a check at the end refuses entries without a
bundle and packages without a default channel.
*Hard*: the records of one package are in several files and are merged in any order; a goroutine can
fail, and the context end, while the others go on merging.
*Correct when*: the snapshot is one that all records together have, whatever the order; a catalog
with a defect, or a read that was cut short, never becomes a snapshot; every read ends.

### HTTP API (`service.go` from `Handler` on)

*State*: none of its own; it reads the configuration, the snapshots, the statuses and the token file.
*Operations*: handlers that read take one look under the read lock and format it (`ready`,
`snapshot`, lists, packages, updates); `refreshOneHTTP` and `refreshAllHTTP` look several times, with
`authorizeRefresh` between.
*Hard*: readiness and lookups decide by different means which snapshots count; the configuration,
the Secret and the refreshes change between the looks of one request.
*Correct when*: all handlers agree about which catalogs are served, no refresh begins without the
token, and a request for all catalogs passes over none.

### Configuration (`internal/config/config.go`)

*State*: none.  *Operations*: strict YAML, defaults, validation (`resolve`), and the expansion of
channels, catalogs and explicit sources into one list (`expandSources`, `selectCatalogs`).
*Hard*: durations near the greatest one; explicit sources that take the place of generated ones.
*Correct when*: a file is accepted exactly if it is well-formed, and then every id stands for one
source.

### Process (`cmd/ratatoskr/main.go`)

*State*: the digest of what `watchConfig` read last.
*Operations*: `serve` reads the file, starts `Run`, the HTTP server and `watchConfig`, which polls the
file and calls `Reload`; signals end the context.  `refresh`, `discover`, `query` and `channel` are
one-shot commands.
*Hard*: the file belongs to somebody else and is replaced at any moment, also by something that
cannot be read or parsed; the digest is remembered before the content is applied.
*Correct when*: what is remembered is in force, and a file that stays takes effect.

### Subscription discovery (`pkg/cluster/discovery.go`)

Two list calls to a cluster and a join in memory.

### Helm chart, container image, release tooling

Deployment and build configuration: no state of the program.

### How the parts interact

    file --watchConfig--> Reload --QueueRefresh--> goroutine --refreshSem--> Reader --> snapshots
    timer, POST ----------------------^                                                    |
    GET /v1, /v2 (catalogs) <-- VersionUpdates, ChannelReleases <--------------------------+
    GET (OpenShift) --> openShiftUpdates --> Client.Updates --> graph, release stream
                              |                     '--> enrichChangelogs --> ChangelogCache
                              '--> retained results (dropped by Reload when the URL changes)

The hazards that follow from this, each at its line and with the properties that would catch it,
are in `PROJECT.json`.

## 2. The modules

| module | models | abstract specification | theorems |
| --- | --- | --- | --- |
| `CatalogRefresh` | scheduling and publication of refreshes | `CatalogStore` | `CatalogRefreshProofs` |
| `SnapshotFreshness` | the same with a clock, for fixed sources | | `ConfigurationProofs` |
| `OpenShiftRetention` | retained OpenShift results | `LatestResults` | `OpenShiftRetentionProofs` |
| `ReleaseUpdates` | one OpenShift lookup, and the budget for texts | | `ReleaseUpdatesProofs` |
| `ChangelogCache` | advisory texts of concurrent responses | | `ChangelogCacheProofs` |
| `PackageGraph`, `UpdateGraph` | packages; the update searches and a client that follows them | | `UpdateGraphProofs` |
| `CatalogRecords`, `CatalogReader` | reading a catalog with several walkers | `CatalogContents` | `CatalogReaderProofs` |
| `ConfigWatch` | the configuration file and its watcher | | `CatalogAPIProofs` |
| `CatalogAPI` | readiness, lookups and refresh requests, composed with `ConfigWatch` | | `CatalogAPIProofs` |
| `SourceExpansion`, `ConfigFile` | how a configuration file is resolved; what it should mean | definitions in `ConfigFile` | `ConfigurationProofs` |

`MC...` modules hold constants and symmetry sets for TLC.  Definitions whose comment begins with
"Seeded fault" are not part of any specification: each is a wrong version of the definition that
follows it, and the property listed with it in `PROJECT.json` (`mutants`) fails when it is used.

### CatalogRefresh

One action per section under `Service.mu`, and one per step without it.  `pc` of a goroutine is
where `refreshQueued` is: `waiting` (select on the semaphore or the context), `claim` (take the
queue mark, look the source up), `unconfigured`, `attempt` (`markAttempt`), `settings`
(`refresh` reads the configuration), `reading` (no lock), `publish` or `fail`, `finish` (the
running mark is cleared), `requeue`, `release`.  `QueueRefresh` is an operator used by all its
callers, with the labels that the caller's own step leads to.  Callers that queue several ids
(`Run`, `Reload`, `refreshAllHTTP`) hold what is left in `todo` and queue one id per step, since
each call takes the lock anew.

Abstractions.  A source is an id and a value that stands for image and platform; reader settings
(signature policy, parse concurrency) are one value.  A snapshot is its source, its settings and
how many reloads had been applied when those were read; `reloads` is used for nothing else.  A read
ends either way.  Errors are a flag.  One request to the refresh-all endpoint is under way at a
time, and `Workers` bounds the goroutines.  The restart of the timer by `notifyConfigChanged` is
not a step here, because the timer may fire at any time; it is in `SnapshotFreshness`.
`DirectRefresh` is the exported `Service.Refresh`, whose caller brings its own source, possibly an
outdated one.

`CatalogStore` is what a reader of the service relies on: at most one complete snapshot for each
configured source, replaced as a whole by one of the source that is configured at that moment, read
under settings at least as recent, and dropped only when a configuration no longer names it.
`Store == INSTANCE CatalogStore WITH version <- reloads` is the refinement mapping.

### SnapshotFreshness

What `CatalogRefresh` shows to be one at a time and to end is here a place in `line` and a length.
The clock ticks; reads take up to `Timeout` and the timer fires every `Interval`, everything else
takes no time (`Tick` waits for it).  `age` is the time since `GeneratedAt`, with which `refresh`
dates a snapshot when it is published; before the first one, since the start.
`Restart` is what a reload that leaves the sources alone does to the timer.  No shutdown and no
change of sources.

### OpenShiftRetention

One action per section of `openShiftUpdates`: `Request` (the handler reads URL and limit),
`Register`, then one of `Reject`, `FallBack`, `YieldToNewer`, `Publish`, in the order of the code's
returns.  `Finish` is the deferred function that all of them run.  `newest` and `floor` are
auxiliary: the newest published attempt of a request, and what it was when a lookup registered.
`epoch` in results stands for the generation in which they were fetched.  `LatestResults` is the
abstract specification, with `results` mapped from the retained entries.

### ReleaseUpdates

The steps of `Client.Updates` in order: `ReceiveGraph` (direct successors and the lag),
`ReceiveTags` (accepted, stable, strictly semantic versions in the range), `Enrich`, one `Fit` per
release from the newest on, `Answer`; `GraphFails` and `StreamFails` stand for every error return.
`streamKnown` says whether `addReleaseStreamHistory` has a stream to ask (URLs, architecture).
Versions are numbers, so every version is a strict semantic version, and the tags of a stream are
distinct (two equal tags in the payload would be listed twice).  All replacement texts have one
size.  The first entry of the sorted list is not enriched: that is the installed release unless the
graph has edges back, which the model allows.

### ChangelogCache

A goroutine per release: `token`, `clock` (the time is read before the lock), `lookup` (`Hit`,
`Join` or `Lead`, one section), `wait` (on the call or the context), `fetch`, `publish` (the last
section, with the close of the call).  A call is named after the goroutine that makes it.  Texts are
numbered by the fetch that they came with.  `floor` is auxiliary: what the cache held when a
goroutine asked.  Parsing and rendering are left out.

### PackageGraph and UpdateGraph

`PackageGraph` has packages and what is decided by looking at one: `Accepts` and `Successors`
(`replaces` and `skips` merged into `from`, skip ranges as sets of versions), `Entered`,
`Installed` (`currentBundle`, by name or by version, ambiguous or not), the orders of bundles and
channels.  `UpdateGraph` has the two breadth-first searches with their queue and seen set, one bundle per
step, and a client that takes anything it is offered and asks again, remembering a bundle or only a
version.  The queue is a set, since the order of the search does not show; insertion at the
sorted place (`Inserted`) for each release, in any order of channels, is the sort over a map.
Bundles and channels are numbers in the order of their names; version 0 stands for text that is not
a semantic version.  The package does not change during a journey.

### CatalogRecords, CatalogContents and CatalogReader

A record is its schema, package, name and value; what cannot be decoded is `Fatal`.  `CatalogReader`
acquires the image in one step that may fail, then each walker takes a file, merges its records
one by one (`Merge`, the callback under its mutex), and looks for the next; a walker that fails
stops the others, but they may merge on until they notice.  `Finish` is what follows the walk: the
error of the walk, the context, the loop over the packages.  How `WalkMetasFS` distributes files is
not in this repository; the model allows any distribution.  `fault` says that the context has ended
or the image could not be had, `Nothing` is the empty snapshot.  `CatalogContents` reads all records
at once: `Whole == INSTANCE CatalogContents` maps its result to the snapshot when the verdict is
there.  Records that are about one thing (the same package, channel or bundle) replace one another,
so its result is any merge.

### ConfigWatch

`Start` is `loadWithDigest` with all that `serve` does before it serves, `Poll` one tick of
`watchConfig` that finds something new, `Apply` the call of `onChange`; between the two the file can
change.  A tick that finds nothing, or cannot read, is no step.  A content stands for its digest, so
contents never collide.  The `Edit` of the owner of the file also makes it unreadable.

### CatalogAPI

It extends `ConfigWatch` and conjoins its steps: `Reload` is `Apply` with what it does to the
snapshots.  The refreshes are there as far as handlers see them: `Schedule`, `End` (which publishes a
snapshot of the source that is configured at that moment, as `CatalogRefresh` shows, or nothing) and
`Expire`.  Queued and running are one set.  One request is under way at a time; its steps are
the sections of the handler: `find` (`hasSource`), `setting` and `token` (the two halves of
`authorizeRefresh`), `queue` or `collect` and `each`.  Ids are queued in any order.  The fields
`enabled`, `matched` and `throughout` are auxiliary: what was the case at some time, or all the time,
since the request came.  `Reload` may let a snapshot expire or be acceptable again, since the new
configuration can have another `maxSnapshotAge`.

### SourceExpansion and ConfigFile

`SourceExpansion` has the functions of `internal/config` as folds with their early returns: `resolve`
and what it calls, from decoded fields to a list of sources or a rejection.  Durations are signed
integers from -`MaxDuration` - 1 to `MaxDuration`, and `Wrap` is what the arithmetic of the machine
makes of a result outside of them; an id is a pair of catalog and channel, as generated, or
anything else.  `ConfigFile` loads one file (`raw`, `loaded`, `result`; `FileInit` and `FileSpec`, so
that it can stand beside `SnapshotFreshness`) and says what it should mean (`ListsWellFormed`,
`SettingsWellFormed`, `RoomForRefresh`, `Meaning`).  In `MCCatalogAPI` the files of the watcher are decoded
files that `Resolve` resolves, by an assumption that TLC evaluates.

## 3. What TLC checks

| run | distinct states | what it shows |
| --- | --- | --- |
| `RefreshSafety` | 1 599 183 | types, `OneRefreshAtATime`, `BookkeepingAgrees`, `NothingStuck`, and the refinement of `CatalogStore`: refreshes never overlap, the maps under the lock agree, nothing is left in progress that nobody works on |
| `RefreshLiveness` | 292 859 | `RefreshesEnd`: every accepted refresh ends, shutdown and removal included; `NoSourceForgotten` after one reload |
| `RetentionSafety` | 1 198 544 | `RetentionBounded`, `InFlightExact`, `MonotonicAnswers`, `AnswersAcceptable`, and the refinement of `LatestResults` |
| `FreshnessBound` | 2 230 152 | `ServedWithinRound` and `FreshEnough` with one failure and one restart of the timer |
| `ChangelogSharing` | 632 802 | `PendingExact`, `AtLeastWhatWasKnown`, `CacheMovesForward`, and `ResponsesEnd`: tokens and calls never wait for each other in a circle |
| `UpdatePaths` | 1 097 424 | `OffersExact`, `ReleasesExact`, `NeverLost`, `StaysOnPath`, `NextPrefersNewer`, and `SearchesEnd` |
| `ReleaseAnswers` | 117 661 | `LagExact`, `WithheldHidden`, `RangeComplete`, `TextsFit`, `NothingOmittedInVain` |
| `CatalogReading` | 61 200 | `SameInAnyOrder`, the refinement of `CatalogContents`, and `ReadEnds` |
| `CatalogService` | 376 767 | `RememberedIsActive`, `ViewsAgree`, `RefreshesAuthorized`, `NothingPassedOver`, `FileTakesEffect` |
| `ConfigFiles` | 45 530 | `ExpansionExact` and `AgeCheckExact`: a file is accepted exactly when it is well formed, and each id stands for the source it should |
| `RefreshForgotten` | violation | `NoSourceForgotten` with two reloads |
| `RefreshDuplicated` | violation | `NoDuplicateJobs` |

For every property of a passing run `PROJECT.json` lists a mutant: a plausible bug which, put in the
place of a definition, makes TLC find the property violated under the same bounds.  Bounds, and why they are enough:

- *Refresh*: two ids so that one source can hold the semaphore while the other waits; one of them
  is replaced, removed and comes back, which takes two reloads.  Four goroutines in the safety run:
  both sources, a superseded one, and a direct caller.  Three in the liveness run, so that
  `QueueRefresh` never lacks a goroutine.
- *Freshness*: three sources, the least number for which somebody waits behind somebody who waits;
  the timeout does not divide the interval, so the timer fires before, during and after
  reads.  `FreshEnough` is exact there: with one tick less TLC finds a violation.
- *Retention*: three lookups are the least for one that is overtaken while another of the same
  request still runs; room for one result makes every other request evict it.
- *Changelogs*: two responses of two releases each with one token per response are the least in
  which both responses can hold a token and wait for each other.
- *Update graph*: three bundles and four channels give cycles, branches, a shared version and a
  family of which the installed channel can be the first, the middle or the last.
- *Reading*: two walkers and three files, so that one walker can fail or end while the other is in
  the middle of a file and a third one waits; two packages, one of which may be incomplete.
- *Service*: four contents are the least with a source that changes its meaning, one that is removed,
  a control that is disabled and a file that is refused; two replacements let the file change and
  change back.  One token file and two tokens.
- *Files*: up to two channels, two catalogs and two explicit sources of every kind, so that each can
  be a duplicate or an override; durations of four bits, which reach both ends of their range.
- *Release answers*: five releases leave room for one before, between, among and after the updates.

Deadlock is checked in all runs but those whose behaviours end: `RetentionSafety` (all attempts used),
`ChangelogSharing` (both responses complete), `UpdatePaths` (a request was refused),
`CatalogReading` and `ConfigFiles` (the read is over), `CatalogService` (the process has exited).

Type invariants are theorems (`TypeCorrect` of each proof module); runs check one only where a
mistake of the code would show in it: the token of the semaphore, the budget for texts.

### Fairness

- `CatalogRefresh`: weak fairness of what a goroutine does without waiting (`refreshTimeout` bounds
  a read, and a cancelled context is always ready); strong fairness of `Acquire`, because senders
  blocked on a Go channel are served in the order in which they came; weak fairness of the loop of
  `Run` up to its select and of loops over collected ids.  Nothing is assumed of the timer, of
  requests, of reloads or of the shutdown.
- `ChangelogCache`: weak fairness of each goroutine.  A fetch ends because its own context does; no
  other context is assumed to end.
- `UpdateGraph`: the search goes on.
- `CatalogReader`: weak fairness of each walker, of the end of the walk and of the acquisition, which
  ends one way or the other because the context of a refresh has a timeout.
- `ConfigWatch`, `CatalogAPI`: weak fairness of the start, of the ticker and of the call of `Reload`,
  which all run in goroutines that wait for nobody.  Nothing is assumed of clients, refreshes, the
  Secret, or who replaces the file.

### Where code and documents disagree

Runs expected to end in a violation, each quoting the document it checks:

- `RefreshForgotten`: a source that changes and changes back during its read ends without snapshot
  and without a queued refresh until the timer fires (`docs/GETTING_STARTED.md:191`).  With a single
  reload the property holds (`RefreshLiveness`, and the theorem `OneReloadForgetsNothing`), and a
  source that comes back too late is the only way to lose one (`OnlyLateReturnsForget`).
- `RefreshDuplicated`: `finishQueued` of a goroutine that found its source gone removes the mark of a
  newer goroutine, so a source can be queued twice (`docs/API.md:242`).  Reads still never overlap
  (`OneRefreshAtATime`), and that step is the only way to a second goroutine
  (`OnlyForeignClearsDuplicate`): reloads that remove no source duplicate nothing
  (`NothingRemovedNoDuplicates`).

Noticed while reading, not kept as runs:

- `docs/GETTING_STARTED.md:189` says that changed reader settings take effect automatically.  If
  they change while a source is read, nothing is queued for it (`QueueRefresh` answers running, and
  the requeue compares sources only), so they take effect with the next scheduled refresh.
- `docs/CONFIGURATION.md:111` says that the age check leaves room for a refresh to complete.
  It does with one source, as the theorem `OneSourceNeverExpires` says; with more the age can reach
  the interval and one timeout for each of them (`FreshEnough` is exact), because all wait for one
  semaphore (`internal/config/config.go:120`).
- `docs/OPENSHIFT_RELEASE_ADVISORIES.md:37` says that the last successful content is used if
  revalidation fails.  A response whose time is over while it waits for the fetch of another one
  loses a text that the cache holds (`changelog.go:183`); `AtLeastWhatWasKnown` has this exception.
- With no newer channel in the family, the `next` channel is the oldest one of the family and not the
  nearest (`pkg/catalog/resolve.go:204`, `docs/API.md:437`).
- The comparison of channel names is not transitive (`stable-5.9`, `stable-5.10`,
  `stable-5.10-eus`), so the order of a mixed list is not determined (`service.go:1191`,
  `docs/API.md:574`).
- `docs/CONFIGURATION.md:128` says that readiness requires at least one acceptable snapshot;
  `service.go:450` and `docs/API.md:42` ask for one of every source.
- `docs/API.md:51` has 404 for an unknown source; lookups of data answer 503 for it
  (`service.go:786`).
- A source that a reload removes while a refresh of all is being queued is listed in the response
  with an empty state (`service.go:719`).
- `ListenAndServe` returns as soon as `Shutdown` is called, so `serve` can return while requests
  are still being answered (`cmd/ratatoskr/main.go:112`).

## 4. What TLAPS proves

The theorems hold for every number of sources, goroutines, lookups, responses, bundles and releases
and for every bound; `PROJECT.json` lists them.  They rest only on the named assumptions of the
modules: `None` is different from all values it stands beside; the configurations, packages, graphs,
streams and requests are of their types; `Lookups`, `Positions`, `Sources` and the versions of
releases are finite sets; capacities, intervals and timeouts are positive; names and versions are
numbers in their order; decoded files have finite lists, durations of their width and three-field
sources (`FilesAssumption`), the built-in catalogs are a list without duplicates
(`BuiltInAssumption`), and the default durations are positive (`DurationsAssumption`).

Sums, folds and flattened lists are recursive functions.  The induction theorems of the library take an
operator as a parameter and cannot be used here.  Where such a function is needed, a proof shows that the
function exists and is unfolded as its definition says by looking at the least argument at which it
does not (`Sums` in `ReleaseUpdatesProofs`, `Climb`, `Turns` and `LoopLists` in
`ConfigurationProofs`); what follows is then proved over the positions of a list.

- `CatalogRefreshProofs`: types, `OneRefreshAtATime`, `BookkeepingAgrees`, `NothingStuck` and that
  `CatalogRefresh` implements `CatalogStore`.  Inductive invariant: `IInv`.  That refreshes
  exclude each other needs the token count of the semaphore tied to the goroutines in `Holding`
  (`OneHolder`).  That a snapshot is never replaced by one under older settings needs that what the
  holder read is at least as recent as what is published, and that there is one holder
  (`VersionsInOrder`).
  For the two properties that a run violates, theorems name the step at fault, as an action
  (`ComesBackTooLate`, `ClearsForeignMark`), and prove the property for all behaviours without it:
  `OnlyLateReturnsForget`, from `Covered` (every configured source has a snapshot or an error to
  show, or is about to be queued, or has a goroutine that will refresh it or queue it again), and
  `OnlyForeignClearsDuplicate`, from `Exclusive` (no two goroutines stand for one source, and each
  has the mark that says so).  `OneReloadForgetsNothing` and `NothingRemovedNoDuplicates` follow:
  with one reload, or while no reload removes a source (`AllFound`), there is no such step.
- `ConfigurationProofs`, for `SnapshotFreshness`: `ServedWithinRound` and `FreshEnough`.  A source in position i of the
  line has waited at most the round less i timeouts (`TurnComes`), which needs that no source is in
  line twice (`OnceInLine`); a source that is not in line will be queued before its snapshot is
  older than it may be (`QueuedInTime`).
  For `ConfigFile`: `FileMeansWhatItSays` (`ExpansionExact`) and `AgeLeavesRoom` (`AgeCheckExact`), for
  files with lists of any length and durations of any width.  The first goes loop by loop:
  `Enumerates` says that a list has each of its members once, and `Standing` is the invariant of the
  loop over explicit sources (what stands at each position after so many of them).  The second
  shows that the subtraction in the check never leaves the durations.  `OneSourceNeverExpires` puts
  both parts together: it bounds the age of a snapshot in a service that runs with the accepted file.
- `OpenShiftRetentionProofs`: `RetentionBounded`, `InFlightExact`, `MonotonicAnswers`,
  `AnswersAcceptable`, and that the module implements `LatestResults`.  The core is that the newest
  published attempt is remembered, by the retained result or, while anyone is left who could
  overtake it, by the reference-counted order (`RetainedIsNewest`, `OrderRemembered`).
- `ChangelogCacheProofs`: `PendingExact`, `AtLeastWhatWasKnown`, `CacheMovesForward`.  A leader
  remembers the entry it found stale (`LeadersRemember`); nobody else can replace that entry, because
  the call is pending until it publishes; those who wait get at least what they knew
  (`WaitersServed`).
- `UpdateGraphProofs`: `OffersExact`, `ReleasesExact`, `NeverLost`, `StaysOnPath`, `NextPrefersNewer`, in every graph.
  `Reach` is the least closed set, and the invariant of a search says that what is seen and not
  queued is closed and that all of it is reached (`VersionSearch`, `HeadSearch`).  For the `next`
  channel the invariant `Choosing` says where the releases collected so far stand in their order;
  it asks only that channels of one family are ordered among themselves.
- `ReleaseUpdatesProofs`: `WithheldHidden`, `RangeComplete`, `LagExact`, `TextsFit` and
  `NothingOmittedInVain`.  The first three rest on the greatest candidate
  (`MaxIn`, from the well-foundedness of the order of the numbers of newer versions) and on the
  number of newer successors falling along the order (`NewerFewer`): what is withheld is newer than
  every candidate.  The other two follow from `Fitting`: the texts fitted so far and what is left
  of the budget add up to it, and each text left out was larger than what was left then.
- `CatalogReaderProofs`: `SameInAnyOrder` and that the module implements `CatalogContents`.  The
  snapshot is at all times a merge of the records that were read, and those are the first ones of the
  files that were taken; when all walkers have ended and none failed, that is all of them.
- `CatalogAPIProofs`: for `ConfigWatch` alone, `RememberedIsActive` (`WatchInv`); that the composition
  takes only its steps (`FollowsTheFile`), so it inherits the invariant; then `ViewsAgree`, from
  `SnapshotsCurrent` (a snapshot is never of anything but what its id means now, which is what lets a
  lookup go by the id), `RefreshesAuthorized` and `NothingPassedOver`, from `NotedNow` (what is noted
  of a request covers the present) and `StepsInOrder` (beyond the token the request is authorized,
  and a source that was there throughout is behind the loop or still before it).

Every safety property that a passing run checks is a theorem.  Only model-checked are the liveness
properties `RefreshesEnd`, `ResponsesEnd`, `SearchesEnd`, `ReadEnds` and `FileTakesEffect`, which need
fairness and `ENABLED`, out of the reach of this prover.

## 5. What is not modelled, and the plan

Written so far, in this order: `CatalogStore`, `CatalogRefresh`, `LatestResults`,
`OpenShiftRetention`, `SnapshotFreshness`, `ChangelogCache`, `PackageGraph`, `UpdateGraph`,
`ReleaseUpdates`, `CatalogContents`, `CatalogReader`, `ConfigWatch`, `CatalogAPI`,
`SourceExpansion` and `ConfigFile`, each followed by its theorems.  What could follow:

1. `ChannelOrder` (`resolve.go` 343-385, `service.go` 1191): on which sets of names the comparison is
   a strict order, and what the sort returns on the others.
2. The remaining handlers (`service.go` 801-1197): limits, filters and lists of one snapshot.  Each is
   one look and a conversion, and unit tests reach them.
3. `SubscriptionDiscovery` (`discovery.go` 54-111): a join of two lists, without state.
4. The command line of `serve`: a reload interval of 0 means that no watcher runs, and then
   `FileTakesEffect` is not claimed.
5. Theorems for the safety half of the liveness properties: that the goroutines of `ChangelogCache`
   never wait for each other in a circle and that a search of `UpdateGraph` has ever less left to
   do, each as an invariant or an action property beside the runs that check the properties themselves.

Left out for good: pulling and unpacking images, signature checks, the HTTP exchanges, YAML, JSON and
HTML parsing, rendering of Markdown and of responses, logging, the command line, and the deployment
files.  They are I/O or conversions that no property here is about.
