# cloudattrib: TLA+ specification

A verification project for cloudattrib: the job store, the workers, the analyzer
cache, the life of dataset bundles across PostgreSQL and the file system, the
inventory that is derived from reports and from certificate transparency, and
one analysis from its admission through DNS and HTTP collection to the report.
The modules are translated from the Go source and SQL; `PROJECT.json` names the
source lines of every definition.

## 1. The system

cloudattrib analyzes domains (DNS, HTTP, certificate-transparency records) and
attributes them to cloud providers with local data sets. It runs as a one-shot
command or as a service that keeps its state in PostgreSQL.

| Part | State | Operations | Talks to |
| --- | --- | --- | --- |
| PostgreSQL job store (`store/postgres/store.go`) | `jobs`, `job_targets`, `queue_capacity`, `bundle_pins`, `dataset_bundles`, `bundle_activation_generations` | `Submit`, `Claim`, `Renew`, `Complete`, `RequestCancel`, `RecoverExpired`, bundle registration, activation, prune lock | API, workers, dataset commands |
| Workers (`jobs/runner.go`, `supervisor.go`) | one claim, a renewal goroutine and an outcome per worker | `RunOnce`, `renewLease`, recovery ticker, shutdown | job store, analyzer cache |
| In-process job store (`jobs/memory.go`) | the same, with a pin counter per bundle | the same contract under a mutex | tests, single-process use |
| Analyzer cache (`runtime/service.go`) | residents with reference counts and use order, running loads with waiters, the active generation | `capture`, `release`, `runBundleLoad`, `reloadDesired` | workers, API, job store, repository |
| Bundle repository (`datasets/repository.go`, `runtime/datasets.go`) | candidate directories, `active.json`, a file lock | `Import`, `ActivateCommitted`, `ReconcileAuthoritative`, `Prune` | job store, reload loop |
| Inventory (`store/postgres/inventory*.go`, `inventory/`) | assets, projections, tasks with attempts, embeddings, profiles | import, delete, projection and embedding workers, backfill, search | job store (`saveReport`), embedding server |
| CT collector (`ctlog/`) | checkpoint (tree head and next index) per log, records | `Collect`: tree head, consistency and inclusion proofs, entries, commit; file import | CT logs, inventory tables |
| Collection policy (`policy/`) | permits per target, per process and per destination, spacing, budgets | `Begin`, `AcquireDNS`, `AcquireHTTP`, body reservations, release | API, workers, collectors |
| DNS collection (`collect/dns`) | shared questions and cached answers of a job; a seed's alias graph, zone walk and dependencies | `CollectOccurrence`, `Job.query`, `followCNAMEGraph` | policy, resolver, HTTP collection |
| HTTP collection (`collect/http`) | a run's hops, candidate channels, pending resolvers | address fallback, redirects, handshakes, join | policy, DNS job, network |
| Analysis (`app/`) | one run's observations, coverage and report | `Analyze`, `LookupIP`, `Reclassify` | collectors, detectors, store |
| Rules and aggregation (`rules/`, `detect/`, `aggregate/`) | none | matching, grouping | analysis |
| Retention (`store/postgres/retention.go`) | reports and references to them | bounded deletion pages | job store |
| API, CLI, configuration | admission gate | routing, authentication, waiting for a slot | everything |

### What is hard, and what makes each part correct

* **Job store.** Admission, completion, cancellation and recovery adjust one
  capacity counter, the pins and the job status in separate transactions, and
  workers call with tokens that may be stale, late or repeated. Correct means:
  the counter and the pins are exact, a terminal target never changes, attempts
  are bounded, a cancelled job drains, and a bundle that unfinished work needs
  stays available.
* **Workers.** The analysis, the renewal goroutine, shutdown and the commit race
  each other and the recovery of somebody else's lease. Correct means: one
  effective attempt per target, reports only from the pinned bundle, and every
  batch ends.
* **Analyzer cache.** Callers share loads, wait for capacity, and leave at any
  time. Correct means: nothing in use is evicted, nobody suffers from another
  caller's cancellation, every caller is served in the end, and the reload loop
  reaches the desired generation.
* **Bundles.** Files and rows cannot change together, and commands can be killed
  between any two writes. Correct means: whatever may still be loaded has its
  files, and the pointer file converges to the committed generation.
* **Inventory.** Reports become inventory state through tasks whose workers
  stall, die and publish late, while hostnames are deleted and created again,
  backfills repeat the work and retention deletes reports. Correct means: what a
  deletion removed stays removed, the newest observation wins in every order,
  nothing referenced is purged, and no task is lost.
* **Embeddings.** A vector is computed outside any transaction from a text that
  may change meanwhile, for generations that are built, served, rolled back and
  pruned. Correct means: a vector belongs to its text, every description has a
  vector or a task, and confirmed content stays searchable.
  A search sends two statements and waits for a model between them.
* **Admission and permits.** A request queues for a waiter slot and a target
  permit, its goroutines for a destination gate, a spacing interval and two
  network permits, and contexts end while any of them is handed over. Correct
  means: everything taken comes back, a refused request never ran, starts are
  spaced, and nobody waits for ever.
* **DNS collection.** Goroutines share questions, answers and budgets and hand
  each other work through bounded channels. Correct means: "complete" coverage
  hides nothing, each question sent is counted once, and collection ends.
* **CT index.** Several collectors of a log that may withhold or make up answers
  commit to one checkpoint, while roots are registered and hostnames deleted.
  Correct means: no gap below the checkpoint, only proven entries are verified,
  membership is complete, and deletions hold.
* **Analysis.** HTTP reads what DNS and the resolvers of redirects publish and
  leaves them at any moment; contexts end in the middle of every step. Correct
  means: requests go to addresses of the right host, a "complete" report left
  nothing out, findings count evidence once, a replay agrees with the original,
  and the analysis ends.

`PROJECT.json` lists these hazards with their lines and the properties that
cover them.

## 2. Modules

| Module | Models | Notes |
| --- | --- | --- |
| `JobStore` | the PostgreSQL job lifecycle | one step per transaction (all but `Renew` hold one advisory lock) |
| `JobContract` | what admission promises a client | abstract; `JobStore` implements it (`ImplementsContract`) |
| `JobRunner` | workers over `JobStore` | EXTENDS `JobStore` |
| `MemoryJobStore` | the in-process store | EXTENDS `JobStore`, replaces pins and finishing |
| `AnalyzerCache` | the cache and the reload loop | one step per critical section of `f.mu` |
| `BundleLifecycle` | bundles across disk and database | one step per file or database write |
| `InventoryProjection` | reports to the inventory state of one hostname, backfill, deletion, retention | one step per transaction |
| `EmbeddingIndex` | descriptions to vectors: generations and tasks | one step per transaction, the embedding outside |
| `InventoryRetrieval` | a semantic search beside the writers of the index | EXTENDS `EmbeddingIndex` |
| `Admission` | the API's synchronous gate, target and network permits, destination gates, budgets | one step per channel operation or critical section |
| `DNSCollection` | the seeds of one target through one DNS job | one step per hand-over between goroutines |
| `CTIndex` | CT collectors, imports, scopes and deletions over one log | one step per request or lock |
| `WebCollection` | seed plan, seed loop, HTTP collection, redirect resolvers | DNS reduced to its address lookups |
| `Analysis` | detectors, enrichment, findings, report, reclassification, IP lookup | EXTENDS `WebCollection` |
| `JobStoreProofs`, `AnalyzerCacheProofs`, `BundleLifecycleProofs`, `InventoryProjectionProofs`, `EmbeddingIndexProofs`, `CTIndexProofs`, `CollectionProofs`, `AnalysisProofs` | theorems about the module of that name (section 5) | the first also about `JobRunner`, the fifth about `InventoryRetrieval`, `CollectionProofs` about `Admission` and `DNSCollection`, the last also about `WebCollection` |
| `MC*` | instances for TLC | |

### JobStore

A job is named by its (operator, idempotency key) pair, since the table admits
one row per pair; `<<key, index>>` is a target row. A request is a bundle and,
for each index, `none`, `valid` or `invalid`. The columns are the variables;
`leased` says that `lease_expires_at` lies in the future and may turn false at
any time, which covers skew between the clocks of service and database. A call
that fails rolls back: a stuttering step. `Renew` and `Complete` may be called
with any token issued so far, so late, repeated and stale calls are included. A
repeated identical completion succeeds without effect, also a stuttering step.
Reclassification targets count as valid targets.

### JobRunner

`RunOnce` is cut at the points where something else can happen: claim, analysis
end, renewal ticks, join of the renewal goroutine, commit. `Crash` and
`CommitFailed` lose the worker's memory; `CommitApplied` covers a commit whose
acknowledgement is lost. A report is the bundle that produced it.

### MemoryJobStore

The same rows with `pinCount` per bundle and `pinReleased` per job.
`RecoverExpired` finishes every job on each call, as the code does.

### AnalyzerCache

`pc` says where a caller is in `capture`: at the head of the loop (`top`),
sharing a load (`joined`), waiting for an abandoned load to vanish (`shunned`),
waiting for capacity (`full`), or `holding`. `lastUsed` counters are the order
`older`. The reload loop is a process of its own with the activation it read
(`goal`). Closing a channel moves all its sleepers to `top`.

### BundleLifecycle

A candidate directory is absent, intact or partial; a command holds the file
lock from its first check to its last write, and `Crash` may hit between any two
steps. Pins come and go through `Admit` and `Settle`; `JobStore` shows how long a
pin lasts. Taking the lock never waits (`LOCK_NB`): a command that finds it taken
fails.

### InventoryProjection

One hostname and one observation context. Reports are numbered by the start of
their analyses, which is the order of their observation times; `Rank` is the
order of their identifiers (content hashes), which decides ties; `Original` says
which report a reclassification repeats. `born` counts the deletions before the
start of an analysis: `deleted_at >= startedAt` is `born[r] # deletions`. This
assumes that the clocks of service and database order the two events correctly.
A reclassification has a start of its own (`app/service.go:626`) but observations
of its original: `At(r)` is the report whose observations `r` has, and
`NoResurrection` speaks of both. Rows that show an observation are not renewed by
a reclassification, so they are as young as the last deletion; the description is
taken from it, and may be of observations made before.
`selected` is the generation that a validation job froze at admission. A worker
has one claim at a time, so its name is its lease token. `context.newest` stands
for the columns and DNS rows that name the newest report of some sort, with one
DNS question; the description format is that of one release. Imports and CT
records only matter here for creating the asset (`Sight`).

### EmbeddingIndex

A description is a text (told apart by its hash), a revision and a deletion
generation. `Describe` is what a projection does to it, whenever. `computed`
holds the text that a worker's vector was made from. Vector storage is enabled.
Time only appears as `leased` and as `window`, the seven days of a rollback.

### InventoryRetrieval

The search reads the served generation, waits for an embedding slot and the
model, and asks for vectors of that generation; writers run in between. `expect`
only records, for the property, which contexts kept their content since the
first statement. Similarity is left out: a page keeps any hits of the right
number.

### Admission

`phase` is where a request is in `begin`, `Begin` and its return; `ended` are the
contexts that have ended: the caller's, the deadline of the wait, the deadline of
the target. `loc` is where a goroutine is in `AcquireDNS` or `AcquireHTTP`. The
length of a channel and its holders are kept apart, so that a permit which a path
forgets is seen. Where Go's `select` may take either of two ready cases, both are
steps. The deferred calls of an HTTP acquisition run in their order: reference
first, gate second, so that a gate may be forgotten between them.

### DNSCollection

An asker is a goroutine: one per seed question, the seed itself, its graph, and
those of a redirect's resolver. `cache` is `Job.queries`: nothing, a question in
flight, an answer. What a name resolves to is a constant; any question may fail,
any answer may expire and the context may end anywhere. A question's retries over
UDP and TCP are one outcome. `stage` is how far `collectOccurrence` has come with
the seed, `cancelled` that the context has ended; `uncounted` is what has been
sent less what the coverage says was attempted. What DNS says of names is
constrained by DNS and not by the code (`NamesAssumption`): a name that does not
exist has no records, and one that owns a zone is no alias. The instance leaves
out the CNAME question of a seed, which the code asks too (`questionTypes`), for
the sake of its size; `AliasAssumption` says when that changes nothing: every
other answer then names the alias as well.

### CTIndex

A tree is known by its size, since hashes and signatures are perfect; the log may
send old trees, short batches, no proof, or any leaf in the place of its own
(`Entry`). What is recorded is taken from the leaf that was sent: its names, its
time, its certificate. `misled` remembers where a committed run was sent another
leaf, because `NextIndex` passes such an index like any other: no failed or
unfetched proof stops it (`collector.go:170`), and the log's own entry is then
never asked for again. `CheckpointCovers` excepts exactly these indexes. A
precertificate's certificate hash comes from `ExtraData` (`collector.go:342`), which
the inclusion proof of the leaf (`collector.go:314`) does not cover: `VerifiedSound`
promises its name and time, not its hash.

A leaf has a sequence of names, some of them wildcards. The first mention of a
name decides whether its record is a wildcard (`Mentions`). Wildcard records stay
out of the inventory. A record's key is its name and certificate, for one
`source_id`; of records with one key in one transaction any may come first.

A process collects or imports a file. A commit is three steps: its clock is read
(`BeginCommit`, `ImportJSONL`), its locks are taken (`Publish`), it commits; hostname
locks and the shared scope lock are held in between. The code takes the locks one
by one and decides about each hostname under its lock; since all are kept until
the commit, and nobody else changes a tombstone, an asset or the roots without
them, this is the same as taking them together when the last is granted. Two
transactions with the same certificates of one name in different order may
deadlock in the database, which aborts one of them (`Fail`).

`asset` holds the time at which the publication that inserted the hostname counts
as begun: the transaction's clock for collections and imports, the time in the
log for the backfill. A deletion writes its tombstone whether or not there is an
asset, and suppresses the hostname or lifts an earlier suppression. A collection or
an import that begins after a deletion does bring the hostname back, from old log
entries too, as `docs/inventory.md:38` says.

### WebCollection and Analysis

`streams[1]` is the DNS run of the seed, each further stream the resolver of a
redirect, with its channel. The requested hosts and, per scope root, the names of
the certificate index are sequences, because the plan takes them in order until a
limit is reached. `pc` is where the HTTP run is: waiting for an
address, acquiring, dialling, joining. Analysis goes on from the observations
and the coverage: which observation a rule, suffix or prefix matches is given by
constants, and every step may be cut off by the end of its context. A second
pass of the same steps is the reclassification. `LookupIP` shares the sources.

## 3. Runs

| Run | Instance | States | Shows |
| --- | --- | --- | --- |
| `job_store` | 2 batches of up to 2 targets, 2 bundles, capacity 3, 2 attempts, 1 rollback generation | 331,660 | all store properties and the refinement of `JobContract` |
| `job_runner` | 1 batch of 1 target, 2 workers, 3 attempts, 2 bundles | 101,698 | `OneEffectiveAttempt`, `EveryJobSettles` |
| `memory_pins` | 2 batches, one of them with invalid targets only | | **violation**: see Findings |
| `analyzer_cache` | 1 caller and the reload loop, 3 bundles, 2 slots | 51,510 | `ProtectedStayResident`, `SharedLoadUncancelled`, `CapturesEnd`, `ReloadConverges` |
| `bundle_lifecycle` | 2 operators, 3 bundles, 2 rollback generations, 8 commands | 617,916 | `FilesIntact`, `PointerConverges` |
| `projection` | 3 reports (one a reclassification), 1 worker, 1 deletion, 1 backfill | 1,044,060 | `NewestOfProjected`, `ReferencedKept`, `DelayedJobFenced`, `NoResurrection` |
| `projection_lease` | 1 report, 2 workers, 3 attempts, 3 deletions, 2 backfills | 47,895 | `TasksEnd` |
| `embedding_index` | 1 context, 2 texts, 2 generations, 2 workers, 3 writes, 1 search at a time | 656,296 | `VectorsSound`, `NoGap`, `RetrievalFinds` |
| `admission` | 2 requests (API or direct), 3 fetches, 1 destination with 2 gate objects, 1 slot, 1 target permit, 1 process permit | 254,044 | `NothingLeaked`, `RefusedNeverRan`, `StartsSpaced`, `EveryRequestReturns` |
| `dns_collection` | 7 names with an alias chain, a loop and a zone, 2 seeds, 9 questions, 4 addresses | 227,758 | `CompleteMeansAll`, `AttemptsCountedOnce`, `CollectionEnds` |
| `ct_index` | 2 processes, a log that grows to 2 entries, 1 proof, 1 name, a file of 1 record, 1 import chunk, 2 clock values | 2,595,223 | `CheckpointCovers`, `VerifiedSound`, `MembershipComplete`, `DeletionHolds` |
| `analysis` | 1 target and 1 CT name, 3 addresses (1 blocked), 1 redirect, 2 views, 1 request or no budget | 423,744 | `HTTPAccounts`, `ReportAccounts`, `FindingsSound`, `ReplayAgrees`, `AnalysisEnds` |

**Why the bounds suffice.** Two batches compete for capacity, pins and order;
two targets make partial outcomes; two attempts reach the retry and the limit.
Two workers and three attempts let a stale worker meet both the attempt that
replaced its own and the one after.
A caller and the reload loop fill two slots with a third bundle in demand, so
waiting, eviction, joining and abandoning all happen. Three bundles exceed two
rollback generations, so pruning really removes, and eight commands allow
import and activation of all three, a pruning and a further activation.
A deletion between a report and its reclassification puts the two starts on either
side of it. Two projection workers let one publish after the other took over its task; three
deletions let a task outlive several incarnations of its asset; the order of
projections needs no second worker, only claims in every order: three reports with a
reclassification give every relation of observation time, identifier and
classification time. Three writes let a text change, change back and be confirmed,
or be deleted and written again, under a running embedding and a running search;
the proofs cover any number.
Two requests compete for one slot and one permit, in each combination of API and
direct; two fetches of one destination meet at its gate while the other request
runs, and with two gate objects a gate can be forgotten and made again.
The second DNS seed repeats questions of the first, which are then shared or
reused; nine questions and four addresses are enough for one seed and not always
for two; a graph channel of length one can be full.
Two entries and one proof make verified and unverified records in one batch and
batches that are cut short, and either leaf may come in the place of the other; the
tree grows with the clock, and the file holds a record with the key of the early
leaf, which lists its name as a wildcard first. Two clock values order a deletion
before or behind the start of a commit and the time in a leaf. There is no
precertificate in the instance: the theorems cover them.
A target with two addresses, a redirect to a host that shares one of them and has
a blocked one, and limits of two addresses and one request make fallback, late
publication, exhaustion and blocking happen; the second view lacks sources and
exceeds the association limit.
`MaxGeneration`, `MaxCommands`, `MaxWrites`, `MaxSize` and `MaxClock` only bound
counters that grow without end.

`job_store`, `embedding_index` and `ct_index` count states up to the symmetry of
interchangeable keys, workers, texts, generations or collectors; they check safety
only, where this is sound.

**Deadlock** is checked for `AnalyzerCache`, `Admission`, `DNSCollection`,
`CTIndex` and `Analysis` (a finished collection may stutter, and only that), and
off where the bounded inputs run out (`CHECK_DEADLOCK FALSE`: everything accepted
has been processed).

**Fairness.** Worker loops, the recovery ticker, loaders, waiters and the reload
loop are goroutines that keep running, so each has weak fairness; analyses end
because their budget has a deadline; a lease nobody renews runs out. The
projection loops poll for ever and their attempts have a deadline of 25 seconds.
In `Admission` every request and every fetch that has begun goes on, the timers
of the wait, of the target and of the spacing interval fire, and no caller has to
go away. In `DNSCollection` and `Analysis` some goroutine of the collection runs
on as long as one can (a lookup or a request returns by its timeout); no
particular order of goroutines is assumed.
Clients, operators, crashes, shutdowns and failures are never assumed to happen. The
mutex of the cache is not fair, and an analyzer that was just loaded may be
evicted before its waiter runs: `CapturesEnd` and `ReloadConverges` therefore
except a process that is overtaken for ever, one for which there is never room,
and (reload) failures for ever.

## 4. Findings

* `memory_pins`: `jobs/memory.go` gives back a pin for a batch that never got
  one (all targets invalid), contradicting the comment of `BundlePins`. The
  PostgreSQL store is not affected.

Where the code and a document disagree and the property of a passing run states
what the code does, with the exception written into it:

* Reload status (`runtime/service.go:787`): one failed read of the desired
  generation leaves it "failed" until the next activation although all later
  polls succeed; `docs/operations.md:254` says it tells "whether the latest
  attempt failed". `ReloadConverges` is about the generation, not this flag.
* Orphaned tasks (`inventory_projection.go:54`): a worker that dies on the last
  attempt leaves its task `running` with its attempts used up. It is never claimed
  again, never `failed`, and a backfill does not requeue it, contrary to
  `docs/inventory.md:99`. An embedding task in that state also blocks the
  activation of its generation. This is the exception of `TasksEnd`.
* Fences (`inventory_report_backfill.go:65`): a backfill publishes reports without
  the selection of their job, so a recreated asset can receive evidence from a
  job admitted for the generation before, contrary to `docs/inventory.md:59`.
  This is the exception of `DelayedJobFenced`.
* Search across a cutover (`inventory/retrieval.go:195`): when the generation that
  a search has read is replaced before its second statement, the semantic page is
  empty without an error, and a hybrid retrieval is not marked as degraded
  (`docs/operations.md:126`). This is the exception of `RetrievalFinds`.
* Wildcards (`ctlog/collector.go:372`): the names of a certificate are compared
  without their wildcard mark and the first is kept. A certificate that lists
  `*.example.com` before `example.com` leaves a wildcard record only, which neither
  `Discover` (`store.go:1104`) nor the inventory takes, although `SPEC.md:578` says
  "Treat each concrete certificate name as a candidate". The checkpoint passes the
  entry. `CheckpointCovers` speaks of the names that are kept (`Mentions`).

Things the model shows that no document rules out: a description from a
negative report keeps out a positive one with an earlier observation time, so
the description (unlike the other columns) depends on the order of projection;
projecting the original of a reclassified report again may put the older
classification back, depending on the two identifiers; a CT collector that
loaded its checkpoint before another one verified a larger tree may put the
smaller tree back together with a larger `next_index` (`store.go:1082`), after
which continuity is checked from the smaller one, with nothing lost that
`CheckpointCovers` or `VerifiedSound` speaks of.

## 5. Proofs

Every theorem holds for all values of the constants that satisfy the named
assumption of its module: any numbers of keys, workers, callers, bundles,
contexts, collectors, requests or addresses, any limits. The assumptions say what
the types of the program say (limits are positive, sets that the service counts
are finite), that the model value which stands for SQL `NULL` or for a missing
row is no row, of `Analysis` that a rule has one of the three strengths its
validation admits (`rules/engine.go:218`), and of `DNSCollection` what section 2
says of names. Each invariant below was checked by
TLC on the instance of its run before it was proved inductive.

All arguments have one shape: a conjunction `...Inv` of the property with what
the code silently relies on is shown to hold initially and to survive each
action, one lemma per action or group of actions, and to imply the property. What
the added conjuncts say, and why the properties are not inductive without them:

**Job store** (`JobStoreProofs`, `StoreInv`): `TypeCorrect`,
`ReservationsExact`, `PinsExact`, `PinsProtect`, `AttemptsBounded`,
`CancelDrains`, `JobRowsSound`. Added are `RowsAdmitted` and `AbsentUnclaimed` (the
rows of an absent job are absent, so admission starts from nothing) and
`AttemptLeft` (a queued target has an attempt left: recovery compares the count
that the next claim will increase). Exactness of the counter is a cardinality
argument: each operation changes the set of active targets by a set whose size is
what it adds to or subtracts from the counter, and the guards `reserved >= n` of
the code then never fail. `PinsProtect` needs `PinExact`: pruning looks at pins,
the property speaks of targets. `JobRowsSound` (`JobStatusSound`) needs every path
that finishes a target to end in the finalization of its job.
`StoreImplementsContract` is the refinement of `JobContract`: under the
invariant, each step is an admission, an outcome, a bundle that comes or goes, or
a stutter.

**Workers** (`JobStoreProofs`, `RunnerInv`): `OneAttempt` (no two
workers hold the same target with tokens that are both current, and a stored
report of a pinned batch comes from the pinned bundle). Added: tokens are only issued by claims
(`TokenIssued`), no two workers were handed the same one (`TokensDistinct`), and
what a worker holds between its calls (`WorkerSound`). `RunnersImplementStore`
shows that every behaviour of the workers, with their crashes and lost
acknowledgements, is a behaviour of the store, so that all theorems about the
store hold under them (`StoreSoundUnderWorkers`).

**Analyzer cache** (`AnalyzerCacheProofs`, `CacheInv`):
`ProtectedAnalyzersStay`, `SharedLoadsLive`, and `EvictionCorrect` (`EvictionSpares`),
the step property that only a full cache drops an analyzer, one that nobody uses
and that was used before all others of that kind. It speaks of who holds what,
whereas the code looks at counters, so it rests on their exactness. No run checks it:
an instance with a choice of victims has at least three slots, beyond what
the liveness properties of `analyzer_cache` allow. Added:
the waiters of a load are as many as the callers that joined it (`LoadsSound`; a
load is cancelled when the count reaches zero, so a shared one is not), a caller
holds a bundle exactly while its `pc` says so (`ProcessesSound`), and no bundle
is resident and loading at once (`LoadsAbsent`: a load that ends never replaces an
analyzer in use).

**Bundles** (`BundleLifecycleProofs`, `LifecycleInv`): `FilesCorrect` and
`DiskWritesLocked`. Added: who holds the file lock when (`LockDiscipline`); what a
command has established and nobody else may undo while it holds the lock
(`CommandsSound`: the files it validated are intact, what it marks for removal is
neither pinned nor available and was overtaken by enough newer activations); and
that activation generations only grow (`GenerationsCount`), by which being
overtaken is never undone.

**Inventory** (`InventoryProjectionProofs`, `ProjectionInv`): `DeletionsStand`
(`NoResurrection`), `RetentionSafe` (`ReferencedKept`), `DelayedJobsFenced`,
`ProjectionOrderFree` (`NewestOfProjected`). Added: an asset has the generation of
its tombstone (`AssetCurrent`), a task the generation its report was observed in
(`TaskFenced`), the original of a started reclassification is still saved
(`OriginalKept`), and whatever was projected was saved (`ProjectedDone`). That the
rows show nothing observed before a deletion is part of the inductive argument:
a deletion takes the context away, a publication is of the present generation, and
its rows come from observations of its own.

**Embeddings and search** (`EmbeddingIndexProofs`, `EmbeddingInv`,
`RetrievalInv`): `VectorsCorrect`, `CoverageKept` (`NoGap`), and
`RetrievalComplete`, an action property of the search beside all writers. Added:
a description has the deletion generation of its context (`DescriptionCurrent`),
a worker's vector is of the text it claimed (`ComputedClaimed`), and a task that
still carries a worker's token asks for that text (`TokenSound`: whoever changes
the text takes the token away, whoever confirms it does not).

**CT index** (`CTIndexProofs`, `IndexInv`): `CheckpointCorrect`,
`VerifiedCorrect`, `MembershipCorrect`, `DeletionCorrect`. Added: the entries below
the position of a run are in the index, among what it will commit, or where it was
misled (`RunsCover`); what it will call verified is of the log's leaf, because only
the leaf in the tree at that index has an inclusion proof (`FoundSound`); and what an
open transaction decided about its hostnames and the root stays true until it
commits (`LinksCurrent`), which is what its locks are for: a deletion, also of a
hostname without an asset, waits for the hostname lock, a registration for the scope
lock. That `Insertions` keeps a record for every key, so that a committed run
leaves no name out, follows from its choice of one record per free key.

**Admission** (`CollectionProofs`, `AdmissionInv`): `NothingIsLeaked`,
`RefusalsTrue`, and the step property `StartsAreSpaced`. Added: where requests and
fetches are, and that each channel's length, each gate's reference count and each
body budget is the number, or the sum, of what their holders hold
(`RequestsCounted`, `PermitsCounted`, `ReferencesCounted`, `BodyCounted`); that
a fetch uses the gate of its destination and no two destinations share one
(`GateSound`); and that one fetch at a time is past a gate, the interval is over
before it starts, and a destination keeps its gate until the interval after a
start is over (`GateExclusive`). Sums over finite sets are recursive functions;
the lemmas about them (`SumUpdate` and those before it) proceed by a smallest
counterexample in the well-founded order of finite sets instead of by induction.

**DNS collection** (`CollectionProofs`, `DNSInv`, `AttemptsInv`):
`CollectionShape`, `AttemptsCounted` (`AttemptsCountedOnce`) and
`CompleteCoverage` (`CompleteMeansAll`). `DNSShape` says what each goroutine may
ask at each stage, that every answer at hand or in the cache is what DNS says
(`Truthful`), and that a stage leaves no work to the next (`StagesOrdered`).
Attempts are a cardinality: what was sent and not yet counted are exactly the
results that wait with the asker that sent the question (`OwnResults`), and at the
end of a seed nobody holds one. `CompleteMeansAll` alone is far from inductive,
since it only speaks of a seed that is done. What holds all the way is that
coverage which still says "complete" owes nothing (`WholeSoFar`): the alias of
every visited name was visited, is queued, in the channel, in the loop's hand or
being asked for (`AliasesFollowed`); what the seed's answers named has been taken
up (`AnswersTaken`); the zone walk has passed no zone (`ZoneWalked`); and each host
the seed depends on is looked up, being looked up, or still on the list
(`HostsResolved`). Each step that loses one of these (a failure, an address over
the budget, an alias too deep or revisited on its own path, a walk that is stuck,
the end of the context) marks the coverage partial. At the end the visited names
are closed under aliases and so hold the whole chain. What a chain is, a recursive
function, is known through `WalkSteps`: walks exist and agree, by a least
counterexample.

**Collection and analysis** (`AnalysisProofs`, `CollectionInv`,
`ClassificationInv`, `SeedsInv`): `HTTPCollectionAccounts`, `FindingsCorrect`
(`FindingsSound`), `ReplaysAgree`, and `ReportsAccount` (`ReportAccounts`), whose
half about evidence is `EvidenceComplete`. For HTTP, what a stream has resolved is
handed over, still to come, or the stream says that it failed; what HTTP took out
of its channel and did not try is why the run is not complete (`StreamsSound`);
the host of the run is that of the stream it reads (`HostOfSource`); and joining
leaves nobody behind (`JoinSound`). For the classification, evidence at each
stage is a function of the observations and the view unless the context has
ended *and* the coverage is spoilt (`StageEvidence`), and coverage that is not
spoilt had all sources within their limits (`SourcesWhole`): so two uninterrupted
passes agree, and "complete" means all. `FindingsCorrect` rests on lemmas about
the aggregation alone (`StrongestIs`, `DeduplicateIs`, `BuildSound`), for any set
of evidence. That a complete report has collected every seed needs two more
things. The plan, a fold over the roots and the names below each, holds every
requested host, and every name of the index if the index was asked to the end
without reaching a limit; folds are related to the states behind their first
elements, again by a least counterexample. And unless the coverage is spoilt, each
seed behind the one at work has been collected (`SeedsDone`), and the DNS run of
the one at work has observed what it found and, unless it says that it failed,
found what it asked for (`SeedInHand`).

**Only model-checked.** Liveness (`EveryJobSettles`, `CapturesEnd`,
`ReloadConverges`, `PointerConverges`, `TasksEnd`, `EveryRequestReturns`,
`CollectionEnds`, `AnalysisEnds`), which is outside the prover's reach, and the
violation of `BundlePinsCountJobs`. Every safety property of a passing run, invariant
or action property, is a theorem; `EvictionSpares` is proved only.

## 6. Not modelled, and the plan

Not modelled: parsing of provider data, rules and certificates; target
normalisation; the domain model and its canonical JSON; command line,
configuration, routing, authentication and rendering; schema migrations (one
transaction under a lock before anything else runs). They are pure functions of
text or input and output, without state that steps could get wrong. Of the
modelled parts these operations are left out: archiving and request validation of
the inventory, lexical and exact search with rank fusion (single read-only
statements and arithmetic on their results), retention's pages and cursors,
HTTP resolution without a stream, readiness and metrics snapshots of the service.

The assumption that the clocks of service and database order the start of an
analysis and a deletion correctly (`inventory.go:267`) is part of
`InventoryProjection` and not checked.

What could come next: the operations left out above, in the order given; a
refinement between the two views of one DNS lookup, of `DNSCollection` and of
`WebCollection`, which are proved about separately; and the liveness properties,
should the provers come to support fairness.
