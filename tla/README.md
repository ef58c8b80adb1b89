# A verification project for marketplace-fetch-pack

marketplace-fetch-pack fetches resources (templates, components, ...) from a
registry in a Git repository and installs them into a project.  It is one
Node.js process: nothing runs in parallel, but every `await` lets another flow
of the process go on, and everything that has to outlive the process is kept
in plain files that several flows, and several runs, read and rewrite.  That
is where its hard behaviours are, and what these modules are about.

Paths below are relative to the repository; `transaction/` stands for
`src/transaction/` and so on.

## Inventory

| Part | State it keeps | Operations | Hard behaviours | What makes it correct |
|---|---|---|---|---|
| Transaction journal, `transaction/` | `transactions/<id>.json`, `.<id>.tmp` | create, update and the `mark*` calls, roll back, delete, clean up; recovery at the start; signal handler | updates are read, merge, open, write and rename with a shared temporary file; recovery and handler run beside everything else and swallow errors; crashes | records stay well-formed unless two flows write one at once; a crash during commit is noticed; terminal transactions stay terminal |
| Installer, `installer/`, `downloader/` | the destination directory | install, with the installs of dependencies; remove; dry run | many steps with different failure rules; catch clause that restores; overlapping calls; crashes | what lands is covered by a transaction; commit after dependencies; records agree with files |
| Snapshot, `snapshot/` | copies of the destination | create, restore, prune | restores everything, as text | touches what the install touched |
| Lockfile, database, `lockfile/`, `database/` | `vetwo.lock.json`, `entries.json` | add, remove, update an entry | read-modify-write without a lock; in-place writes | no entry is lost |
| Pipeline, `pipeline/` | none | stages, rollback | noted against thrown errors | a failed pipeline leaves nothing |
| Registry client, `registry/index.ts` and its policies | registry, snapshot, index in memory and on disk | load with flags and policies, lookups, manifests, invalidate, offline | concurrent loads and background ones over four sources; crashes while files are rewritten | a forced load is fetched; no load fails while there is an index to serve |
| Single flight, `registry/single-flight.ts` | flights | do, clear | clear during a flight | calls of one key share one flight, and none that is over |
| Legacy cache, `cache/index.ts` | a file for a key, a manifest | get, set, clear | in-place writes | as a source of the registry client |
| Resource index, `registry/resource-index.ts` | seven maps | build, update, query | edited in place by each refresh | what a fresh index would hold |
| Concurrency limiter, `registry/concurrency-limiter.ts` | count, queue | run, runAll, clear | timeout in the queue racing a release | the limit; order; nobody waits for ever |
| Network runtime, `network/runtime.ts` | per-category counts and queues; a value and its refresh; a budget | run; get, invalidate; retry | categories side by side; invalidate during refresh | slots of one category are not taken by others |
| Network client, `network/client.ts` | requests under way, queue, ETags | fetch with retries | admission in one step, counting in a later one | no call is left in the queue |
| Repository sources, `registry/repo-fetch-client.ts`, `transport/`, `registry/discovery.ts`, `downloader/` | flights of two clients, a cache | read a file, discover | each falls back on the next, with retries and limits of its own | no fallback after a rate limit; a scan accounts for every manifest |
| Cache manager, stampede guard, `cache/` | manifest, files, reference counts, lock files | get, set, invalidate, expire, clean up, getOrSet, store, release | manifest and files change in separate steps; crashes; a lock file left by a dead process | a hit is never older than what was settled before; nothing leaks; one leader |
| Download engine, `download/` | queue, active downloads, delay | enqueue, batch, cancel | deduplication, priorities, retries, rate-limit adaptation | the limit; every request settles |
| Project locks, doctor, `state/`, `doctor/` | `locks/*.lock` | acquireLock; remove-stale-locks | stale locks, judged and deleted in separate steps | a lock whose owner is gone can be taken |
| Plugins, their states, hooks, `plugins/`, `hooks/` | plugins with states, `state.json`, handlers by hook | register, initialize, enable, disable, dispose; save, flush, clear; execute | lists made before awaits; handlers that change, and are sorted by priority in place, during an execution; chained saves | order by dependency; handlers run by priority, each once; what was flushed is on disk |
| Resource types, installers, `resource-types/`, `installer-registry/` | two registries with their indexes | register, unregister, look up | several claim the same | lookups agree with what is registered |
| Events, `events/` | listeners | on, once, off, emit | listeners change while an emission awaits one | nobody is called twice or lost |
| Dependencies, versions, `dependencies/`, `versions/` | a cache of results, the last result | resolve, order, plan, dependents | cycles, optional edges, ranges, aliases; results that outlive a registry | every resource after what it needs; nothing left out; reported cycles are cycles |
| Lifecycle, reconciliation, installed state, `lifecycle/`, `reconciliation/`, `installed-state/` | `installed.json` | add, update, repair, remove, reinstall, rebuild, in batches | workers rewrite one file; crashes; failed writes | a record tells that files are gone |
| Storage, `storage/` | cache manifest and files | set, get, clear | overlapping rewrites of the manifest; crashes | both limits |
| Merge, `merge/` | registry of strategies | register, apply | nested objects, repeated merges | nothing is lost unreported; idempotent where it should be |
| Marketplace facade, `marketplace/`, `config/`, `offline/` | configuration, the parts it made, loaded flag | load, update, search, install | parts are replaced while others use them | what is shown is known; offline asks nobody |
| Startup engine, terminal interface, `cli/tui/` | stage results; stack of screens, data, context | the stages; keys | a stage retried beside its own late call; screens that see an earlier context | the start ends; what is installed is what was confirmed |
| The rest: manifests, text transformation, search, logging, providers, security predicates, health, diagnostics | none that others read | functions of their arguments | none | — |

How they interact: the facade creates the other parts and calls the installer;
the installer calls the journal, the snapshot manager, the downloader (and
through it the repository client and the download engine), the pipeline, the
plugin manager's hook, the lockfile and the database, in that order, and
itself for dependencies.  The journal starts the recovery on its first use and
the signal handler after it.  The registry client uses single flight, the
legacy cache, discovery and the resource index, and hands its registry to
search and the dependency resolver.  The plugin manager writes handlers into
the hook system and states into their store.  Lifecycle, locks, the network
runtime and client, the storage manager and the merge registry are exported
and used by no other part.  PROJECT.json lists every component with its files
and what is left out of it.

## Modules

| Module | Models | State and actions |
|---|---|---|
| `TransactionJournal` | the store of `transaction/index.ts` | `txFile`, `txTmp`: the two files of a transaction; `call`: a flow inside updateTransaction, with the file it has open; `sweep`: a flow inside getActiveTransactions and the marking that follows.  `ReadForUpdate`, `OpenTmp`, `FillTmp`, `RenameTmp`/`RenameFails` are the stretches of updateTransaction between its awaits, where writeFile opens and empties the temporary file before it writes it; `UpdateFails` is an error of any of them; `Sweep*` are those of the recovery and the handler, which swallow errors (`SweepListFails`, `SweepMisses`). |
| `TransactionManager` | the class as its users see it | adds clients that open the store, create, mark, roll back, delete and clean up, and crashes |
| `InstallLifecycle` | abstract | what the transaction of an install promises |
| `Installer` | `install` and `remove` of `installer/index.ts` over journal, destination, snapshot, lockfile and database | `pc`: which await an install is at; `todo`: the files of the loop it is in; `stale`: what it read and will rewrite.  One action per stretch between awaits that changes something another flow can see, or that can fail in its own way. |
| `ConcurrencyLimiter` | `registry/concurrency-limiter.ts` | `running`, `queue` as in the class; `pc` for the calls of run |
| `DownloadEngine` | `download/DownloadEngine.ts` | `queue`, `active`, `limit`, `flight` are `_queue`, `_activeCount`, `maxConcurrency`, `_downloadDedupe`; `pc`, `attempts`, `strikes`, `path` the locals of `_downloadSingle`; `file` the destinations, `cache` the paths in the cache.  `Drain` and `Settle` are what happens between two awaits when a download enters or ends. |
| `CacheManager` | `cache/CacheManager.ts`, `withStampedeGuard` of `cache/smart.ts` | `entries`, `refs`, `cas`, `armed` are `_manifest`, `_casIndex`, its copy in the manifest and the timer of the coalesced save; `file`, `bin`, `saved`, `lock` are on disk; `call` is where a caller is.  One action per stretch between awaits of each operation; `life` is what the clock makes of a value. |
| `SingleFlight`, `Cache` | `registry/single-flight.ts`, `cache/index.ts` | the table of flights and the phases of a flight; the entries in memory, the files, the manifest on disk.  Their operators are steps that the user of the module takes. |
| `RegistryClient` | `registry/index.ts`, `registry-index.ts`, `freshness-policy.ts` over the two above | `registry`, `snapshot`, `resources`, `memory` are its fields; `disk`, `remote` what it reads; `call` says where a load, a lookup, a manifest or a prefetch is, those in the background included |
| `ResourceIndex` | `registry/resource-index.ts` and the choice between build and edit in the client | `index`, the maps; `UpdateIncremental` replays the edits that the code makes |
| `HookSystem`, `PluginStateStore`, `PluginManager` | `hooks/`, `plugins/state-store.ts`, `plugins/` | the arrays of handlers, sorted in place as they are registered (`Sorted`), and those that an execution has kept; what plugins and a host register; chains of saves; entries with their status, and `call`: initialize and dispose with the list they made |
| `TypeRegistries` | `resource-types/`, `installer-registry/` | each registry with its index |
| `EventBus` | `events/` | `arrays`: every array of listeners there has been; `mapped`: the one in the map; emissions and unsubscribers keep to older ones |
| `Versions`, `DependencyGraph` | `versions/`, `dependencies/graph.ts` | operators and recursive functions, no state |
| `DependencyResolver` | `dependencies/` | `cache`, `lastResult` are its fields; an answer is computed in one step.  A recursive function of the code is one here, on calls with a path, a list of what is left to go through and what was found so far (`ResolveNode`, `Visit`, `VisitNode`), and each call goes up to the next element of the list |
| `Lifecycle` | `lifecycle/`, `reconciliation/`, `installed-state/` | `installed` is `installed.json`, `writes` the replacements in line for its lock; `op`, `pc` per worker |
| `NetworkClient`, `NetworkRuntime` | `network/` | the queue and counts, the flights with their references; slots by category, budget, value and its refresh |
| `RepoSources` | `registry/repo-fetch-client.ts`, `transport/github-repository.ts`, `registry/discovery.ts`, the downloader's reads | `primary`, `native`: the flights of both clients for a file; `reader`: how far a read or a scan is |
| `StorageManager` | the cache of `storage/StorageManager.ts` | `manifest` and `onDisk`; a caller between its file operations |
| `Startup` | `cli/tui/core/StartupEngine.ts`, `TimeoutController.ts` | the stage, its attempt, the calls that timed out and go on |
| `StateLock` | acquireLock of `state/`, remove-stale-locks of `doctor/` | the lock file, with whether its pid is written and whether it is old; where each process is |
| `Wizard` | `cli/tui/` | the stack of screens, the reducer's data, the context as last computed, the effect that installs |
| `Marketplace` | `marketplace/`, `config/`, `offline/` | `built`: the configuration of every generation of parts; `catalog`: whose registry search has; `visitor`: where each call is |
| `Merge` | `merge/` | the strategies as operators on lines and trees; `merged` is the last application |
| `Services` | composition: the limiter and ten modules above that share no state | `service` says which of them the behaviour is of; the assumptions on their constants |
| `Extensions` | composition: plugins, the resolvers, the index, the registries of types, which share no state | `part` says which of them the behaviour is of; the assumptions on their constants |
| `MC...` | | model values, scenarios and bounds for TLC; `MCExtensions` adds the merge strategies to `Extensions` as a fifth part |
| `...Proofs` | | theorems |

`TransactionManager` and `Installer` both EXTEND `TransactionJournal`: they
say who takes its steps.  `Installer` instantiates `InstallLifecycle` with the
refinement mapping that the runs check.  `RegistryClient` EXTENDS
`SingleFlight` and `Cache`, `PluginManager` EXTENDS `HookSystem` and
`PluginStateStore`, `DependencyResolver` EXTENDS `DependencyGraph` and
`Versions`.

### What the modules abstract

- A record of the journal is its status and the sequence of statuses in its
  entries; plan, errors and times are left out.  A file of the journal that
  does not parse is `Truncated`, opened and not yet written, or `Garbled`: two
  flows have written it, and the end of the longer record is left.  Whether a
  transaction is older than 24 hours is chosen when the recovery starts.
- A file is one of five contents: absent, old, new, mangled (new or old,
  after decoding a binary file as UTF-8) and torn.  A resource has the files
  of `Files`, one of them its manifest.
- An install is one of `Tx`, and is called once; `Init` starts from resources
  of an older version, so that what an earlier install left is covered.
- createTransaction is one step: nobody knows the fresh id.  Taking the
  snapshot, reading files back and the write of one file are one step each;
  that a write in place is not atomic shows at a crash and in reads of the
  lockfile and the database (`LockInFlux`, `DatabaseInFlux`).
- Garbage that two simultaneous in-place writes of `entries.json` or of a
  file in the destination may leave, and two lockfile writes whose temporary
  names collide in one millisecond, are left out.  (For the journal's
  temporary files it is modelled.)
- The steps of the cache manager are cut off by a crash, but its file
  operations do not fail otherwise.
- Dry runs, `skipValidation`, history.json, events and reports are left out.
- Only "what is new" needs a transaction in `NewIsJournaled`: old content
  that a restore brings back is not an effect of an install.
- In the download engine a file holds what one URL serves, as its checksum
  says or not.  Delays are steps of their own, without length.  Resuming is
  left out because it never happens: `_streamDownload` resumes `<hash>.partial`
  only when that file exists, and only a download that resumes writes it.
  Removal of temporary files that are older than an hour is left out.
- Contents of caches and registries are version numbers; time is the age of a
  value (fresh, stale, expired) or a clock of a few ticks.  The cache manager
  has one layer, and entries of size one.
- invalidateLayer, invalidateResource and clearExpired remove their files one
  by one in any order; the code takes them in the order of the manifest.  What
  stays of an array of listeners or handlers is said by its positions.
- The remote repository of `RegistryClient` has a version that grows and may
  fail; that a discovery reads several files is the matter of `RepoSources`.
- The parts of `Marketplace` are a generation, numbered; of a registry client
  it has what it answers with, and whether it asked the network.
- The resolvers, the merge strategies and the index are computed in one step
  on ids, ranges, lines and trees; what they return is compared with a
  definition by sets and reachability, not with another algorithm.
- The doctor meets the locks in the lock of one name.  `Die` is the end of a
  process that holds or waits for it.

## Runs

The longest runs take about two minutes.

| Run | Instance | What it shows |
|---|---|---|
| `transactions` | one transaction, two clients that mark it committing, roll it back and delete it, journals of at most one entry before a mark, errors of every file operation, one crash | a record is well-formed, or two flows have written it at once; a transaction left committing is marked by the next start, or that swallowed an error at it, as an invariant and as a liveness property |
| `install_sequential` | two installs of one resource and a remove, one at a time, with every failure there is, that of a restore included, one crash | files, lockfile and database agree, or an active transaction says that they may not, or the code has passed over an error at the resource (`forgiven`); changes happen under an active transaction |
| `install_dependencies` | an install with two dependencies, one of them the same resource as the other, any failure but that of a restore, one crash | the transactions implement `InstallLifecycle` |
| `install_concurrent` | two overlapping installs of two resources with a failing hook, beside a remove of one of them | write-ahead survives lost updates and restores of each other's files, in the form that covers what the flows still hold in memory |
| `install_signal` | an install and a remove of its resource side by side, a signal, a failing journal | the shared temporary file can make a rename fail or leave the record unreadable, but all calls settle |
| `downloads` | five requests at two slots and a queue of two; two are the same download, the others share its URL or its destination; rate limits, corrupt contents, failing files, one abort; destinations and cache entries of an earlier run | no queue is stranded, downloads start within the limit of the moment, the queue is fair, one download for a URL and a destination, only verified contents land, every call settles |
| `caches` | two callers, two keys, one content, six scenarios with expiry, eviction, the coalesced save, a crash that spoils a file, a restart | a hit is not older than what was settled before the get; one leader at a time; contents do not leak; no call is stuck |
| `registry` | two callers, one load in the background, a remote with two versions, nine scenarios with outages, ages, policies, crashes, invalidate, offline mode, a cleared cache | calls share flights and no call joins one that is over; a forced load gets past index, cache and older flights; no load fails while there is an index |
| `extensions` | five parts, one in a behaviour: three plugins, two callers and two executions in seven scenarios, one of them with handlers of a host; 4,000 graphs of four resources, registries with an alias, two versions, optional dependencies and ranges, and pairs of registries for the cache; texts of two lines and trees of three levels; 54 listings for the index; three types and three installers | an execution misses no handler, and calls them by priority, each once; what is flushed is on disk; plugins and resources come after what they need; both resolvers, plans and dependents agree with reachability; cached results age out; merges report what they do; an edited index is a built one; lookups agree with what is registered |
| `services` | eleven parts, one in a behaviour: the limiter with five calls at two slots; a batch of two workers on two resources, with edits, failed writes and crashes; four calls of fetch at one slot; four calls in two categories; two readers of a repository whose registry.json is garbage; four operations on a storage at both limits; the start; three processes at a lock, and the doctor; the screens with two resources; three calls of a marketplace; two emissions with three listeners | the limit until clear, and that no call waits for ever; a record tells of a removal cut off; nobody is stranded in a queue, at a lock or in a list of listeners; reads fall back in order and scans are complete; the storage keeps its limits; the interface installs what was confirmed and comes to its end |

`NobodyStranded`, `ReadsAreSound`, `StartupEnds` and `ResolutionIsSound` of
the last two runs are conjunctions of the properties of several modules, each
of which has one with a name of its own: `NetworkClient!NobodyStranded`,
`SlotsOfOwnCategory`, `LocksAreGivenBack`, `EmissionsAreComplete`,
`ListenersStay`; `SourcesInOrder`, `ScanIsComplete`, `ShownIsKnown`;
`StartupEnds`, `InstallIsShown`; `AdvancedIsSound`, `IndexIsOfRegistry`,
`LookupsAreCurrent`.

Bounds.  Two flows on one transaction are enough for every interleaving of
two read-modify-writes, and the recovery and the handler come on top; two
resources are needed for a restore or a lost update to touch the wrong one;
two files, so that a loop can be interrupted between them; one crash, since a
crash forgets all state of the process.  Five calls at two slots fill the
queue with more entries than slots, so that a dead entry can sit before and
after a live one.  `MaxJournal` keeps the journals of clients finite, it does
not apply to the recovery or the handler; committing is the only status that
the clients of `transactions` mark (`MCMarks`), since it is the one that the
recovery looks for, and rollbacks add three more.  After an error that the code
passes over `install_sequential` looks at the state with the error in it, and
goes on from there when `s`, the resource that nobody installs, is the only one
concerned and the process has not crashed (`FewForgiven`): what the other
resource is left with stays excepted.  `install_signal` has one install without
dependencies: that a parent waits for them adds no wait but on calls like its
own.  The priorities of a host's handlers are one below, one equal to and one
above that of plugins (`MCPriority`).  In `downloads`, limits between 1
and 2 stand for those between 2 and 6 (`Floor`, `Cap`): one step down and up
is what the queue can notice; four different downloads fill two slots and the
queue, or overfill it once the limit is down; three attempts let the second
rate limit end a download that has an attempt left.  Of the caches, two keys
with room for one make every set evict; of the registry, two versions tell
what was read before a change from what was read after.  A scenario of
`caches`, `registry` or `extensions` brings together the operations that
touch the same state, with two to six calls, so that each pair of them
overlaps; three overlapping calls of one kind are not covered there.  Four
resources have every shape of cycle and diamond with a tail.  The stack of
screens is cut at twelve, more than the longest way to an install and back.
CHECK_DEADLOCK is FALSE throughout: calls are made once, and the program may
stop.  That nothing is stuck which should not be is what `CallsGoOn`,
`NobodyStranded` and the liveness properties say.

Violation runs show disagreements between the code and what the repository
says of it; PROJECT.json quotes the sentences.

| Run | Counterexample |
|---|---|
| `bystander` | a failed install mangles binary files of a resource it has nothing to do with |
| `offline` | a marketplace loaded with offline: true installs: the repository client refuses, and the download engine fetches over the transport, whose guard follows the configuration of the constructor |

## Observations without a run

What the models show, or showed with other bounds, and what was met while
they were written.  Some contradict a sentence of the repository, which is
then named; the runs above are kept to two of those.

Transactions and installs
- Two updates of one transaction share its temporary file.  One may rename it
  just after the other has emptied it (transaction/index.ts:561, 563); after a
  crash at that moment, or when the other fails, the record stays unreadable.
  The recovery, like all readers, skips such a file as corrupt (175), and an
  update says that there is no such transaction.
- The recovery swallows the error of a mark (392, 399) and of a file that it
  cannot read; the transaction stays committing until the next start.
- restore counts the files that it could not write, and answers success: false
  for a snapshot that it cannot read (snapshot/index.ts:136, 163); the
  installer logs the first and marks the transaction failed all the same
  (installer/index.ts:413), so that the record of a half restored resource is
  terminal.  Also passed over: an install without a snapshot, the lockfile or
  the database that cannot be written, a manifest or file that cannot be
  fetched; and when markCommitted fails, files and lockfile are restored while
  the database keeps the new entry.
- The second user of a transaction manager does not wait for the recovery
  that the first one started; when it commits before the recovery reads its
  record (transaction/index.ts:388), the recovery takes it for a crashed run.
- The process goes on after the signal handler, which marks transactions that
  committed after it listed them (tests/unit/transaction-manager.test.ts:105),
  and installs overwrite its marks (transaction/index.ts:517).
- With a signal, markCommitted can find its temporary file gone; the install,
  complete by then, is rolled back and reported as failed.
- Two installs rewrite the lockfile from the same reading; one entry is lost.
- An install that fails after its dependency committed restores the lockfile
  of before (installer/index.ts:403, docs/installation.md:42).
- The write stage rewrites in place what the download had renamed into place;
  a crash there leaves a file half written.
- A binary file never passes the integrity check after it was decoded as
  text, so that `BinaryFiles` is empty in the passing runs.

Downloads and limiter
- A call that joins another's download is subject to that one's signal,
  checksum and priority; its own are ignored.
- A file cached for the same URL may belong to another destination: the
  request succeeds and its own stays empty (download/DownloadEngine.ts:324,
  docs/architecture.md:122).  A cached file is served without comparing
  checksums.
- Nothing calls `adaptOnSuccess`: each rate limit lowers the concurrency for
  good.  A response such as 403 or 410 is retried.
- A call that timed out keeps its entry in the limiter's queue, and a release
  that meets it loses a slot (registry/concurrency-limiter.ts:43,
  tests/unit/concurrency-limiter.test.ts:61).  clear forgets the slots of
  functions that still run, which is why `NeverOverLimit` ends there.

Caches
- setRaw writes files that getRaw never reads; after two overlapping
  invalidates, getRaw serves an older value than the one set.
- Overlapping sets leave the checksum of one with the content of the other;
  the entry is then dropped as corrupt.
- The leader of getOrSet stores outside the guard, so that followers call the
  factory again (cache/smart.ts:89); a value computed before an invalidation
  is cached after it.
- clearAll during a store leaks a file; overlapping stores under-count, so
  that a release removes a file that somebody else still holds, or has just
  stored; files found at a restart have the count 0.
- The legacy cache removes its own file when a key is set twice
  (cache/index.ts:144).

Registry
- A forced load that intervenes makes another load return null
  (registry/index.ts:274, 433), and unlinks the index before it discovers: if
  discovery fails there is nothing left to serve, for other loads either.
- The saved index names a revision that was detected after the registry was
  read (476-538).  invalidate during a load leaves an index without a
  registry.
- prewarm fetches manifests and caches none (897-911); manifests cached by
  path survive a change of the repository; a load with refresh answers from
  the local index (355, docs/registry.md:15); detecting a revision asks the
  network (docs/registry.md:7).
- Refreshes edit the index by versions alone (501).  With several versions of
  one id, which discovery does not produce, an unchanged refresh would put
  the lower one into byId.
- Two calls for one destination share a `.part` file
  (registry/repo-fetch-client.ts:298).  Discovery and the downloader have
  clients of their own, so that flights are not shared.  The offline refusal
  of the primary client falls back to the transport.
- An unauthenticated retry that is answered 429 or 404 is reported as an API
  error that is not retryable.

Plugins, hooks, types, events
- A host that registers a handler of a lower priority while an execution is
  under way shifts the array that it goes through (hooks/index.ts:66): the
  handler it is at is called a second time.  Plugins register with the same
  priority, so that only hosts, to whom the manager shows its hook system
  (plugins/index.ts:77), can do this; in the order of priorities
  tests/unit/hook-system.test.ts:49 checks executions that nobody disturbs.
- enable registers a plugin's handlers again; a handler of a disabled plugin
  still runs in an execution under way; re-registration during disposal
  loses the new handlers.
- A plugin that failed keeps its handlers, and its dependents are initialized
  (docs/plugin-security.md).  Plugins are disposed by priority.
- Two contexts of one plugin overwrite each other's keys; clear does not wait
  for saves.
- After the first owner of a manifest's name is unregistered the name leads,
  by a scan, to an older type, until a newer one takes the index.
- After a once listener was called, the function that an earlier `on`
  returned unsubscribes from an array that is no longer used
  (events/index.ts:64, 111); overlapping emissions call a once listener
  twice, and bring back or lose listeners; removing one during an emission
  skips the next.

Resolution and merge
- Two requesters that want different versions are not reported by resolve
  (docs/registry.md:47); resolveAdvanced reports any two different ranges and
  ignores them when it chooses.
- skipOptional makes required dependencies optional; an optional dependency
  whose own requirement is missing fails the resolution; an order leaves out
  what reaches a cycle; an id and its alias may become two nodes.
- resolveVersion does not split compound ranges, satisfiesRange does; "1.x"
  means any version.
- The key of a cached result has neither revision nor policy.
- No install uses the merge registry (docs/installation.md:33).  JSON that
  cannot be parsed is replaced without a conflict; equal values are reported
  as conflicts; a second application of `ast` may change the file again.

Lifecycle, storage, locks
- Nothing in the repository calls addResource.  update marks and unmarks;
  repair rewrites records only, and after a removal that crashed declares a
  resource installed that has no files; workers of a batch overwrite one
  another.  Rebuilding from the lockfile brings back a removed resource whose
  entry stayed.
- The manifest of the storage is written before the file; an entry larger
  than the cache evicts everything, itself included, and leaks its file.
- Two processes can hold a lock: a lock file without pid is judged stale
  (state/index.ts:253) and whatever is there is unlinked (179), although
  state/index.ts:151 says exclusive; remove-stale-locks goes by age alone.
  withProjectLock has no caller, and the slashes in its name for an install
  would make it spin until its timeout.

Network, startup, interface, facade
- The network client's limit does not hold for bursts: all calls of one step
  are admitted.  A 400 is retried.  The value of an invalidated entry comes
  back when its refresh ends.
- NodeFetchTransport ends its timers when the headers arrive
  (transport/node-fetch-transport.ts:179), so that only fetch's own limit on
  an idle body is left (see Fairness).
- An abort after the first stage reports a start that succeeded with nothing
  to show; the retry of the project stage never happens.
- The screens see the context of the moment they came to the top
  (cli/tui/App.tsx:110): a second toggle of a setting does not turn it back,
  and the install ignores the settings.  Ctrl+C during an install ends the
  interface, not the install.
- networkMode "offline" without `offline` leaves the registry client online
  (docs/registry.md:57); a JSON configuration that has networkMode is ignored
  (config/index.ts:331).
- update invalidates the client that it is about to replace, and within the
  time to live answers from the cache.  A load that is rejected after the
  parts were replaced leaves loaded TRUE with the search of before.
- The parts that a load replaces are not disposed, and every transaction
  manager adds its signal handlers; `_installViaPipeline` has no caller.

## Fairness

Weak fairness of the steps of a call that has begun (`InstallStep`,
`RemoveStep`, `Sweep`, `ClientStep`): file operations return, a request has a
timer until the headers of its response (transport/node-fetch-transport.ts:179)
and after that the time that fetch itself allows an idle body, and the event
loop serves every ready continuation.  A body that trickles for ever would not
end, and is not modelled.  Weak fairness of `Initialize` in
`TransactionManager`: after a crash the program is run again.  `Release` and
`TimeOut` in the limiter: functions settle and timers fire.  `Step` of a
download: the same holds for responses, and delays end.  `Turns` and `TimesOut`
of the startup: the event loop turns and timers fire; that the marketplace
answers is not assumed.  `Progress` of the screens: an install that was called
settles (`CallsSettle`).  No fairness for calls of the user, signals, aborts,
crashes, failures.  The other modules state no fairness; `CallsGoOn` and
`NobodyStranded` are invariants.

## Proofs

| Theorems | For every |
|---|---|
| `TransactionManagerProofs!TypeCorrect`, `JournalIsConsistent`, `OrphanCommitsAreMarked` | set of transactions, clients, marks |
| `InstallerProofs!TypeCorrect`, `JournalIsConsistent`, `WriteAhead` | resources, files, flat dependency plans, failures, concurrency, signals |
| `InstallerProofs!ChangesAreCovered` | the same, without signals |
| `InstallerProofs!LifecycleIsKept`, the refinement of `InstallLifecycle` | the same, without signals, when no two plans share an install |
| `InstallerProofs!RecordsAreRight` | resources, text files, failures and installs without dependencies, called one at a time, without signals |
| `DownloadEngineProofs!TypeCorrect`, `SingleFlight`, `QueueIsServed`, `LimitIsRespected`, `OrderIsKept`, `ContentsAreVerified` | requests, URLs, destinations, priorities, limits, failures |
| `CacheManagerProofs!HitsAreNeverStale`, `OneLeaderAtATime`, `ReleasedContentsGo` | callers, keys, contents, scenarios |
| `RegistryClientProofs!TypeCorrect`, `SharedFlights`, `ForcedLoadsAreFetched`, `StaleDataIsServed` | callers, tasks, flights, scenarios, versions |
| `ExtensionsProofs!HooksRunInOrder`, `FlushReachesTheDisk`, `DependenciesAreFirst` (plugins) | plugins, hooks, callers, executions, scenarios, dependencies, priorities |
| `ExtensionsProofs!ResolvedAnswersAreSound` (resolvers, plans, index, types), `DependentsAreFound`, `AdvancedIsFresh` (resolvers) | registries and their changes, requests, ids, depth, time to live, size of the cache; listings; types, installers, names, priorities |
| `ServicesProofs!LimitHolds`, `NoOvertaking` (limiter), `NobodyIsStranded` (network client), `SlotsAreOfTheCategory` (network runtime), `LocksComeBack` (project locks), `ListenersAreCalled` (event bus), `SourcesAreReadSoundly` (repository), `SearchShowsWhatIsKnown` (marketplace), `InstallsAreConfirmed` (interface), `RemovalsAreAnnounced` (lifecycle), `LimitsAreKept` (storage) | calls, slots, categories, processes, listeners, listings, visitors, resources, batches, keys, sizes |
| `ServicesProofs!RemovalsStayAnnounced`, `WhoWaitsIsReached`, `ReadingIsSound`, `InstallsStayConfirmed`, `CacheStaysWithinLimits` | the same, of `Services`, from those above and `EachStartsAlone`, `EachStepsAlone`: a behaviour of `Services` is one of a service |

### Assumptions

Those of the modules say that names are distinct, that what stands for null is
no value, that sets of calls, installs and resources are finite, that plans are
flat, that `MaxConcurrent` is at least one, that a git tree lists a path once
(`ListingAssumption`), and that the cache of the storage has room for an entry
(`StorageAssumption`; nothing in the source configures it otherwise: with
`maxCacheEntries` 0 each cacheSet would leave a file without an entry).
`ResolverAssumption` types registries and requests, and has ids as finitely
many numbers, for the order of names that `localeCompare` gives.
`IndexAssumption`: a listing has one version of a resource, and what a version
says does not change, as the scan that makes the listings has it; the bounds
are natural numbers and play no part.  Three theorems about the installer have
hypotheses besides, which the module names:

- `NoSignals`: the signal handler marks the active transactions rolled back
  while their installs go on, so that with a signal an install changes files
  under a terminal transaction (see the observations).
- `SeparatePlans`: an install in `Tx` stands for one call, which has one
  parent.  In the code each parent calls `install` for itself, with a
  transaction of its own.
- `OneAtATime`: one call at a time, no signals, no dependencies, no binary
  files; any step may fail.  Without each of them lockfile, database and files
  do come to disagree under a terminal transaction: overlapping calls lose each
  other's updates, a handler marks what goes on, a dependency that has landed
  is undone by the snapshot of its parent, and restore mangles binary files
  (`bystander`).  `RecordsWhatLanded` is checked on that instance for the same
  reason.

What a property excepts besides is in a history variable, set by the step that
earns it: `overlapped`, `missed` and `forgiven` name the transactions that two
flows wrote at once, the orphans at which the recovery swallowed an error, and
the resources at which an install or a remove passed over one.  The exceptions
are of the code, at the lines that the observations give.

### Arguments

*Journal.*  That every record is well-formed is inductive only together with
the records in memory and in temporary files (`RecordsWellFormed`): a rename
publishes whatever was written last, so all of these must be well-formed.
That a record is a record needs more: of a transaction that no two flows have
written at once, the one flow between opening and rename, if there is one, has
the temporary file as it left it (`SoleWriters`).
`TransactionJournalProofs` proves once that each step of the store preserves
it; the two users cite the lemmas.

*Orphans.*  `OrphanCommitsMarked` follows from `OrphanInv`: until it is marked
an orphan is unread, chosen, or being marked by the recovery; no client is in
an update of it; and what the recovery's rename publishes is a mark.  Every
error that takes an orphan out of the recovery's hands puts it into `missed`.

*Write-ahead.*  `NewIsJournaled` speaks of files, lockfile and database, but
these are rewritten from copies: stale readings, contents read back,
snapshots.  `NewInv` says the same of all copies, and that an install past
createTransaction has its record; no step deletes a record.

*Changes under a transaction.*  `TxInv`: the record of an install that goes on
has a status of its step (`StatusesAt`), it alone updates it, and the recovery
has chosen no transaction of this run (`RecoveryApart`).  The last is the heart
of it: the recovery lists the transactions while installs create theirs, and
marks only those that were old when it started.  Each of them has its temporary
files for itself (`WritesOwn`).

*Refinement.*  `PlanInv` adds to `TxInv` that callers are told what the record
says, and that an install past its dependencies has the answers of all.  Each
action is shown to map to a step of `InstallLifecycle` or to change nothing it
speaks of; a record that has ended stays as it is but for the mark of the
recovery (`EndedRecordsStay`).

*Records of what landed.* `SeqInv`: either something died, or could not record
its end, and left an undecided record or a dead remove, which stays
(`Damaged`); or at most one call is in progress and says how far it is
(`Orderly`).  Of an install, whatever was passed over: the other resources are
as they were, and so they are in its snapshot (`OthersHold`), and what it read
of lockfile and database still holds (`ReadsHold`).  Of its own resource,
unless an error was passed over there (`OwnHolds`): until the lockfile is
written the snapshot can undo everything it did (`UndoHolds`: what was there
before is in the snapshot, and restore has put back the paths that are no more
in its list); and what is fetched and written is new (`LandingHolds`).  A
remove takes files, entry and record in that order (`RemoveHolds`).

*Download engine.*  `Inv`: the queue holds exactly the calls that wait, each
once; `_activeCount` is the number of downloads that run; a call that waits or
runs is the one that `_downloadDedupe` has for its key; and a queue that is not
empty has a download running.  Every step of a download either goes on
(`Goto`) or ends it (`Settle`), so that two lemmas carry the proof; both the
end and the entry of a call drain the queue (`DrainFacts`, which counts the
calls started with the theorems about cardinality).  For `OrderIsKept` the
queue is sorted as well, and taking entries out of it, one or those of an
abort, leaves it sorted.

*Cache manager.*  Three arguments share one invariant.  Versions: the version
of a call is its own until it returns, and a call that replaces a value leaves
no file of what it replaces, except at places it is still to visit
(`Versioned`, `Removed`).  The lock: whoever leads is between taking and giving
back the lock file (`Guarded`, `LockInv`).  Contents: a file has a count, or a
call on its way to give or delete it one; a count is never above the number of
holders and what an earlier run left (`BlobInv`): overlapping stores lower it,
never raise it.

*Registry client.*  `Inv` follows one call: where it is it has what it needs
(`Path`), the flight it joined began no earlier than the version it may ask for
(`Floors`), a forced load went past index and cache (`Fetches`), and a call
that began when an index was saved is on a path that finds it (`Finds`).  That
a flight in the table is under way, and of the key it is filed under, is
inductive on its own (`FlightInv`).

*Recursion.*  A recursive function is, in TLA+, some function that does what
its definition says, so that nothing is known of it before one is shown to
exist; and the library's theorems on this, as those on induction, take an
operator as a parameter.  `Recursion` shows it for sets of calls with two
measures of which each call made lowers the first, or the second and not the
first (here: ids that are not on the path, elements left in the list), from the
calls below, their solutions and the agreement of these.  `LeastCall` then
stands for induction: of the calls that break a contract there is one with
nothing broken below it.  The step of each function and its contract are all
that is left to prove.  `Reach`, which the properties and the contracts speak
of, is membership in every set closed under the edges, and needs none of this.

*Resolvers.*  The contract of `ResolveNode` (`Resolves`) says of the nodes that
a call adds: they are new, what the list asks for leads to each; what each
depends on comes before it, or is on the path, or depends on it in turn, and in
the last two cases a cycle is noted; and one that is noted is there, or will be
closed over the path.  With the path of the root empty this is
`ResolutionIsSound`.  A plan keeps the edges of its graph, and several plans
are ordered by a second search with a contract of the same form (`Visits`).
Kahn's order of the advanced resolver takes the least free id, so that it is a
function of the set of nodes and edges (`OrderIsOfEdges`), and those are what
the root reaches, in whatever order it is listed (`Reached`).  For the cache:
an entry is of the present registry, or was made before the last change
(`Entries`, `ResolverInv`).

*Index, types.*  The map by ids tells what the index holds (`ById`), so that
what a refresh takes out and puts in makes the listing it was called with
(`RefreshKeeps`, which needs `IndexAssumption`: a resource whose version is the
same is the same). Lists of types and installers have each once, and the list
of a type has those of all installers that support it, in their order
(`TypesInv`).

*Plugins.* Order: what an initialize has left to do has before each plugin
those of its dependencies that were enabled, unless they were ready when the
call began or had their turn in it (`OrderInv`).  Hooks: the array that an
execution goes through, shared or its own, is ordered by priority and
registration, wherever a handler gets in; what was there when it started has
been called or is ahead; and what it has called is the front of the array,
unless that was shifted (`HookInv`).  With handlers of plugins alone all
priorities are the same, and nothing is shifted (`PlainInv`).  The store: what
is being written, and what is in memory for the next write, is no older than
any save that waits in the chain and than the file, unless that save failed or
was cleared (`StoreInv`).

*Services.* The limiter's count may be too high, since a dead entry counts a
slot, but until clear it is never below the number of functions that run; and
nobody waits unless the count is at the limit.  The network client counts
exactly those between admission and answer, and has nobody in line without one
(`SlotsCounted`).  A category counts its own and has its queue only when full
(`CategoriesCounted`).  A lock file with a pid is that of a process that has
not released it (`OwnerKnown`).  A scan has the manifests it has read, each
accounted for, before the ones it has left (`ScanSound`), and a flight's
requests are counted by its attempts (`RequestsCounted`).  A load that is alone
asks the newest client (`LoadIsAlone`).  The progress screen is of the resource
that was confirmed, its result of the same, and no screen below the top one of
the stack is one of an install under way (`WizardInv`).  Of what a batch
removed, the records on disk *and those that a worker has read and will write*
say so (`LifecycleInv`).  Nobody an emission has called is ahead of it in its
array, arrays are only extended or thinned out, and who asked for one call is
due to be taken out when it had it (`BusInv`).

*Storage.*  What a call will write is a list that fits (`Fits`), computed from
one that fits, so the manifest on disk is torn or fits whoever wrote last.  A
call that is alone knows in addition which files are there when it has made
its next step (`CallKept`).  The total of a list is a recursive function; the
library's induction theorems cannot be instantiated here, so the module proves
that a nonempty set of numbers has a least element (`Least`, from
`WFMin` and the well-foundedness of finite subsets) and that a set closed under
the successor has all numbers (`Counting`), and from these that the sums of
a list exist, are unique, and change by the size of what is appended or taken
out (`TotalOfAppend`, `TotalWithout`).

### Only model-checked

- Liveness (`OrphanCommitsRecovered`, `CallsSettle`, `WaitsEnd`,
  `EveryCallSettles`, `StartupEnds`) and what speaks of ENABLED
  (`CallsGoOn`), which are out of the prover's reach.
- `MergeIsSound`.  The strategies walk JSON trees of any depth by recursive
  operators, which the prover does not take, and filter lists of lines and
  conflicts with `SelectSeq`, of which the library has no theorem.
- `TypeOK` of `CacheManager`: its theorems need less.

## Plan

1. Done: the modules above, the theorems about transactions, installer,
   downloads, caches, registry client, plugins and services.
2. Done: the resolvers, plans, the index and the registries of types, as
   recursive functions, with the theorems about them.  Next: the merge
   strategies as functions on trees with a depth, by `Recursion`; types of the
   cache manager; `RecordsAreRight` with dependencies that fail before their
   parent writes.
3. Warmup and prefetching of the cache, the negative cache if anything comes
   to read it, and the repairs of the doctor that call several stores.

## Not modelled

Text transformation, templates, search, manifests, schemas, security
predicates, health and diagnostics, providers, logging and the commands are
functions of their arguments, or single calls of parts that are modelled.
The interface is modelled by its screens and what they carry, not by what
they draw.  `plugins/discovery.ts` imports modules from disk and nothing in
the source calls it.  The network transport's streams, the formats of the
files and the parsing of versions and configurations are abstracted as said
above.
