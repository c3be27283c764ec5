# Formal model of grepai

TLA+ specifications, TLC configurations and TLAPS proofs about grepai: the daemon
`grepaid` that keeps a search index fresh (the second engine, v2), `grepai watch`
with its stores and its graph (the first engine, v1), and the commands around
them. Everything is translated from the Go code; `PROJECT.json` maps each
definition to the lines it stands for.

    tlc -config EngineCore.cfg MCIndexEngine.tla     # any run: <cfg> and its module
    tlc -config Parts.cfg MCParts.tla
    tlapm IndexEngine_proofs.tla                     # any module of proofs

Paths below are relative to the repository; those of v2 to `internal/enginev2`
when they name no directory at the top.

## 1. Inventory

### The second engine

| component | state | operations | correct if |
|---|---|---|---|
| Catalog (`catalog/sqlite`), one SQLite file per repository | the view (path → artifact, generation), the queue (one row per path: desired hash, generation, claimed), dead letters, generations, chunk vectors, symbols | one write transaction each: upsert, claim, commit, dead-letter, requeue, create/roll a generation | a view never mixes fingerprints; one generation is active; an intent leaves the queue carried out, dead-lettered or superseded only |
| Reconciler and service (`reconcile`, `service`) | none | a pass reads generation, view and tree, and plans the difference; searches, walks and waits read | what a pass could see is shown or queued; answers are the best of what was read and say what was not |
| Worker (`worker`, `artifacts`, `runtime`) | the job it holds | check, load, build, check, commit | an obsolete result is discarded, a result carries the content it is filed under |
| Scheduler (`scheduler/engine.go`) | slots, attempts per intent, the round-robin position, a goroutine per dispatch and retry | claim, dispatch, retry, dead-letter, shut down | a claimed job has somebody who will finish it, slots are not leaked, no repository starves, the engine returns |
| Circuit breaker (`scheduler/circuit.go`) | closed/open/half-open, failures, epoch | `Allow`, `record` | one probe, always resolved; late answers change nothing |
| Watcher (`watch`) | dirty flag, four timers, a hint and an error channel | register, debounce, poll, recover | every change is followed by a pass that begins after it; one loop per worktree |
| Daemon (`cmd/grepaid`, `catalogset`, `registry`) | open catalogs and routes, the registry file, its fingerprint, the backfill runner | start, register, roll, backfill, stop | a stop or crash between any two steps leaves what the next start can use; no handle leaks; nothing registered is forgotten |
| Daemon control (`daemonctl`) | the lock with a PID in it, the socket file | dial, spawn, stop | one daemon serves, and who waits for one does not wait in vain |
| RPC (`rpc`) | a connection's stream and its next id | call, deadline, answer, sweep | a call gets its own answer or an error |
| Migration (`legacyimport`) | what it has read, the catalog it fills | load, import, prune, reconcile | the views are those of the documents it read, however often it was killed |

### The first engine

| component | state | operations | correct if |
|---|---|---|---|
| Watch session (`cli/watch.go`, `indexer`, `watcher`) | the index, the symbols and the graph, each in memory and on disk; the debouncer's pending events, a bounded channel | scan, embed, extract, build, follow events, persist | at rest the three stores mirror the tree |
| Embedding (`indexer/indexer.go`, `embedder`) | batches in flight, the limiter's counters | split, merge with the cache, batch, retry, reduce and restore | a chunk has its own text's vector |
| Ignore rules (`indexer/gitignore.go`, `scanner.go`) | rules loaded at the start, watched directories | decide, walk, follow new directories | what a rule takes back is found, and what the watch indexes the scan would find |
| Stores and search (`store`, `search`) | chunks and documents, in a file or a database | save, delete, list, search | a search sees one content of a file and answers, in order, the best by boosted similarity of what it fetched |
| RPG graph (`rpg`) | nodes, hierarchy, derived edges; the manager's dirty files and batch | file events, incremental and full refresh, explore | the graph is that of the symbols, and stale edges are refreshed |
| Supervisor and background process (`cli/watch.go`, `daemon`) | sessions by root and generation, retries; PID and ready files | start, end, retry, discover; `--background`, `--status`, `--stop` | one session per wanted root; the files tell the truth |
| Updater (`updater`) | the program's file and a backup | download, check, replace, restore | a whole program is on the disk |

### Interactions

```
edits --> fs backend --hint--> watch loop --Reconcile--> reconciler --plan--> catalog queue
clients --RPC--> service --Reconcile/Register---^            reads tree, view       |
   |  spawn, lock                                                                   | claim
   +--> daemon       search --reads--> view <--commit-- worker <--dispatch-- scheduler
                                                          |                    |
                                                      endpoint --result--> circuit breaker

edits --> watcher --events--> event loop --> index, symbols, graph nodes --mark--> manager
supervisor --starts/cancels--> session (one per worktree)         worker: derived edges, persist
```

In v2 the catalog is the only durable state and nothing locks a path while a
worker builds it: correctness rests on the guards of the commit transactions and
on the generations. In v1 one event loop owns the stores; a worker goroutine,
the debouncer's timers and the supervisor's sessions run beside it.

### What is hard

Reads, decisions and writes in different transactions, between which edits,
passes, dispatches, retries, a roll, a stop or a crash fall; errors after a
decision was taken; late answers; bounded channels that drop; races to register,
to start and to stop; files written in place or renamed in steps that a kill can
separate. `PROJECT.json` lists each hazard at its line with the property that
covers it, or why none does.

## 2. Modules

| module | models | composed of |
|---|---|---|
| `Catalog` | the transactions of one catalog, called by any client in any order | |
| `MonotoneView` | abstract: what a search may see of a path over time | |
| `IndexEngine`, `MCIndexEngine` | daemon, reconcile passes, scheduler and workers on one worktree | extends `Catalog`; implements `CatalogSpec` and, with one slot, `MonotoneView` |
| `CircuitBreaker` | the breaker and its callers | |
| `Scheduler`, `MCScheduler` | the run loop and its goroutines on the jobs of several repositories | extends `CircuitBreaker` and implements `BreakerSpec` |
| `WatchManager`, `MCWatchManager` | registrations, backend and loop of one worktree's watch | |
| `RpgManager` | when nodes and derived edges are computed and from what | |
| `DebouncedWatcher` | the debouncer and its channel | |
| `ProjectWatch`, `MCProjectWatch` | a watch session of v1 | extends `RpgManager` and implements `RpgSpec`; instantiates `DebouncedWatcher` |
| `Supervisor`, `Background` | sessions of all worktrees; the process, its files and the commands | `Background` extends `Supervisor` |
| `DaemonControl` | processes, lock, socket, and the clients that start and stop them | |
| `RpcConnection` | one connection with deadlines and torn frames | |
| `Registration` | rehydration, register calls, catalog set, registry, shutdown | |
| `ServiceReads` | SearchAll, WaitFresh and the one-shot `grepai watch` beside a working daemon | |
| `SymbolBackfill` | symbols of artifacts, by the worker and by the backfill | |
| `LegacyMigration` | `grepai v2 migrate` | |
| `RpgGraph` | nodes, hierarchy and derived edges of the graph | |
| `GraphQueries` | the three breadth-first walks | |
| `FileEmbedding`, `EmbedBatches` | the chunks of one file; the batches of a pass and the limiter | |
| `VectorStores` | three stores behind one interface, and the search | |
| `FileSelection`, `MCFileSelection` | ignore rules, scan, and the directories watched | |
| `Updater` | `grepai update` | |
| `MCParts` | the thirteen modules from `DaemonControl` on | extends them |
| `IndexEngine_proofs`, `Scheduler_proofs`, `WatchManager_proofs`, `ProjectWatch_proofs`, `Background_proofs`, `Parts_proofs`, `Stores_proofs`, `Graph_proofs` | theorems and proofs | extend the modules they are about; `IndexEngine_proofs` begins with the catalog; the breaker is with `Scheduler_proofs`, the RPG manager with `ProjectWatch_proofs` |

Operators marked `\* mutant` are deliberately wrong variants of the operator that
follows them. No specification uses them: each shows that a property notices the
mistake when it replaces the real one (`PROJECT.json`, "mutants").

### Catalog

`view[p]`, `jobs[p]`, `dead`, `status[g]`, `genFp[g]` are the tables; a row with
generation 0 is no row. A hash stands for the artifact of that content: artifact
and chunks are immutable and content-addressed, so storing them adds nothing a
property could tell apart. An action is a transaction, with its `WHERE` clauses
as guards or conditions: `Accepts` (upsert of an equal or newer generation),
`Matches` (completion of exactly this intent), `TouchesActiveView` (only the
active generation shows). `CatalogNext` calls them with every argument a client
can hold, stale ones included; that is why its theorems need no assumption about
callers.

### IndexEngine

One worktree. A file is a sequence of versions (`Script[p]`) and an edit moves
on; `NoHash` is an absent file.

- `daemonFp`, `reg`, `sched`, `dirty`: the running process, the progress of
  `Register` (`ensure` → `scan` → `roll` → `check` → `pass` → `done`, or
  `failed`), whether `Recover` and the scheduler have run, the watch loop's flag.
- `pass[r]`: the locals of a reconcile. `BeginPass` (generation), `ReadIndex`
  (view), `ReadTruth` (the tree, one file at a time), `EnqueuePlan` (one
  transaction), `AbortPass` (an error; the watch loop re-arms).
- `work[w]`: the job a dispatch or retry goroutine holds and where it stands:
  `Claim`, `PreCheck`, `Load`, `Build`, `PostCheck`, `Commit`; `Transient` to
  backoff and `Redispatch`, `Permanent` and exhausted attempts to `Terminate`,
  `TerminateFails` to the retry of the dead-letter write.
- `Stop`: a shutdown or crash at any point, which forgets everything but the
  catalog; `Start(f)` with any fingerprint (a changed `daemon.json`).
- `seen`, `shown`, `missed` and `pass[r].began` are history variables: no action
  reads them. `missed` holds the paths whose last change no hint is left of:
  made while no watch ran, or forgotten in a stop; `IdleMeansFresh` exempts them.

A commit (or a successful dead-letter write) and the clearing of its attempts are
one step, because nobody reads that intent's attempts in between; the two
registry reads before the commit are part of `PreCheck` and `Load` since only
their failure has an effect. Priorities, jitter and delays choose among or
postpone enabled steps; the model allows all of them. `Fault` is any failing
catalog, disk or endpoint call. The one restraint a run may put on the
environment is *calm deletes*: a file is deleted only when it is indexed and
nothing is queued for it. Section 6 says what happens without it.

### CircuitBreaker and Scheduler

`adm[c]` is the token a caller holds between `Allow` and `record`; `elapsed` is
`now - openedAt >= probeInterval`. `EndpointNotContacted` and "no work to claim"
are `abort`. `Scheduler` is the caller: the loop acquires a slot, asks the
breaker, lists the repositories with pending jobs (catalogs in `broken` fail),
claims from the one after the last served, and dispatches; a task fails, backs
off, waits for a slot and the breaker again, or gives up. The wake signal and the
length of delays are left out, because every wait may end at any time. The loop
takes a half-open breaker's probe even when it then finds no job, and aborts it:
an idle engine reopens the breaker. Query slots have no caller outside tests.

### WatchManager

`kernel[c]` is what the operating system holds for a backend, `hints` and `errs`
its channels (the hint channel has one place, the error channel `ErrCap`), `loop`
and the timers are locals of `Manager.loop`. Passes run inline, so nothing is
received meanwhile. `dropped` records the errors that found no place. The tree is
what the backend has watches on: `addTree` passes silently over a directory whose
watch fails for another reason than exhaustion (`watch/fsbackend.go:114-121`), and
what happens below it is the safety net's, as below what is ignored.

### ProjectWatch, DebouncedWatcher and RpgManager

`pc` is where the session is: the scan decides by document hash and
`last_index_time` (`newer`, `timed`) what to read, embeds one file at a time or in
a batch, extracts symbols, builds the graph, starts the watcher last, and serves
events. `saved` is the index and the symbols on disk, torn if a crash fell into
the writing. A project of a workspace (`setup.shared`) writes to a database at
once. Three history variables record what leaves a file wrong, and from when to when:

- `lost` (index): the event was dropped; the change came before the watch, or was
  merged into a waiting delete; the scan or an event took the file for unchanged
  though its chunks are not those of its content; it could not be read, compared,
  embedded or removed; or it is a file of a workspace that is gone.
- `unsymbolled` (symbols): the extraction failed or took an old file for unchanged, or
  the file went away while no session ran.
- `unbuilt` (graph): `BuildFull` failed at the start, with no node or with no derived
  edge (`Outcomes`), and the session went on.

A file leaves them with the next event that reads it as it is, or with the next
session's scan. `StoresMirrorTree` excepts what is in them and nothing else.
The symbols' own store cannot refuse: it is in memory (`trace/store.go:216-221`).
`SaveChunks` and `SaveDocument` are one step here; `VectorStores` has them apart.
A flush of the debouncer is complete before its timer fires again. A Go data race
between `Persist`, which encodes under the store's lock, and the mutation of what
is encoded can end the process: `Crash` at any state.

### Supervisor and Background

A message is in its channel from when it may be sent; senders' order and retry
delays are arbitrary. The operator gives one command after another, a child has
written its PID before the next one, a process is gone once its PID file is
removed. Reused PIDs, failing removals, Windows and the workspace variants are
left out.

### The parts

They share no state with one another, so each is modelled alone; `MCParts` runs
them together for economy: the initial state chooses the part a behaviour
belongs to, and a property speaks of its own part. Every action of each was seen
to fire.

- `DaemonControl`: one socket path, a PID is never reused, a client has one
  connection at a time, the listener is closed within the drain. `disturbed`
  records that somebody asked for a stop or a process failed.
- `RpcConnection`: request frames are written whole; a frame whose reading a
  deadline cut stays torn and nothing after it is found.
- `Registration`: `call` says where each goroutine is, `mutex` who is inside
  `Register`; `handles` counts open handles of a catalog, `memory` and `registry`
  are the two copies of the registry, a save may fail; every reconcile stamps a
  cursor (`StampReconcile`).
- `ServiceReads`: a commit and a plan are one step here (`IndexEngine` has them
  in full); a host with two worktrees whose catalogs may fail to count. Ranks may
  tie, and `Best` is the set of top lists a sort may leave.
- `SymbolBackfill`: `files` is the tree, a row of `symbols` says of which artifact
  and from which bytes it is.
- `LegacyMigration`: a document is its hash and the vectors of its chunks, some
  dangling; index and configuration change between and during migrations. The
  files are imported in a fixed `Order`, which a kill (`KillMigration`) cuts short.
- `RpgGraph`: nodes are `<<kind, ...>>`, edges `<<from, type, to>>`; features are
  sets of words. The limits of 5 features, 100 verb groups and 50 callees, above
  which the code links less, are left out. The recursion that prunes upwards is
  written out for the three levels that the hierarchy has. `RpgManager` has the
  dirty batch that decides what is refreshed; taking a batch and rewiring are one
  step here.
- `GraphQueries`: links are followed in any order, edges are a set. What a walk
  should find is defined by paths (`Ball(k)`: names at the end of a path of at most
  `k` links), not by a walk.
- `FileEmbedding`: a text is a range of units and a vector the text it was made
  of; overlaps are left out. `EmbedBatches`: the limiter's atomic counters one
  access at a time; the token bucket only delays and is left out.
- `VectorStores`: content stands for its hash, scores are numbers; ties are broken
  by one order, a sort being the choice of the `k`-th by value and place. A fused
  score is an integer, each rank's reciprocal times the product of all, and a boost
  is in per cent.
- `FileSelection`: a node is named and has the directories above it (`Above`). A
  rule is the set of nodes its pattern matches by themselves, a wildcard many, a
  catch-all even the directory whose file it is in (`matcherRelPath` gives "."). A
  debounced event is handled as one. Directories are never removed; a directory
  named like a source file is one of the `Hidden` (its creation is sent on as a
  file's, and it gets no watch); binary, size and minified checks, the external
  ignore file and a failing `Add` of a watch are left out.
- `Updater`: one update at a time, a program that is whole when it starts, a kill
  at any step; the restoring rename itself succeeds.

## 3. Runs

| run | bounds | checks |
|---|---|---|
| `engine_core` | 1 file of 3 versions (written, deleted, written anew), 2 goroutines, 1 slot, 2 attempts, 2 stops, 3 faults; calm deletes | `ClaimsAreHeld`, `SeenIsShownOrQueued`, `IdleMeansFresh`, `DeleteConfirmed`; implements `MonotoneView` (`NeverRegresses`); `Converges` |
| `engine_roll` | 2 files, 2 fingerprints, 3 generations, 2 stops, 1 fault; calm deletes | `FingerprintCorrect`, `DoneMeansPlanned`, `IntentNotDropped`; implements `CatalogSpec` |
| `engine_live` | a file that is saved anew, a client's pass beside the watch loop's, 2 slots and 2 goroutines, which may hold a job each, 2 attempts, no stop, no fault, no restraint | `Converges` |
| `scheduler` | 2 repositories, 3 intents of 2 paths, 2 tasks, 2 slots, 2 attempts, threshold 2, 2 openings, 1 failing catalog, a shutdown | `RunIsAccounted` (slots and goroutines), `BreakerIsKept` (`BreakerSafe` and `AdmittedAtWork`), `FairTurn`; implements `BreakerSpec` |
| `scheduler_live` | 2 intents, 2 tasks, 1 slot, threshold 1 | `Settles` |
| `watch_manager` | two registrations disturbed once, one disturbed without end; 1 place for errors | `RacesLeaveOneLoop`, `ChangeSignalled`, `DirtyIsServed`, `GoneEnds` |
| `project_watch` | 2 files; six setups with 1 or 2 edits, 1 stop and 1 fault each; batches of 1 file, 1 place for events | `StoresMirrorTree`, `ChangedIsMarked`, `StaleEdgesRefreshed`; implements `RpgSpec` |
| `background` | a main and a linked worktree, 3 sessions each, 2 starts, 1 kill | `SessionsAreRight`, `FilesTellTheTruth`, `StopIsServed` |
| `parts` | below | the thirteen properties of the parts |
| `engine_overwrite`, `engine_restored`, `background_ready` | | violate what a document or a comment says (section 6) |

The instances of `parts` (`MCParts.tla`):

| part | bounds | property |
|---|---|---|
| daemon control | 2 clients, 2 processes, 1 crash | `OneDaemonServes`: catalogs and socket are the lock holder's; who waits, waits with reason |
| RPC | 4 calls | `AnswersMatch`: never another call's result, never an answer out of step while every call stayed for its own |
| graph | 3 files of 2 areas, names that share words, 2 changes | `GraphMirrorsStores`: hierarchy well-formed, nodes those of the stores, edges those of calls and names |
| embedding, batches | 4 chunks of 2 pieces; 2 files, batches of 2, 2 goroutines, 2 passes | `MergeKeepsTexts` of one file: a chunk has the vector of its own text, and what the store holds covers the file but for sub-chunks whose id was given again; `PassesAreRight` of a pass: a chunk has the vector of its own text (`VectorsMatch`), the limiter lets somebody work (`GroupCanWork`) |
| stores | 2 files, 3 edits, 1 failing call, 3 backends; Qdrant lists 4 of the at most 5 chunks, and one file's boost reverses the order by similarity | `StoresAreSound`: one content of a file; what is asked for, in order, once, as many as there are; nothing better was left out but by the cut before the boost |
| queries | every graph of up to 4 of 7 links among 4 names, 2 levels | `WalkIsExact`: exactly what is in reach, against a definition without a queue |
| reads | 2 worktrees, 1 edit, 1 failure | `ReadsAreHonest`: failures are reported, the best of what was read |
| backfill | 2 worktrees, 2 edits, 1 restart | `SymbolsAreTheArtifacts`: of the artifact's own bytes, once |
| registering | 2 repositories, a client beside the start, 2 starts | `RegistrationHolds`: no handle leaks, routes are complete, the registry forgets nothing |
| selection | 3 directories, 4 files, 384 sets of rules, 2 changes | `RulesAreFollowed`: negations are reached unless a `.grepaiignore` keeps a directory out; the watch follows what is not ignored and never indexes what the scan would not |
| updating | 2 updates, both platforms, with and without checksums | `ProgramIsKept`: a whole program at every moment |
| migrating | 2 files, 3 documents, 2 configurations, 2 changes | `MigrationIsFaithful`: what is reconciled is whole and searchable |

Why the bounds are enough for what they are for. In the engine nothing couples
two paths except the plan and the roll, which `engine_roll` checks with two.
Three versions give a superseded intent and its successor, a deletion between two
contents, and a content that comes back. Two goroutines under one slot give a job
in backoff beside one that runs; under two slots (`engine_live`, `engine_overwrite`),
two builds of one path, of which the older commits last. Two
attempts tell a retry from exhaustion. Two stops leave a half-made generation of
one fingerprint in the way of another, for which a third generation is needed.
Two faults let the dead-letter write fail after the job did. In the scheduler two
tasks race for a slot and for the breaker, and two openings tell a late answer
from a current one. Two registrations are what a race needs. One place in a
channel is its full and its empty. Batches of one dirty file overflow at the
second. Three sessions of a root are a failed, a retried and a removed one, two
starts are the killed process's and its successor's. In `parts`, four chunks let successive
attempts split chunks at different places and at the same one; two clients and two
processes are the race for the lock; four links close a cycle beside a shortcut;
two passes and a threshold of two reduce and restore the limit.

All bounds are in the guards (`MaxStops`, `MaxFaults`, `MaxGen`, `MaxEpoch`,
`MaxSessions`, `MaxCalls`, ..., the length of `Script`) or in the sets. When
`Workers` or `Tasks` are all taken no further claim is possible, as with a full
scheduler. The runs of `IndexEngine` check deadlock, and none occurs because the
safety net can always begin a pass. The others say `CHECK_DEADLOCK FALSE`: an engine
that returned, a watch that ended, a process that exited, a walk that has answered
and an environment that has used up its bound are ends.

Type correctness is proved where there are proofs (section 5), a conjunct of
`RacesLeaveOneLoop` and `StoresMirrorTree`, and of `RunIsAccounted` in its run.

## 4. Fairness

Only what the program itself does is fair; nothing is assumed of edits, stops,
starts, kills, client calls or disturbances.

- `EngineLiveSpec`: weak fairness of each goroutine's next step (`WorkerStep`,
  `PassStep`, `RegisterStep`, `Recover`), since a Go goroutine that can run does;
  of `BeginPass(Watcher)`, since the safety net is a timer the loop re-arms
  whatever happens (`watch/manager.go:236`). Strong fairness of `Redispatch(w)`:
  waiters on a Go channel are served in order. Strong fairness of claiming a path:
  the loop takes the oldest job of the highest priority and returns to the queue
  at every completion and every second; a flood of live changes could postpone
  older jobs for as long as it lasts, and edits are finite here. `Converges` is
  conditional on a daemon that stays up and registered, and faults are finite: an
  endpoint that never answers again leaves jobs in backoff or dead letters, which
  the code intends.
- `SchedulerSpec`: the loop and the tasks run, time passes (`ElapseStep`), and
  strong fairness of `LoopAcquire`/`TaskAcquires`, the slot channel again. No
  answer of the endpoint is assumed to be good. `Settles` leaves out the behaviours
  that reach the last epoch of the bound.
- `WatchSpec`: backends run, passes end, timers elapse (the quiet window only when
  nothing that puts it off is ready); a `select` is fair to what stays ready or
  comes again. Nothing is assumed of the safety net, which would hide what else
  goes wrong.
- `BackgroundSpec`: only that the supervisor's grace period ends (`Finish`), that
  a cancelled process leaves (`Leave`) and exits (`Exit`). Sessions may never end.

## 5. Proofs

`IndexEngine_proofs` begins with the catalog: for all paths, hashes, fingerprints
and generations (assuming only `CatalogAssumption`), `CatalogSpec => []CatalogInv` and from it the
type invariant, `OneActive`, `FingerprintCorrect` and the action property
`IntentNotDropped`. `FingerprintCorrect` is not inductive by itself: a late commit
could write under a generation that is not active if none were active, and a roll
could go back to a generation older than a row. `CatalogInv` adds
`EmptyUntilActive` (until the first activation there is no generation and no row,
so the bootstrap branch of `TouchesActiveView` is never taken by a client that
holds a generation) and `RetiredIsOlder` (the active generation is newer than
every retired one, so a job of the active generation cannot be completed by
somebody older, whose `generation <= ?` fails, nor by somebody newer, who does not
exist). One lemma per transaction, then `StepInv`, then the theorems.

It goes on with `EngineSpec`, for all files, contents, workers,
passes, slots, stops, faults and restraints (assuming `CatalogAssumption` and
`EngineAssumption`):

- `EngineSpec => CatalogSpec`. The catalog's clients are only as free as
  `CatalogNext` says if they act on generations that were active and roll upwards,
  so `EngineInv` adds to the types `OnlyServed` (every job, dispatch and pass is of
  a generation that was active once), `EnsuredActive` (from the scan on some
  generation is active) and `SlotFound` (nothing takes away, between the scan and
  the roll, the slot the scan found). The scan's least slot exists because a set
  of numbers has a least element (`WFMin` of the library). With it
  `FingerprintCorrect` and `IntentNotDropped` carry over to the engine.
- `[]ClaimsAreHeld`: both conjuncts, inductive beside `EngineInv`, follow from what
  a dispatch can do with its job (`DispatchOutcome`, `DispatchCounts`): keep it,
  find that the queue wants something else, or complete it.
- `[]DoneMeansPlanned`, by `PlanInv`: while some path is not planned since the roll
  the worktree is not registered, the view is empty, and nothing queued or held is
  of the active generation (`NothingPlanned`), so no late commit can put a row into
  the view and make `CheckView` skip the pass. That a freshly rolled generation has
  nothing in flight rests on `RetiredIsOlder`.

`EngineTypes` leaves out the history of what was shown (the newest version with a
given content, a `CHOOSE`), which these theorems do not need.

`IndexEngine_proofs` then proves what a user of the engine relies on: that what was
saved is shown. That is not so in general, and section 6 has the behaviours that show
it; the theorems state as hypotheses what rules those out:

| hypothesis | says | without it |
|---|---|---|
| `OnlyWatcher` | the watch loop's passes are the only ones | a client's pass can plan from an older read of the tree |
| `NothingComesBack` | each save of a file is of new content (it may be deleted again and again); `NoneTwice`: and it is deleted once | `engine_restored` |
| `OneSlot` | `max_index_inflight` is 1, the default | `engine_overwrite` |
| `CalmDeletes` | a delete finds its file indexed and nothing of it queued | a delete that overtakes the indexing of its file is planned as nothing, for the view has no row, and the late commit shows the deleted file until the next pass |

The run `engine_core` satisfies them all, so TLC checks on an instance what is
proved for any number of files, versions, goroutines, attempts, faults, stops and
fingerprints:

- `DeleteConfirmed` (the first two): a mapping that is deleted was missing from the
  tree since the last pass began. `FlightInv` is what it takes: a pass reads
  versions in order; nothing holds a content before the file has had it; while a
  pass carries an old read, nobody knows the new content; the queue never wants an
  older content than one in flight; a delete was founded when it was planned, and a
  pass that finds a file in the index leaves no delete of an earlier pass.
- `SeenIsShownOrQueued` (all four): what a pass could see is shown, queued,
  dead-lettered or in the one dispatch (`KeptInv`). The second check of the queue is
  where the slot counts: between it and the commit nobody else commits.
- `IdleMeansFresh` (all four): to `KeptInv` it adds `HintLeft`, a change that no pass
  has seen left a hint, a pass that began after it, or a registration to come.
- `NeverRegresses` (`OnlyWatcher`, `NoneTwice`, `OneSlot`; no calm deletes): the
  refinement of `MonotoneView`. `ShownInv` orders the three places a content can be
  in: what is in flight lies between what is shown and what the queue wants, and
  nothing is newer than the pass that planned it. The history `shown` is the version
  with the content that is shown, which is unique by `NoneTwice`.

`Scheduler_proofs` begins with the breaker: `BreakerSpec => []BreakerInv` for any
callers and threshold, and from it `BreakerSafe`. The strengthening says that a
probe is of the current epoch and that nothing was admitted in an epoch that did
not exist. Then the engine:

- `SchedulerInv` is the breaker's invariant, `AdmittedAtWork` and the count of slots.
  Every step is one of `BreakerNext` or leaves the breaker alone (`BreakerMay`), so
  `SchedulerSpec => BreakerSpec` and the breaker's theorem carries over. Slots are
  counted with `Cardinality`, by the library's facts about a set with one element
  more or less.
- `RunIsAccounted`: beside the slots, the `WaitGroup` is the number of `Done`s that goroutines owe
  (`CountInv`, a retry that is dispatched owes two), so that a loop that got past
  `Wait` has left nobody.
- `FairTurn`: what a repository has waited, and the repositories that may come
  before it, make less than a round (`TurnInv`), for any number of repositories.

`WatchManager_proofs` proves `RacesLeaveOneLoop` and `ChangeSignalled` for any
registrations and channel sizes. `WatchInv` adds how far a call is tells what it
holds (`Stages`), only the removal of the root takes a worktree from its owner
(`GoneIsGone`), who stopped listening polls, or will when it reads its errors, or
dropped one (`OwnerHears`), and a change that came before anybody watched is what
the first loop starts dirty for (`EarlyIsEarly`).

`ProjectWatch_proofs` begins with the RPG manager: `StaleEdgesRefreshed` for any
files and batch size (`RpgInv`), and that every step of a session is one of the
manager, which needs only that what travels from disk to the stores are contents
(`DataOK`). About the session, assuming that a blank file is not an absent one:

- `ChangedIsMarked`, by `BaseInv`: the types, and what each place of the scan and
  of an event's handler has done so far.
- `StoresMirrorTree`, by `MirrorInv`, with every failure that `ProjectWatch` has: a
  file that is not in `lost` is, at each place
  of the scan, still to be looked at or indexed as it will be (`ScanFollows`); later
  its index and its symbols are as the file is, or an event is pending, being sent,
  queued or handled that will see to it, and the last one on the way for an absent
  file removes it (`IndexFollows`, `SymbolsFollow`); the graph has the nodes of its
  symbols but for the event under way (`GraphFits`).

`Background_proofs` proves, for any worktrees, starts, kills and sessions, one
invariant of supervisor, process and commands. `OneSession` needs that a session
that runs is the one its handle is about (`RunningIsCurrent`) and that what has
ended is older (`EndedIsPast`); `SessionsFollowRoots` that whoever has a handle will
be heard of (`ManagedIsAlive`). From it `SessionsAreRight` and `FilesTellTheTruth`.

`Parts_proofs`, about nine parts whose variables are disjoint, each for any values
of its constants:

- `DaemonInv`: the types; `LockTells`, how far a process is tells whether it holds
  the lock, and what it has open tells how far it is; `Undisturbed`, as long as
  nobody stops and nothing fails, processes only rise or lose to one that rises.
  Hence `OneDaemonServes` for any clients, processes and crashes.
- `RpcInv`: the types and `InStep`, while every call stayed for its answer there is
  one request, one handler at work or one answer, and it is the waiting call's.
  Hence `AnswersMatch` for any number of calls.
- `UpdateInv`: `ProgramOrBackup`, at each step which of the two files is whole, and
  `CheckedIsNew`, with checksums only the new program is installed. Hence
  `ProgramIsKept`.
- `SymbolInv`: what the backfill carries from its load to its write was verified
  against the artifact (`CarriesVerified`), and one runs. Hence
  `SymbolsAreTheArtifacts`.
- `RegInv`: one call is inside the mutex; a repository's handles are its open catalog
  and the one that a call is opening (`HandlesCounted`); a call has left behind what
  the next steps and the routes rely on (`CallsLeave`); the file is behind the memory
  (`FileBehind`). Hence the action property `RegistrationHolds`.
- `MigrationInv`: `GoneThrough`, what the documents that are through have put into
  rows and views, at each place of the import; one fingerprint is active; a
  migration that ends reconciled ends faithful. Hence `MigrationIsFaithful`.
- `SelectionInv`: the directories that neither are ignored nor lie below an ignored
  one are watched, or the creation of one above is still to be handled
  (`DirsFollowed`); a file in one that is not `early` is indexed as it is and as the
  rules say, or its last event is coming (`FilesFollowed`); what is indexed the scan
  would find (`OnlySelected`). That a file a `.grepaiignore` takes back is found
  exactly if none ignores a directory above it, for any tree and rules, is a lemma of
  its own (`TakenBackIsReached`): the deepest file that speaks exists because finite
  sets of numbers have a largest element. Hence `RulesAreFollowed`.
- `ReadInv`: dead letters only grow between two counts, and what was dropped from a
  merged list is beaten by `ResultLimit` hits that were kept (`BestAreKept`). Hence
  `ReadsAreHonest`.
- `WalkInv`: a queue is in order of levels; a name that is found within `k` links and
  no longer queued has all its links found within `k + 1` (`DepthReached`); a walk
  that was cut found as many as the limit. Hence `WalkIsExact`: the answer is the
  ball of the depth asked for, by the least level at which it would not be.

`Stores_proofs` follows a vector from the file to the answer. `FileEmbedding` and
`EmbedBatches` compute by recursive functions: `Recursion` says that such a function
exists and unfolds, and `Upwards` is the induction over its argument.

- `MergeKeepsTexts`, by `EmbedInv`: each unit of the file is in a chunk that the cache
  knows, that is embedded or that is still to be embedded, whatever was split; what
  is embedded has its own vector; and the merge loses none of either (`Merging`). The
  store keeps the last of the chunks with one id, so that its coverage is that of the
  merged list less the texts whose id was given again (`SavedTexts`, `RenumberedTexts`).
- `VectorsMatch`, by `BatchInv`: the batches hold the entries of the files that are
  not saved yet, each chunk's once (`AllEntriesIs`, `FormBatchesIs`), and a batch
  that is done has the vectors of its own texts, so that each finds its place
  whatever order the batches end in (`PassInv`).
- `GroupCanWork`, by the same invariant: the limiter's counters are numbers, it
  stays within its range between any two atomic accesses, and a group keeps the
  limit that it started with. Both make `PassesAreRight`.

And `StoresAreSound` for each of the three stores, and any files, contents, scores,
failures and index files loaded by other commands:

- `OneContentPerFile`, by `StoreInv`: a file no job is at is whole (`WholeFile`: all
  chunks of one content or none, those of its document unless a job has failed); the
  file store, which deletes by document, finds by it every chunk of a file
  (`InDocument`); a job finds its file as it was, emptied or written (`JobInv`); and an
  index file that can be loaded is such an index (`Loadable`).
- `SearchSound`, stage by stage. A finite linear order numbers its members (`NthIs`,
  by counting), so a sort keeps every result once and in order (`SortedIs`,
  `RankedIs`); to filter and to cut keep order and distinctness (`OnlyIs`, `CutIs`).
  The recursive functions that add ranks up exist and have numbers for values
  (`SumType`, `ProductType`). Fusing loses no chunk, because ids tell chunks apart
  (`FusedIs`). One result per file finds as many as asked for by the pigeonhole: if
  no file has more than four chunks, four times the limit come from at least as many
  files as the limit (`FewPerFile`, `EnoughFiles`). What a stage leaves out
  (`CutLeaves`, `RankedLeaves`, `DedupLeaves`) makes what the search leaves out
  `Outdone`: by every answer, by the cut before the boost, or by its own file's chunk.

`Graph_proofs` proves `GraphMirrorsStores` for any files, contents, classes, names and
drift threshold (assuming only `GraphAssumption`: a class is a pair, a content is not
`Absent`), with events, refreshes and rebuilds in any order. It is not
inductive: it speaks of the graph when nothing is under way, and of the hierarchy
without saying of what its nodes are. `GraphInv` adds what holds between:

- `Shape`: a node is the tuple of its kind, an edge leads between the kinds of its
  type and to nodes that are there, a symbol has its file's node and a span, and a
  category or subcategory hangs from what its own name says. Nodes may only go
  with what is below them (`RemoveKeepsShape`).
- `Housing` and `Kept`: a file has one home; what is childless in the hierarchy was
  so after the last rebuild. Pruning keeps both, because what it takes leaves at
  most its own parent childless, three levels up (`PruneIs`); a reroute is the
  one step that needs it for a file that stays (`PlaceFileIs`).
- `EdgesAreDerived(..., stale \union Due, moved)`: calls, imports and likenesses are
  those of the stores except for files that wait for a refresh and names that wait
  for the full one. A change of a file makes it wait (`StoreKeepsDerived`), an event
  touches the edges of its own file only (`FollowsKeepsDerived`), and a refresh for
  some files, which looks at the edges that touch them, is enough to take these from
  the waiting (`RefreshDerives`): an edge between two other files depends on neither.
- `NodesFollow`: how far the event under way has brought its file: symbols from
  `ApplyEvent` on, chunks from `LinkFile` on.

The proof showed that the derived edges are right also for a file that was created over
an existing one (`ghosts`), which `EdgesMirrorCalls` used to except.

Where an argument goes by induction over numbers it takes the least counterexample
(`WFMin`, the library's least element of a set of numbers), because the induction
theorems of the library cannot be instantiated by the provers at hand.

Only model-checked:

- All liveness (`Converges`, `Settles`, `DirtyIsServed`, `GoneEnds`, `StopIsServed`):
  fairness and `ENABLED` are out of the prover's reach.

## 6. What the runs found

- `engine_overwrite`: the worker's second check and its commit are two
  transactions, and the commit guards the generation only. With
  `max_index_inflight >= 2` an older save that passed the check replaces a newer
  one, against `docs/GREPAI_V2_ARCHITECTURE_PLAN.md:173`. With the default of one
  slot a version never regresses (`engine_core`).
- `engine_restored`: a pass plans nothing for a file that equals its indexed hash,
  although a delete for it is still queued; the delete then removes the mapping of
  a file that exists, against the same document's line 231. This is why
  `engine_core` and `engine_roll` assume calm deletes. The next pass plans the file
  again, for the view shows it no more.
- `background_ready`: nothing removes a killed process's ready file before the next
  child is spawned, and nobody compares its PID: `--background` reports success
  before, or without, the child being ready, against
  `docs/src/content/docs/watch-guide.md:192` ("waits for full initialization ... before
  returning success"). After a crash two quick starts can so leave two watchers.

The first two heal with a later pass, at the latest the safety net's, which plans
whatever the view shows otherwise than the tree. The instance of `engine_live` has the
first, and keeps `Converges`; that of `engine_core` has stops, faults and a deletion
between two contents, and keeps it too. For the second this is the code's
reading and no run's result: an instance with a client's pass, two slots and a
restored file is too large to be checked routinely.

Met while modelling, without a run of their own, because the models follow the
code and their properties say what it does do:

- v2: a start does not reconcile a worktree whose view is not empty, so edits made
  while the daemon was down wait for the next hint or the safety net (against "never
  silently claims a failed path is current", `docs/GREPAI_V2_ARCHITECTURE_PLAN.md:542`,
  WaitFresh reports such a tree as fresh). A dead-lettered path is planned again by
  every pass. `rpc/client.go:93-96` says that the ids always match, which ends with
  the first deadline that passes: every later call of the connection then fails, or
  is given an error answer, which is returned before the ids are compared. The
  backfill's `attempted` is kept as long as the process lives, although `worker/worker.go:199-200` says
  that it retries later.
- Migration: `legacyimport/import.go:203-208` reconciles placements it attempted;
  rows of chunks are `INSERT OR IGNORE` by ordinal, so a document split anew under
  the same hash keeps its old rows and still counts as reconciled (`reembedded`).
- Watcher of v1: files that arrive with a new directory raise no event (`early`);
  rules are loaded once per session.
- Ignore rules of v1: a directory that a `.grepaiignore` itself ignores is skipped
  whatever it takes back below (`indexer/gitignore.go:192-194`): with `vendor/` and
  `!vendor/important/`, the pair of `gitignore_test.go:645-695`, the matcher lets
  `vendor/important/lib.go` in and no walk comes to it, against the comment at
  `gitignore.go:181-182`. `NegationsAreReached` says exactly when (`KeptOut`). An
  ignored directory that the walk enters for its negations gets no watch
  (`watcher/watcher.go:96-104`): its files are scanned and then not followed, against
  `docs/src/content/docs/watch-guide.md:8`; `SelectionIsFollowed` asks only for what is
  `Wanted`, and that nothing is indexed which the scan would not find.
- Chunks of v1: a chunk is split under its place in the list of the attempt, so two
  chunks split in two attempts can give their parts the same ids, which
  `indexer/chunker.go:172-174` calls unique; the second overwrites the first, and the
  text of the first is in no stored chunk. `MergeKeepsTexts` is about what is stored
  and excepts exactly these (`RenumberedTexts`).
- Watcher of v1: a delete that waits for the debounce timer is kept when the file
  is written anew (`watcher/watcher.go:195-197`, "This will be handled as delete +
  create"); no create follows, and the file that exists is in no store.
- Indexer of v1: `last_index_time` is saved before the index; the index file is
  truncated and written in place. A file's chunks are removed before it is embedded, and
  its document keeps their ids; after a failed embedding the scan takes the file for one
  with chunks and passes over it, against `indexer/indexer.go:148-149`. A failed build of the graph is a line in the log:
  the session goes on with a graph that is empty, or has no derived edges, until its
  files change.
- Limiter: reductions are not paced across goroutines
  (`embedder/rate_limiter.go:118`): two that hit the threshold together halve twice.
- Stores: with one result per file four chunks are fetched for each result asked for
  (`search/search.go:36-44`), so a file of more chunks may hide others; `SearchSound`
  promises the number below that. These, or twice the limit, are fetched by similarity
  alone and boosted afterwards (`search/search.go:35-60`), so a chunk whose boost would
  have put it first can be missing; `Outdone` says when. Of a hybrid search nothing of
  the kind is claimed. Qdrant lists 1000 points, looks for a prefix in twice the limit, and
  answers without chunk ids, which collapses a hybrid search; `cli/search.go:272`
  closes, and so persists, the file another process indexes into.
- Graph: a `create` over an existing file keeps symbols that vanished (`ghosts`);
  a name that gains or loses a node is rewired by the full refresh only (`moved`);
  the last line of a symbol is its first with the default extractor, so a call in
  its body finds no caller (the instance gives every symbol its last line,
  `EndLines`). `EdgesMirrorCalls` does not compare the likeness edges of two symbols
  that share a caller, and excepts the names in `moved`.
- One-shot watch of v2: whether a failure of an earlier pass is taken for this one's
  depends on when the baseline is read (`cli/daemongate.go:190`); `ReadsAreHonest` says
  only that a failure of this pass is reported.
- Workspace projects list documents without their prefix: the scan removes none of
  those whose file went away.

## 7. Not modelled, and the plan

Not modelled, with the reason in `PROJECT.json`: parsing of sources (`trace`
extractors, `framework`), terminal displays, configuration, statistics, the MCP
server, the workspace process, the retry backoff as a function, the embedder
adapter, `traceview`, the parity measurement. Ranking is numbers, formatting is
left out. Code outside the repository (git, fsnotify, SQLite, databases, endpoints)
appears as what the code relies on: the read of a tree, a hint, the atomicity of a
transaction, a fault.

What would come next:

1. One catalog shared by daemon, one-shot CLI and a late registration: claims of an
   earlier crash in a repository that is registered after `Recover`; the chunk
   cache under the fingerprint of another configuration; `Rebuild`.
2. Two operators at once, and the lock on the PID file beside another starter.
3. Two processes on one v1 index: a search that closes over an indexer's file.
4. The limits of the graph's likenesses (verb groups, callees), and what they leave out.
