# mypy: specifications of the build, its cache and its workers

This directory holds TLA+ models of mypy and mypyc: the scheduling of modules
over worker processes, the incremental cache on disk, the daemon with what it
remembers between two checks, the connections between all these processes, and
the algorithms inside one check that work by iteration: the binding of names in
import cycles, the narrowing of types along control flow, and, in the compiler
mypyc, definedness, exception handling and reference counts. The models are
written from the code in `src/mypy` and `src/mypyc`; `PROJECT.json` maps every
definition to the lines it stands for. TLC checks the models on small instances, TLAPS checks the theorems
in the `*Proofs` modules for all values of the constants.

How to run one check, and one proof:

    tlc -workers 2 -config MCParallelBuildFan.cfg MCParallelBuild
    tlapm ParallelBuildProofs.tla

## 1. Inventory

### 1.1 The components and how they interact

`mypy` type checks a set of modules. It loads the import graph, finds its
strongly connected components (SCCs), and processes the SCCs in dependency
order. An SCC whose cache entry is still right is *fresh* and skipped; any other
is *stale* and is checked. What is learnt about a module has two halves: its
*interface*, all that importers can see, and its *implementation*, the bodies of
functions, which give diagnostics only.

| Component | Code | State it keeps | Operations | Talks to |
|---|---|---|---|---|
| Coordinator | `build.py`: `process_graph`, `BuildManager.submit*`, `wait_for_done*`, `build` | ready and waiting SCCs, `not_ready_count`, `scc_queue`, `free_workers`, interface hashes | start a round, hand out batches, wait, process results, shut down | workers (sockets), cache (reads) |
| Worker | `build_worker/worker.py`: `serve` | ASTs and hashes in memory, `done_sccs` | load dependencies, check interfaces, answer, check implementations, answer, stop | coordinator, cache (reads and writes) |
| Incremental cache | `build.py`: `find_cache_meta`, `validate_meta`, `write_cache*`, `find_stale_sccs`; `cache.py` | for every module a data, a meta and a meta_ex file | look up, validate, write in two phases | metadata store |
| Metadata store | `metastore.py` | files, or rows of sqlite shards with times | read, write, getmtime, commit | file system |
| Graph loading | `build.py`: `load_graph`, `State.new_state` | the graph: states, dependencies, suppressed imports | load a module, follow imports | cache, finder, parser |
| Graph algorithms | `graph_utils.py` | none | SCCs, topological order | graph loading |
| Life cycle of workers | `build.py`: `WorkerClient`; `worker.py`: `main` | processes, status files, connections | spawn, connect, acknowledge, close, terminate | IPC |
| IPC | `ipc.py` | receive buffers | frame, reassemble, poll | sockets |
| Semantic analysis driver | `semanal_main.py` | worklist of targets, incomplete namespaces | passes over top levels and functions until nothing is deferred | semantic analyzer |
| Semantic analyzer | `semanal*.py`, `typeanal.py` | symbol tables under construction | bind names and types | driver, plugins |
| Type checker | `checker.py`, `checkexpr.py`, ... | types of expressions, deferred nodes, partial types | first pass, second passes | binder, type operations, errors |
| Binder | `binder.py` | stack of frames of narrowed types | push, pop, put, merge | type checker |
| Type operations | `types.py`, `subtypes.py`, `join.py`, `meet.py`, ... | none | subtyping, joins, meets, inference | subtype caches |
| Subtype caches | `typestate.py` | results of subtype checks, assumption stacks | record, look up, reset | type operations, fine-grained update |
| Diagnostics | `errors.py`, `messages.py` | errors per file, ignores, watchers | report, filter, sort, flush | everything |
| Daemon server | `dmypy_server.py` | status file, the fine-grained manager, watchers | serve one command at a time | client, update, watcher |
| Daemon client | `dmypy/client.py` | none | start, stop, restart, check, kill | daemon server |
| Fine-grained update | `server/update.py` | graph, dependencies between targets, blocking error, stale modules, earlier messages | update a module, propagate | driver, checker, diff, merge, strip |
| Deps, diff, merge, strip | `server/deps.py`, `astdiff.py`, `astmerge.py`, `aststrip.py` | none | functions over ASTs | fine-grained update |
| File system cache and watcher | `fscache.py`, `fswatcher.py` | stat results and contents of one transaction; size, time and hash of watched files | read, flush, find changes | file system |
| Module finder | `modulefinder.py`, `find_sources.py` | lookup caches | find a module | file system cache |
| Parser, AST | `fastparse.py`, `nativeparse.py`, `nodes.py` | none | parse | graph loading |
| Options and command line | `options.py`, `config_parser.py`, `main.py` | the options | merge settings | everything |
| Plugins | `plugin.py` | user code | hooks | analyzer, checker |
| Daemon queries | `suggestions.py`, `inspections.py` | none of their own | query, trigger | fine-grained update |
| Stub tools, reports | `stubgen*.py`, `stubtest.py`, `report.py` | none | generate, compare, print | file system |
| mypyc | `mypyc/` | IR of the module compiled | build IR, transform each function, emit C | parser, checker |

### 1.2 What is hard about them, and what makes them right

* **Coordinator and workers** run concurrently; responses arrive in any order
  and in any grouping; a worker may die, and any module may raise a blocking
  error that ends the build. Right means: an SCC is worked on only when its
  dependencies are final; nothing that is final changes; a build that reports
  success has checked and reported everything; a build that fails still returns
  and leaves no process behind.
* **Workers and cache.** Workers learn interfaces from the cache, not from
  messages. Right means: the entry is there before anyone is told of it; what
  two processes have in memory for the same module agrees; a worker that has a
  module has everything the module depends on.
* **Cache over time.** Three files per module, written at three moments, by a
  process that may fail to write or may be stopped. Right means: a run with the
  cache shows what a run without it would show; a second run without edits does
  no work.
* **Graph algorithms.** Pure, but everything above relies on SCCs coming out
  whole and before their dependents.
* **IPC, life cycle, daemon.** Timeouts, partial delivery, files that announce a
  process which may be gone. Right means: no frame is torn or merged; everybody
  gives up in the end; a client never takes a dying daemon for a live one.
* **Fine-grained update.** A long-lived graph patched in place. Right means:
  after any sequence of edits, blocking errors and deletions the messages are
  those of a full build, and no edit is forgotten.
* **Semantic analysis driver and checker deferral.** Loops that end because of a
  notion of progress. Right means: they end, and with everything bound that can
  be bound, to what the file says and not to what the order of analysis makes of it.
* **Binder.** A stack of frames that follows the control flow of a function while
  its statements are visited, once or several times each. Right means: at a
  statement the variables have the types that their values can have there.
* **mypyc's passes.** Each pass relies on an analysis over a control-flow graph
  in which an error may leave a block anywhere. Right means: no variable is read
  without a value, no object is used after its last reference, none is leaked,
  on any way through the function.
* **Watcher and caches.** Decisions on stat results that may be older than the
  content, or newer. Right means: an edit is noticed by the next request.

The client's code imports a module `mypy.memcode_server` (`dmypy/client.py:348`,
`:613`) that is not in the repository; the models take it to be
`mypy/dmypy_server.py`, which has all that the client asks of it.

`PROJECT.json` lists these hazards line by line under `hazards`, with the
properties that would catch each going wrong, or why none does yet.

## 2. Plan

In order of importance. All but the last group is done, see section 3.

1. `TopoBuild`, `ParallelBuild`: scheduling over workers, and what it implements.
2. `IncrementalCache`: the cache over many runs, with faults. `MCBuild` checks it
   together with a parallel build that starts from any cache.
3. `WorkerLifecycle`: spawn, status file, connect, the three acknowledgements,
   shutdown in any phase. It composes with `ParallelBuild` at `Init` (all
   acknowledged) and at `Notify`: `Handover` is the state `ParallelBuild!Init`
   starts from.
4. `FineGrainedUpdate`: the increments of the daemon, compared with a full build.
5. `Daemon`: server, clients and status file. `Watcher`: file system cache and
   change detection, with an editor that does not wait. `Framing`: frames over a
   byte stream.
6. `SemanticDeferral`: names of import cycles. `Binder`: types along control flow.
7. `DataFlow`, `RefCounts`: mypyc's passes.
8. Proofs: `ParallelBuildProofs`, `BuildProofs`, `CacheProofs`,
   `WorkerLifecycleProofs`, `ProcessesProofs` (`Framing` and `Daemon`), `WatcherProofs`,
   `SemanticDeferralProofs`, `FineGrainedUpdateProofs`.

Left, in order: proofs about `FineGrainedUpdate` with files that come and go,
about `RefCounts`; the deferral of functions
in the checker (`checker.py:check_second_pass`); error watchers and ignores of
`errors.py`; `graph_utils.py` against reference definitions; the increment that
does not follow imports, and modules of a package.

## 3. The modules

### 3.1 `DepGraph`

Graphs as functions from a node to the set of nodes it depends on; reachability
as the least closed set, without recursion, so that the proofs can use it.

### 3.2 `TopoBuild`: what a build promises

The abstract specification, with four variables: the SCCs whose interface is
final (`done`), those of them taken over from the cache (`fresh`), those whose
diagnostics were shown (`reported`), and the outcome. SCCs complete in
dependency order, each once; diagnostics follow completion; success requires
that everything is complete and reported. Number of workers, queue and cache
are not mentioned: this is what `--num-workers` must not change.

### 3.3 `ParallelBuild`: coordinator, workers, sockets, shared cache

One SCC is one node. The correspondence with the code:

| Model | Code |
|---|---|
| `ready`, `notReady`, `stillWorking`, `doneNow` | locals of `process_graph` |
| `notReadyCount` | `SCC.not_ready_count` |
| `hash` | `State.interface_hash` in the coordinator's graph |
| `queue`, `maxBatch`, `free` | `scc_queue`, the batch limit, `free_workers` |
| `toWorker`, `toCoord` | the two directions of a worker's socket |
| `wpc`, `batch`, `todo` | where `serve()` is, and with which request |
| `loaded` | `done_sccs` and the hashes of one worker's graph |
| `store` | committed cache entries |
| `inherent`, `depHash` | `is_fresh()` and `dep_hashes`, as graph loading found them |
| `done`, `reported` | history of what has been notified and flushed |

Actions of the coordinator: one per round of `process_graph`'s loop
(`FindStale`, `SkipFresh`, `StartWaiting`), one per turn of
`submit_to_workers` (`SendBatch`, `SendFails`), the return from it
(`EndSubmitStale`, `EndSubmitMore`), the wait (`Receive`, `ReceiveFailure`),
`KillCoordinator` when the process dies, the end (`Finish`) and the `finally` clause of `build`
(`Notify`, `Close`, `Terminate`, `BuildReturns`). Actions of a worker: take a
request, check the interface of one SCC and commit it, answer, check the
implementation of one SCC, answer, and every way for these to fail.

What type checking computes is open: an interface may come out with any hash,
equal to the recorded one or not, and any module of `MayBlock` may block in
either phase. What graph loading found is open too, within what an earlier run
on the graph `OldDeps` can have left.

### 3.4 `IncrementalCache`: the cache over many runs

One process, a sequence of runs, and edits in between. `data`, `meta` and
`metaEx` are the three files of a module; `hash`, `tree`, `stamp` are what a
run keeps in memory; `pc` walks through `find_stale_sccs`, the loop that writes
data files, the loop that writes meta files and the loop that writes meta_ex
files, one module at a time, so that an interruption may fall between any two
writes. Faults are of four kinds, chosen by the constant `Faults`: a
`write_cache` that does nothing, a meta or a meta_ex file that cannot be
written, an interruption.

An interface is what the source declares, plus the interfaces inferred types
are taken from; an interface mentions types of other modules by name, and that
is what indirect dependencies come from. Diagnostics are the source and every
interface looked at. `Clean` and `CleanDiagnostics` say what a run
without a cache computes; they share no state with the model. `OrderAssumption` and
`SourceAssumption` say what sources may be: SCCs come in the order of imports, a
module mentions only what it reaches through imports, and its inferred types come from
modules that it imports from earlier SCCs. Types that are inferred from each other within a
cycle are left out: their equations need not have one solution.

The model covers the order used by `process_stale_scc` with local partial types
(the same as in a worker). Time is the number of the run: two runs never start
in the same second, a data file is stamped with the run that wrote it.

### 3.5 `WorkerLifecycle`: workers from spawn to exit

`ParallelBuild` starts with connected, initialised workers and ends with the
order to stop; this module has what comes before and after. Variables stand for
the main thread (`cpc`, `stage`, `idx`, `outcome`), the connect thread of each
worker (`tpc`, `connected`), the options file and the status files, the worker
processes (`wpc`, `wstage`), the two directions of each socket, and what the
shutdown has done (`closed`, `waited`, `signalled`).

The coordinator broadcasts `sources`, `graph` and `sccs`, and waits for an
acknowledgement of each from each worker in order. A frame may be cut, or not sent
at all, when the socket's timeout strikes in `write_bytes`; a worker that reads a
cut frame waits for the rest. Time is left out: whatever waits with a timeout may give up
as long as what it waits for is not there. The work itself is one step,
`ProcessGraph`, which leaves a worker idle or in the middle of a batch.

### 3.6 `FineGrainedUpdate`: the daemon's increments

| Model | Code |
|---|---|
| `project`, `files`, `roots` | what the files may contain, the files during this increment, the sources of the request |
| `lastSeen` | `FileSystemWatcher._file_data`: contents as last seen (see 3.8 for how they are seen) |
| `visited`, `changedFiles`, `queue`, `origModules` | `seen`, `changed_paths`, `worklist`, `orig_modules` of `fine_grained_increment_follow_imports` |
| `previousSources` | `Server.previous_sources` |
| `graph` | `graph` with `manager.modules`: path, tree, `dependencies`, symbol table |
| `deps` | the dependency map, from a module's trigger to its importers |
| `complaints`, `targetsWithErrors` | `manager.errors`, `previous_targets_with_errors` |
| `messages` | `previous_messages`: diagnostics by module, or the blocker |
| `blockingError`, `stale`, `previousModules` | attributes of `FineGrainedBuildManager` |
| `pending`, `initialSet`, `removedSet`, `blocking`, `lastId` | locals of `update()` |

`CheckFiles` is the beginning of an increment: files and sources may have changed in
any way within the instance; it finds what changed and calls `update()`. While
`pc = "update"`, each action is one turn of the loop in `update()`:
`SkipBlocker`, `DeleteModule`, `LoadFails` (load_graph raises), `AnalysisFails`,
`ProcessModule`, and `FinishUpdate` when nothing is pending. Control then
returns to the increment, whose further steps are `FollowImports`,
`AddSuppressed`, `DeleteUnreached` and `FinishIncrement`, each of which may call
`update()` again. Orders that depend on sets or dictionaries are open. `Propagate` does
rounds until nothing changes; after `MAX_ITER` of them, 1000 in the code and here, the daemon dies
(`pc = "endless"`), as it does of the `KeyError` of 4.1 (`"crashed"`).

A version of a file has imports, an interface (its own, or that of a module it
re-exports), and possibly a parse error or a blocking error of semantic
analysis. A module has one target. `UpdateBounds`, the assumption on the constants, says that
re-exports are imports and that every chain of them ends. `FullModules`, `FullErrors` and
`FullBlockers` say what a full build finds; they read nothing but the files and
the sources. Files do not change during an increment, since the file system
cache serves all its reads from one snapshot of each file.

### 3.7 `Daemon`: server, clients and the status file

| Model | Code |
|---|---|
| `client`, `doing`, `asking`, `target` | where a client process is, the command its user gave, the command of its request, the server it read of |
| `server`, `command`, `result`, `serving`, `handle` | where `serve()` is, the request it works on, the response, the connection it accepted, the status file it opened |
| `queue`, `inbox` | connections not accepted yet, a response under way |
| `file` | the status file: who created it, and whom it names |
| `faults` | interrupts, timeouts, crashes and idle stops so far |

A client command is a sequence of steps: look for a running server (`Probe`), start
one (`Spawn`, `Wait`), read the status file, connect, send, wait for the answer;
`restart` is `stop` and `start`; `run` is a check that may be answered by a demand
to restart. The server opens and writes its status file, then accepts one
connection after the other; `stop` removes the status file before it answers, every
other end removes it after (`Exit`). What commands compute is left out: an answer,
or a crash.

### 3.8 `Watcher`: how the daemon learns what changed

One transaction is the first build or one increment. `FileSystemCache` keeps stats
(`statCache`) and contents (`readCache`) until the end of the transaction;
`FileSystemWatcher` keeps size, time and hash of each watched file from one
transaction to the next (`watched`, `fileData`). Every access to a file is an action
of its own: the stat (`Look`), the read for the hash (`Hash`), the read for the
parser (`Build`, `Update`, `Load`), so that an edit or a deletion may fall between
any two of them. `native` is the option that lets the parser open the files itself.
`built` is what the build last processed of a file; `untouched` are the files that
nobody has written since the present request asked for them. In `FineGrainedUpdate` the
look at the files is one step: that is what this module justifies.

### 3.9 `Framing`: messages over a byte stream

The header with the length of a message, its body, `recv` with any amount of what
has arrived, the buffer that keeps what belongs to the next message, several
connections read by one process: those with something in the buffer come first,
since `select` cannot see it. All the other modules take a message as whole and the
messages of a connection as ordered; this module shows that they may.

### 3.10 `SemanticDeferral`: the names of an import cycle

`process_top_levels` takes the modules of an SCC one after the other, again and
again (`BeginTarget`, `EndTarget`, `NextIteration`); the semantic analyzer visits the statements of one module and
fills its symbol table, with placeholders for what cannot be bound yet. `pass` is
what the analyzer reports back: whether it deferred, whether the namespace is
incomplete, whether it made progress; `final_iteration` is the last try, in which
errors are reported. Statements are functions, classes with a base, imports of a
name and star imports: what binds names at the top level of a module and can wait
for another one. `Meaning` says without any order of analysis what a name should
be: the first definition in the file, followed through imports. `NamesAsMeant` and
`ErrorsAsMeant` are about `Settled` programs: they leave out star imports of modules that
have one themselves (`StarChain`), and names that a star import brings first and that something
else in the file gives again (`Redefines`), another star import for instance. In these the
placeholder that the star import has brought gives way to what comes next, and which one the
name gets depends on the order. A symbol is a kind with
the place of its definition; of the two placeholders `TypePlaceholder` is the one with
`becomes_typeinfo`. `ImportAll` takes the names of the other module all at once, since
what is done for one name does not depend on another. `DeferralEnds` says that the loop
ends by itself, and how: `EveryRoundGains` counts iterations against what the symbol
tables have gained.

### 3.11 `Binder`, `Statements`: types along control flow

`ConditionalTypeBinder` keeps a stack of frames; a frame has the types learnt in it,
and, except for the last, a list of the states in which control may come back to it
(`options`). The operators are the visits of `checker.py` as functions from binder to
binder: `VisitIf`, `VisitLoop` (the body again until the frame does not change),
`VisitTry` (the finally clause twice), `VisitWith`, and so on. `CheckFunction` checks
one function body, and `types` is what its statements were checked with. The
reference is `Run`: the set of all values that variables may have at a statement when
Python executes the function, with an exception before any statement.

### 3.12 `DataFlow`, `RefCounts`: mypyc's passes over a function

`DataFlow` has the intermediate code, the control-flow graph, the work list
algorithm and four analyses. `RefCounts` takes a function through
`insert_uninit_checks`, `insert_exception_handling` and `insert_ref_count_opcodes`
(three actions), and then runs what came out, one operation per action: `value` is
what registers hold, `held` how many references to an object this call owns. An
operation that may fail does so on some ways; a branch on a truth value goes either
way. What an operation does to references follows `codegen/emitfunc.py`, not the
passes.

The operators were compared with the repository's own passes: for the 14,400
functions of the run, `DataFlow` and `RefCounts` give the same code as
`mypyc.transform`, up to the numbers of blocks and the order of decrements next to
each other. `Binder` was compared with mypy the same way: for 11,552 functions, the
types at 276,807 places are those that `reveal_type` shows, and so for 3,000 more with
attributes in loops.

### 3.13 The MC modules

A module whose name starts with `MC` gives the constants of a run their values and,
where it says so, puts several specifications side by side: `MCProcesses`
(`WorkerLifecycle`, `Daemon`, `Framing`), `MCDaemonCheck` (`Watcher`,
`FineGrainedUpdate`, `SemanticDeferral`, `Binder`) and `MCBuild` (`IncrementalCache`,
`ParallelBuild`). They extend these modules, whose variables and definitions have names of their
own (`CacheInit`, `DaemonNext`, `FramingTypeOK`); there is no variable in common, and each takes the result of the
other as any result it may have, so a behaviour is one of one part, chosen at the start (`part`), while the
other parts rest in an initial state. `MCRefCounts` builds functions out of pieces,
`MCParallelBuild` has a graph.

## 4. The runs

All runs are exhaustive over their instance. Where a run has parts, every behaviour
is one of one part.

| Run (cfg) | Instance | Properties |
|---|---|---|
| `build` (`MCBuild.cfg`) | part "cache": 4 modules with an import cycle and indirect dependencies that come and go, 5 builds with any edits between them, one fault of any kind. Part "build": 4 SCCs on two branches, with an import between the branches that was removed; 2 workers, 2 hashes, any cache | `CacheTypeOK`, `MetaDescribesData`, `NothingToRecheck`, `FaultsAreHarmless`; `WorkersAgree`, `LoadedIsClosed`, `FreshIsJustified`, `FinalIsFinal`, the refinement `ImplementsTopoBuild` |
| `parallel_fan` (`MCParallelBuildFan.cfg`) | 3 SCCs to start with and 1 on top, 2 workers, one blocker, one death, one failed write, with fairness | `TypeOK`, `DependenciesFirst`, `GoodBuildIsComplete`, `FreeMeansFree`, `BuildEnds` |
| `processes` (`MCProcesses.cfg`) | part "workers": 2 workers, one death, one write that times out. Part "daemon": 2 users, 2 processes that may become servers, one fault. Part "stream": two messages from each of two peers, one of which may close | `TypesOK`; `NoProtocolError`, `Handover`, `OptionsWhileAwaited`, `NoStatusFileLeft`, `BuildsEnd`; `StatusIsTrue`, `RemovesOwnFile`, `CommandsEnd`; `MessagesInOrder`, `NothingLeftUnread` |
| `daemon_check` (`MCDaemonCheck.cfg`) | part "files": two files, three texts of two sizes, a clock of three ticks. Part "update": four projects of 3 modules. Part "analysis": cycles of two modules with up to four statements, rings of three modules, a module with star imports of two others, in several orders. Part "narrowing": two variables and an attribute, functions with two levels of nesting | `TypesOK`; `UpToDate`, `ContentNotOlder`, `RememberedIsBuilt`; `SameAsFullBuild`, `GraphIsReachable`, `KnownBlockerIsReal`, `LoadedWithDependencies`, `OnlyReachableLoaded`; `NamesAsMeant`, `ErrorsAsMeant`, `DeferralEnds`; `NarrowingIsSound` |
| `refcounts` (`MCRefCounts.cfg`) | 14,400 functions: three statements of sixteen in five shapes of control flow | `UndefinedIsCaught`, `ReferencesBalance` |
| `cache_meta_lost` (`MCBuildMetaLost.cfg`) | a meta file cannot be written | `LostMetaOnlyCostsTime`, violated |
| `cache_interrupt` (`MCBuildInterrupt.cfg`) | the process is interrupted | `InterruptOnlyCostsTime`, violated |
| `update_new_blocker` (`MCDaemonCheckNewBlocker.cfg`) | a new module with a syntax error | `BlockerIsReal`, violated |
| `update_dangling` (`MCDaemonCheckDangling.cfg`) | two sources import a module that is deleted | `LoadedWithDependencies`, violated |
| `watcher_native` (`MCDaemonCheckNative.cfg`) | files are also written while the native parser works | `UpToDate`, violated |
| `false_cycle` (`MCDaemonCheckFalseCycle.cfg`) | the part "analysis" | `CyclesAreReal`, violated |
| `uninit_in_handler` (`MCRefCountsRenew.cfg`) | try bodies that delete a variable and give it a new value | `UndefinedIsCaught`, violated |

Why the bounds are enough to be interesting:

* *Workers.* Two are the smallest number with interleavings between them. With
  two branches one SCC waits for two that may be processed by different workers,
  and a worker may need something it has not checked itself, with something below
  it. The import that was removed leaves an indirect dependency on the other
  branch, which the order of scheduling does not cover. Two hashes let an
  interface be "as recorded" or not; a third would only be another "not".
  The fan has more leaves than workers, so that the queue is not empty when a
  worker becomes free, and sizes that put two SCCs in one batch. `LongPole` is 1
  there (all systems but Linux) and 2 in `MCBuild` (Linux). One death and one
  blocker meet every phase of the other worker. After the first the build only
  shuts down, so that a second adds nothing but a second dead worker.
* *Cache.* Five runs over four modules are enough for an indirect dependency to be
  recorded, to disappear, to come back, and for an edit to be undone in between.
  The violations need three runs.
* *Life cycle.* Two workers let one be connected while the other is still starting,
  in every phase of the handshake. One death and one timed-out write can meet; what
  follows a failure is the shutdown, which has every interleaving anyway.
* *Daemon.* One user starts servers (`start`, `restart`, `run`) while the other uses
  and stops them, the smallest instance in which the server that one client has
  found is stopped, or replaced, by another. A fault (a request that times out, an
  interrupt, a crash, an idle stop) meets every step of it. Two users who both
  start servers are left out, see 4.2.
* *Frames.* Headers of two bytes and bodies of one or two let a frame be cut in the
  header, behind it and in the body; `recv` takes up to seven bytes, so that both
  messages of a peer may arrive at once, or one and a part of the next.
* *Files.* Three ticks of the clock are two different seconds, with two moments in
  the first one. Three texts of two sizes are an edit of equal size and one of another.
  The editor never writes two texts of one size within `Grain`, here a second:
  mypy compares whole seconds and says so.
* *Update.* Three modules are the smallest program with a module between two others,
  which a change must pass through, and with a re-export. The number of increments is
  not bounded: the state space closes. The passing projects leave out what the
  violated runs show. `GraphIsReachable` is for projects without blocking errors:
  a module whose import was dropped while a blocker was being reported stays for
  one more increment.
* *Analysis.* Two names and up to four statements in two modules have every way in
  which two files can wait for each other; the ring adds a namespace that is complete
  only after another one is, and the module with two star imports a name that comes from
  two sides. No program of the instance takes more than seven
  iterations, so that `MAX_ITERATIONS` (20) is not what ends the loop.
* *Narrowing.* A try, with, while or for statement around an if, try or with
  statement, with every combination of assignments, `raise`, `return`, `break` and
  `continue` in them. The limit of four rounds for one loop is documented
  (`checker.py:820`); chains of copies longer than three reach it and are left out, and so is what 4.2 says.
* *Reference counts.* Three statements suffice for a value to be made, shared and
  given up in different blocks; the shapes have a join, a loop, a loop that defines,
  a handler and a finally clause with its saved return value and exception.

`CHECK_DEADLOCK` is off in `MCDaemonCheck`, where the analysis of a cycle and of a function
ends, and a crashed daemon stops, and in `MCRefCounts`, where a function returns.

Fairness. Two runs have liveness properties. `parallel_fan` assumes
weak fairness of the coordinator's steps, of the shutdown and of each worker:
the coordinator is one thread that never waits without a timeout other than on
`select`, `Terminate` stands for the timeout of `proc.wait`, and checking one
batch ends. Nothing is assumed of deaths, blockers or lost writes: they may or
may not happen. An answer that takes longer than `WORKER_DONE_TIMEOUT` is not
modelled. `processes` assumes, for the workers' part, weak fairness of the main
thread and of the connect threads, all of which wait with timeouts, and of the
delivery of SIGTERM; nothing of the workers, which may be as slow as they like or
hang, and `build()` still returns with every worker gone. For the daemon's part it
assumes weak fairness of each client and each server: a client waits with a timeout
or for its server, a server works on one request at a time and every request ends,
in an answer or a crash. No fault is assumed to happen.

### 4.1 What the violated runs show

* `LostMetaOnlyCostsTime`. `write_cache` compares the new hash with one from a
  meta file that may already be out of step with the data file. Edit; the data
  file is written, the meta file is not; undo the edit: the hash is again that
  of the old meta, the data file is not rewritten, and its new time stamp goes
  into a meta that describes another version.
* `InterruptOnlyCostsTime`. The meta file of the interface phase is committed
  before the meta_ex file of the implementation phase is written. A process
  stopped in between leaves a valid meta beside a meta_ex with the diagnostics
  of the previous version, and the next run shows those. `FaultsAreHarmless`
  draws the line: while a cache is first filled, the missing meta_ex file is
  noticed.
* `BlockerIsReal`. An import is added to a module, and the new module has a
  syntax error. The daemon remembers the new module with the path of the old one
  and does not watch the new file: correcting it changes nothing, and after the
  next edit elsewhere the blocker is skipped and the first edit is forgotten.
* `LoadedWithDependencies`. Two sources import a module; one is edited and the
  module is deleted. The edited source is processed while the module is in the
  graph, then the module is deleted; following the imports of the source, the
  daemon looks it up and crashes with `KeyError`.
* `UpToDate`, with the native parser (the default). The parser opens the file
  itself, and the watcher reads it later for its hash. An edit of the same size in
  between is hashed and remembered; no later check finds a change, and the daemon
  goes on with the text before. With the other parser both use one cached
  content, and the same interleavings do no harm (run `daemon_check`, and the theorem
  `AlwaysUpToDate`).
* `CyclesAreReal`. `a: from b import *`, `b: def x; from c import *`,
  `c: from a import x`, taken in the order c, b, a: an iteration in which the namespace of
  a module became complete, and no name was added, counts as no progress, the next
  one is the last, and the program is rejected with "possible cyclic definition".
  In every other order it is accepted.
* `UndefinedIsCaught`. `x = a`, `try: del x; g(); x = a`, `except: h(x)`. The
  analysis lets an error leave a block only at its end or its beginning, and at both
  `x` has a value; no check is emitted in the handler, where it may have none.

The behaviours of the daemon, of the analysis and of mypyc were also reproduced by
running the repository's own code on such programs.

### 4.2 Known, and not among the runs

Some statements of the code's own documentation, and some expectations, that do not
hold in the code, and that no run shows; where there is a formula, it is defined in
the module named.

* `NoOpIsHarmless` (`ParallelBuild`). The docstring of `write_cache` says that
  mypy stays correct when a call is replaced by a no-op. With workers it does
  not: the cache is how interfaces travel, and `reload_meta` takes the old entry
  without validation, or fails its assertion when there is none. Without
  workers the statement is right: it is a part of `FaultsAreHarmless`.
* `FailureIsDiagnosed` (`WorkerLifecycle`). `receive_worker_message` waits for the
  end of the worker it could not hear, to name its exit status. `proc.wait` raises
  `subprocess.TimeoutExpired`, which is not a `TimeoutError`; the handler for
  "still running" does not see it, and the message that names the worker is
  lost. The workers are stopped all the same: `BuildsEnd` holds.
* A module that appears, after it was missing, and imports one that is in the graph
  for another, vanishing, reason. The latter counts as not reached and is deleted;
  the new module sees `Any` in its place, without a diagnostic, until it is edited.
  The projects of `daemon_check` leave this out (`GraphIsReachable` would fail).
* Two servers started at the same moment by two users: both clients find none, both
  servers write the status file, the later one wins. Every end of `serve()` but a
  clean stop removes the status file without looking whose it is
  (`dmypy_server.py:272`), so the server that lost removes that of the other at its
  idle timeout, and the other goes on running where no client finds it. The comment at
  `dmypy_server.py:268` is about not removing "a future server's status file". The
  instance of `processes` has one user who starts servers, and `OneStarter` is the
  hypothesis of the theorems about the status file.
* A star import of a module that has one itself, and a star import followed by a
  definition of one of its names: which definition is "the first" then depends on
  the order of analysis, or is an error where the name would have been replaced.
  `NamesAsMeant` and `ErrorsAsMeant` make an exception for them (`StarChain`,
  `Redefines`).
* `accept_loop` is to "Repeatedly type check a loop body until the frame doesn't
  change" (`checker.py:793`). An assignment to `x` invalidates what is known of
  `x.a` in all frames (`binder.py:544`) and does not count as a change, so the body
  is not visited again: in `x.a = 1; for _ in ys: reveal_type(x.a); x = new()` the
  type stays `int`, and the code after `while isinstance(x.a, int): x = new()`
  counts as unreachable. Loops that assign to `x` while `x.a` is narrowed are left out.
* `break` or `continue` out of a try statement whose finally clause assigns: the
  jump passes over the clause, and after `while g(): try: x = 1; break; finally:
  x = ""` the type of `x` is `int`. Left out as well.
* `insert_exception_handling` does nothing in a function without an operation that
  can raise, and leaves the handlers of its blocks set. Nothing follows from it: the
  edges are never taken.

## 5. The proofs

`ParallelBuildProofs`: `AlwaysTypeOK`, `AlwaysDependenciesFirst` and
`AlwaysFreeMeansFree`, for any import graph, any finite number of workers, any
sizes, any number of crashes and lost writes, and with no assumption on what
type checking computes. Assumptions: `GraphAssumption` (`Deps` and `OldDeps` are
graphs over `SCC`), `SizeAssumption` (finitely many SCCs and workers),
`HashAssumption`, `BoundAssumption`. Acyclicity of the graph is not assumed: a
cycle would only never become ready.

None of the three properties is inductive. What carries them is `IInv`:

* `Typed`: every variable but the counters has its type.
* `Counted`: `notReadyCount[s]` is the number of direct dependencies of `s` that
  are not in `done`. This needs that nothing is notified twice, hence
* `OnePlace`: an SCC that is not done is in at most one of: the ready list of
  this round, the results being processed, the queue, a request in flight, a
  batch being checked, an interface response in flight; and
* `OneWorker`: no two workers own the same SCC.
* `Grounded`: wherever an SCC is on its way, its dependencies are done.
* `OneStage`: the possible combinations of a worker's state, its two channels
  and its membership in `free_workers` while the build is running; at most one
  request or response per worker is ever outstanding, or an interface response
  with work still going on. This is what `FreeMeansFree` needs.
* `OpenUntilEnd`: no connection is closed before the shutdown.

The step lemmas go action by action. `AdvanceInv` is the heart: notifying the
dependents of a set of SCCs that are all new keeps `Counted`; `ReceiveInv` shows
that the SCCs of the interface responses of one wait are new and disjoint, and
`SendBatchInv`, `ReceiveRequestInv`, `RespondInv` move an SCC from one place to
the next. TLC checked the conjuncts before they were proved.

`BuildProofs` goes on from `IInv` to what a build computes: `AlwaysLoadedIsClosed`,
`AlwaysWorkersAgree`, `AlwaysFinalIsFinal`, `AlwaysFreshIsJustified`,
`AlwaysGoodBuildIsComplete` and `BuildImplementsTopoBuild`, under the same assumptions.
`WorkersAgree` holds for `lost = 0`: a write that failed is what makes it false
(`NoOpIsHarmless`, 4.2). So `AlwaysWorkersAgree` is `Spec => [](lost = 0 => WorkersAgree)`,
for any bound on failures, and `WorkersAlwaysAgree` has no condition on the state
but supposes `MaxLost = 0`, as the run does. Three more layers, each inductive together
with the ones below it, and each checked by TLC on both instances, with crashes,
failed writes and blockers, before it was proved:

* `MemInv`: what a worker has in memory. `Answers`: an answer about interfaces that is
  under way has, for the worker's batch, the hashes the worker has in memory. `Worked`:
  what it has finished is in memory. `Holders`: before an SCC is final, only the worker
  that was given it can have it in memory, and the SCC is in none of the coordinator's
  lists. This is where the order of scheduling comes in. `Known`: while no write was lost,
  the coordinator knows the cached interface of every SCC that no worker holds, and what
  workers have loaded is what is in the cache. `LoadedIsClosed` is the last conjunct;
  the proof needs that `Reach` is the least closed set.
* `TrustInv`: what the cache was trusted for. `AllJustified`: every SCC taken as fresh
  was compared with final hashes, those of indirect dependencies included; these are
  final because the direct ones are (`FromCache`, `FreshGrounded`). `AllRechecked`:
  workers are only given SCCs that were found stale. `Phases`: what the local variables
  of `process_graph` say at each point of its loop.
* `EndInv`: nothing is forgotten. `NothingLost`: every SCC has a place in the
  coordinator or with a worker, and each one that was rechecked and not reported is queued or with a worker
  that is not free, unless such a worker has died. `AnswerOrder`: a worker answers about
  implementations after it has answered about interfaces. `GoodEnd` is what then holds
  when the loop ends without an error.

`BuildImplementsTopoBuild` maps `done`, `done \ rechecked`, `reported` and `outcome`.
Notifying the dependents of what is done is `Complete` (several SCCs at a time),
receiving answers is `Report` (`AnswerOrder` makes sure that they are final,
`AllRechecked` that they are not fresh), the return of the loop is `Succeed` (`GoodEnd`),
every failure is `Abort`, and all other steps are stutters. `AlwaysGrounded` is what the
abstract build promises, and so every build: final SCCs rest on final SCCs, for any graph.

`CacheProofs`: `AlwaysCacheTypeOK`, `AlwaysMetaDescribesData`, `AlwaysNothingToRecheck`
and `AlwaysFaultsAreHarmless`, for any modules, import cycles, versions of the sources,
number of runs, edits between them, and faults. Assumptions: `OrderAssumption`,
`SourceAssumption` (see 3.4), `BoundsAssumption`, `NothingAssumption` (the mark for
"nothing" is no record and no number).

The interfaces of a run without a cache are given by equations that refer to each other
along the imports. That the equations have a solution (`Solution`, `CleanIs`) is shown
SCC by SCC: if there were none, take the first SCC where it fails. This way of induction,
by a least counterexample (`Smallest`, from the library's `WFMin`), needs no theorem that
takes an operator. `SameSeen` says why the two lists of hashes are enough: two versions
of the sources that have the same interfaces wherever one of them looks also look at
the same modules and find the same errors there. So an indirect dependency that would
appear with an edit makes itself known through a module that was looked at before.

The invariant `CInv`, which TLC checked on three million states of the run's instance before it
was proved, has four parts:

* `Typed`: types, and how the loops of `process_graph` stand to `at` and `left`.
* `RunInv`, as long as `past` is not "exposed". Each module goes through the stages
  `Waits`, `WroteTree`, `WroteMeta`, `Finished` in one run. `DiskOK` is what rests on
  the disk: a meta describes the tree beside it, and a meta with its meta_ex are what a
  run without a cache would have written for *some* version of the sources. It does not
  matter which version, and different modules may have different ones. `Finished` says that
  interface, hash and diagnostics are those of a run without a cache.
* `ColdInv`: up to the first edit all the files are those of one version; this is why
  faults of any kind do no harm in that time.
* `SettledInv`: after a run without faults every module is `Kept`, so every SCC is fresh.

`FreshIsRight` is the heart: an SCC that `find_stale_sccs` takes as fresh has the
interfaces and the diagnostics of a run without a cache. Faults after the first edit are what
the two violated properties of section 4.2 are about, and `Described` alone is not
inductive there.

`WorkerLifecycleProofs`: `AlwaysTypeOK`, `AlwaysNoProtocolError`,
`AlwaysHandover`, `AlwaysOptionsWhileAwaited` and `AlwaysNoStatusFileLeft`, for any
number of workers, of deaths and of writes that time out. Assumptions:
`NumWorkersAssumption`, `LifecycleBounds`. The inductive invariant, which TLC also
checks on two workers:

* `InOrder`: what is under way to a worker is at most one message of the
  handshake, the one it waits for, and behind it at most the order to stop.
* `Staged`: the state of a worker process says how far it is; as long as its
  connect thread runs nothing has been exchanged.
* `Progress`: coordinator and worker are at most one step apart. A worker has
  taken the step, and its acknowledgement is unread exactly if the loop in
  `wait_ack` has not come to it. This is what makes the next broadcast the
  message that everybody waits for, and `Handover` follows at the last one.
* `Linked`: who is connected has written its status file and will not write it
  again; nothing is removed or closed before the connect threads are joined.

`TakeFrame` and `WriteFrames` say what one read and one write do to a channel;
then there is one lemma per action.

`WatcherProofs`: `AlwaysContentNotOlder` and `AlwaysRememberedIsBuilt`, for any files,
texts, clock and sequence of requests, with an editor that writes and deletes between
any two accesses. Assumptions: `SizeAssumption`, `ClockAssumption`, `NothingAssumption`,
`NoStatAssumption` (the marks for "nothing" and "no file" are no stats).

* `IInv`: `Dated` (no stat that is kept is of a later time than the file has now),
  `LookedFor` (in a transaction a file is looked for before it is read: this is what
  `update_sources` and `find_changed` are for, and without it, as the mutant
  `StartUnseen` shows, a content may be older than the stat beside it), `Tidy` (which
  variables are in use in which phase).
* `RInv`: from one phase of a transaction to the next, which files are `Agreed` (what
  was processed is what a read returns for the rest of the transaction), `Noted`
  (looked at, and still to be processed with the text whose hash is remembered) and
  `Settled` (another look takes no note of anything). It needs the hypothesis
  `TRUE \notin BusyEdits`: nobody writes while the native parser works. The run
  `watcher_native` shows that it cannot be dropped.

Also in `WatcherProofs`: `AlwaysUpToDate`, no edit is lost. Besides the above it assumes `Habit`:
what the watcher cannot tell apart, two texts of one size within one second, is not
written (`Grain` covers `Second`). On top of `IInv` and `RInv`:

* `Stamped`: whatever is kept of a file (its stat, the remembered data, the file
  itself) has a stamp that the file has had, and a file that has the stamp it was
  looked for with is the version that was read.
* `Telling`: a file that looks the same as remembered has the text that was remembered.
  It needs `Stamped`, since what was remembered may be older than this transaction.
* `Cached`: the caches are true of the files that were not written.
* `Owing`: files that were processed and not remembered are still to be looked at.
* `Current`: in every phase, the watched files that nobody has written are processed
  with their present text, or are among those the phase has still to tell of.

`ProcessesProofs`: `AlwaysFramingTypeOK`, `AlwaysMessagesInOrder`,
`AlwaysNothingLeftUnread` and `AlwaysNothingIsLost`, for any number of connections, any
messages, any size of header and of `recv`, and peers that close in the middle of
a frame. The only assumption on data is `HeaderAssumption`: `struct.unpack` undoes
`struct.pack` for every size in use. No induction over data is needed: the invariant
`InStream` says that there is one sequence of bytes per connection, cut at the ends of
the frames, and that what was received, what is in the buffer, what is on the wire and
what is not written yet lie in it one behind the other. Reading a frame moves one cut
from the buffer to the received part. `NothingIsLost`, which no run has, says that a
connection that is open and drained has delivered every message whose sending had begun.

`ProcessesProofs`: `AlwaysDaemonTypeOK` for any clients that give any commands, and
`AlwaysStatusIsTrue` and `AlwaysRemovesOwnFile` for any number of clients, servers and
faults, under the hypothesis `OneStarter`: at most one client has commands that start a
server (it may be any of them, and the others may do everything else), and no server takes longer to
start than a client waits for it. Both are needed: section 4.2 has two starters, and
with a slow server even one of them overlaps with itself. TLC checked the invariant
with three servers, two faults, a client with `start`, `restart`, `run` and `stop`, and one
with `check`, `status`, `stop` and `kill` (8.5 million states).

* `TalkInv`: what passes between clients and servers. `AllHeld`: a connection that is up
  belongs to a client that waits on it, with the command it asks for; `ClientHas` and
  `ServerHas`: each client is in at most one conversation, and what state it is in.
* `FileInv`: `OneCurrent`: at most one server is starting or will still use the status
  file; `FileOf`: which file there is in each state of a server; `Awaited`: a server
  that is still starting has a client that waits for it; `Stopped` and `Free`: a
  client that was told that the server stopped, or is going to be, finds no server
  that will use the file when it starts the next. The order in `cmd_stop`, file first and
  answer second, is what keeps `Free`.

`ProcessesTyped` puts these together with `WorkerLifecycleProofs`: a step of `MCProcesses` is a step
of one of the three and leaves the variables of the others alone (`StepOfParts`), so
the three inductive invariants hold side by side.

`FineGrainedUpdateProofs`: `UpdateTyped`, `KnownBlockersAreReal`, `GraphAsInFullBuild`,
`DependenciesAreLoaded`, `ReachableAreLoaded`, `AnswersOfFullBuild`, `BlockersAreReal` and
`AnswersAfterBlockers`, for any number of modules,
any versions of their files and any sources, any number of increments with any edits, import
cycles and chains of re-exports. The assumption is `UpdateAssumption`: re-exports are
imports, no module imports itself, and every chain of re-exports ends.

`UpdateTyped` holds for all projects. `KnownBlockersAreReal` supposes `NoSyntaxErrors`, and allows blocking errors of
semantic analysis and files that come and go; 4.1 shows why: a new module with a
syntax error is remembered under the path of the module that imports it. The next four suppose
`Steady`: no version of a file is `Absent` or has a blocking error. What is left is any
change of contents, imports, re-exports and sources. Every part of that is needed, as TLC showed
on projects wider than those of the run. If files come and go, an import that was missing is loaded by
`find_added_suppressed` for the sake of any module in the graph, also of one that the same
increment removes a moment later: it stays in the graph, though nothing imports it
(`GraphIsReachable` and `OnlyReachableLoaded` fail). A blocking error stops the increment before
it has looked at all imports, with the same effect. `LoadedWithDependencies` is violated in a run.

The last two allow blocking errors of semantic analysis in any version of any file, and suppose
`Unchanging`: no version is `Absent` or has a syntax error, the versions of a file differ in what they
define and re-export but not in what they import, and sources may change as long as they bring in the
same modules. This is what remains of the daemon's promise with blocking errors: TLC finds
`SameAsFullBuild` and `BlockerIsReal` violated in projects of three modules where a
module with a blocking error is reached by an import that is edited meanwhile, or only from some of the
sources: the blocking error goes on being reported when a full build would not meet it, or
is forgotten although one would.

* *Recursion without induction.* Rounds of propagation, re-processing in the order of names,
  lists without duplicates and `FullLook` are recursive functions. `Iterating` shows that they exist,
  by a least counterexample (`Smallest`), and `FullLooks` that the one along chains of re-exports does:
  if `Chains` gives every module a rank, the functions defined up to a rank can be extended by one.
* `Typed(T)`: every variable has its type, and the entries of all lists are in `T`. With
  `T` all pairs of a module and a path it is the type invariant. Without syntax errors `T` may be
  `OwnFiles`: no module is ever mistaken for the file of another.
* `BlockerKnown`: the module with the blocking error is known to the watcher as bad, or its file is on the
  list of what has changed; until the update comes to it, it is `blocking`.
* `GraphInv`. `GraphAtRest` says what is so between increments: the graph is that of a full build, with
  the files as they are. `GraphFollowed` is what imports are followed with: an edge out of the graph leads to something
  pending; whatever was visited, and is not in the queue, has its present contents and its imports visited; the
  rest of the old graph is as on the disk or is a changed file that was not visited. Hence, when the
  queue is empty, what was visited is closed under imports and contains the sources: it is the full
  build, since nothing else is ever visited. `GraphReduced` is what is left to delete.
* `ErrorsInv`. At any time the interface of each module is what its contents give with the interfaces it sees,
  and every module with errors is in `targetsWithErrors`. `previous_messages` are all
  errors between updates; during an update `manager.errors` has those of the modules that were
  processed since, and no wrong ones. A round of propagation keeps `InRounds`: a module that is not about to be
  checked again has its interface and its errors right, or no error is known of it and it is one
  of those that `FinishUpdate` checks once more. This holds in the middle of a round as well
  because a module that looked at an interface before it changed looks again in the next round: `Watched` says that
  the dependency map has every importer.
* `OneFace`: with chains that end there is only one way to give interfaces to modules such that each is what its
  contents give. So the interfaces that increments arrive at, in whatever order and through whatever import
  cycles, are those of a full build, and `AnswersOfFullBuild` follows.

* `ProgramInv`, which TLC checked on 246,416 states of two projects before it was proved. The graph holds the same modules
  at all times (`ProgramLoaded`), so an update never loads another module with the one it
  processes. `Followed`: imports are followed wherever they lead, although updates are blocked on
  the way. `NothingForgotten`: a module whose tree is not that of its file is one of three: a changed file
  that was not visited yet, one of `pending`, or, while a blocking error is remembered, one of `stale` or the
  blocker itself. This is what the bookkeeping of `blocking_error` and `stale` is for: `Blocked` puts
  what was pending there, and `Restarted` shows that the next update, whatever starts it,
  takes it all up again.
* `AnswersInv` joins `ErrorsKnown` to it. A module that cannot be analysed gets its old state back
  (`FailedIs`), so interfaces, dependencies and targets are right all along, and `messages` are once
  an update goes through; `ErrorsCarried` does the rest for both invariants.

What the daemon does after `MAX_ITER` rounds is part of this: it dies, and gives no answer.

`SemanticDeferralProofs`: `AlwaysDeferralTypeOK`, `AlwaysDeferralEnds`,
`AlwaysHungOnlyByNames`, `AlwaysNamesStay`, `AlwaysSymbolsAreDefinitions`,
`AlwaysNamesAsMeant`, `AlwaysErrorsAsMeant` and `AlwaysOnlyMistakes`, the first five for any
modules, programs and orders of analysis, cyclic definitions and mistakes included.
Assumptions: `ProgramAssumption`, `OrderAssumption`, `NullAssumption` (the mark for "no
module" is no module, `*` is no name) and `DeferralBounds` (finitely many modules and
names). That the loop ends is a property of safety here: `EveryRoundGains` bounds the
number of iterations by what has been gained, and `AlwaysHungOnlyByNames` says what this
means for `MAX_ITERATIONS`: it is out of reach of a cycle with less than `(MAX_ITERATIONS - 1) / 3`
names in all its modules together. The proof goes in three steps:

* `Improves`: what takes the place of a symbol has come further, from nothing to a
  placeholder, to a placeholder for a type, to a symbol that stays. `Follows` says what
  an operation of the analyzer on one name does: no other name changes, the name only
  improves, `progress` is only set where the name changes, and what is missing is
  deferred (`Sound`). There is one lemma per operation, from `AddSymbol` to
  `AnalyzeClass`, and `VisitFollows` puts them together for a statement.
* `DeferralInv`, which TLC checked on a million states before it was proved.
  `PassIsCurrent`: the analyzer's state between two targets, and that the final iteration
  waits for nothing. `RoundsAreEarned`: an iteration that is not the final one starts with
  as many gains as there were iterations before it, and `any_progress` or `progress`
  means that there is one more. `PlaceholdersAreAwaited`: for each placeholder in the table of a
  module there is a statement of this module that gives the name, and the module will be visited
  again or has not come to it. This is what makes `NothingLeftOpen` true, and it is
  where every early return of the visits counts.
* `GainsGrow`: gains are never lost, and a table that changes has more of them.

`SymbolsAreDefinitions` is inductive on top of `DeferralInv`. That the definition is the
*right* one is `AlwaysNamesAsMeant`; `AlwaysErrorsAsMeant` says that what is reported is
exactly what is wrong, and `AlwaysOnlyMistakes` that no other report is made on the way.
The first supposes `UndefinedWithoutStars`: a name that is imported, or used as a base, and does not
exist is looked for in a module without star imports. Cyclic definitions are included, and so are
mistakes of all four kinds: a name defined twice, a base that is a function, a base that is not defined, an
import of what the module does not have. The other two suppose in addition that every name that exists
means something (`~Cyclic`). `Settled` leaves out what 3.10 says about star imports.

The hypothesis has a reason, which TLC shows: a module can complete its namespace through a star import
in an iteration that binds no name. This is no progress, the next iteration is the final one, and it starts
while a name is not bound only because a statement waited to learn that another name does not exist: in
`class x(y)` followed by `from a import *`, say, and `x` imported by `a` (`FinalHasAll` fails). The final
iteration binds these names after all, since it takes the modules in the same order as the one before it,
and the properties hold in the run; the argument below does not reach there.

* *What names mean.* `Names` and `Meaning` are functions by recursion over the number of
  steps. `Iterating` shows by a least counterexample that such a function exists. `NamesAre`
  says that for programs without star chains the number of steps is enough to reach the fixed
  point, `MeansAre` that a meaning that was found rests on meanings that were found
  (`Succ`), and `Grounded` that every set of names with a meaning has one that rests on
  nothing else in the set. It is not shown, nor needed, that `Meaning` is a fixed point.
* `NamesInv`, which TLC checked on the 2.4 million states of the run's programs. `OnlyTheirNames`; `CompleteHaveAll`: a
  namespace that is not in `incomplete_namespaces` has an entry for each of its names,
  bound or not, so that what is not there (`Lacks`) is really missing and may be reported. `BoundAsMeant`: what is
  bound is bound right. `PassKnows` is what carries it: for each statement that the pass has
  left behind, each name it gives is bound, or is in `missing_names` and so closed to
  what comes later in the file, or a star import has brought a placeholder; `Redefines` leaves
  out the programs in which this last case matters. `FirstPassGains`: a module without star imports
  is complete after its first pass, and that pass makes progress.
* The final iteration. `NoProgressNoHope` says of an iteration without progress that each name
  that means something is bound, or rests on one that is not, or some first pass is still
  to come (a statement that waits to learn whether a name exists at all waits for the first
  pass of a module without star imports). So if the iteration ends like this (`NothingMoreToBind`), the unbound names
  that mean something would be a set without a grounded element: there are none, and the final iteration finds
  all of them bound (`FinalHasAll`). This is "Give up. It's impossible to bind all names" in `semanal_main.py`.
* `ReportsInv`: nothing but `Mistakes` is reported, and the mistakes in the statements
  behind the analyzer have been reported unless the module is deferred and comes again. Per
  statement, `VisitReports`. Whether a definition is the first one of its name is decided
  in the code by comparing symbols, and `MeaningAt` and `FirstOrNot` are why this is right
  even when the symbol came round a cycle of imports.

### 5.1 What is model-checked only

* `BuildEnds`, `BuildsEnd`, `CommandsEnd`: liveness is out of TLAPS's reach here.
* `maxBatch` and the sizes of batches: sums over sets are folds, and induction
  over data is out of reach. `Typed` does not mention `maxBatch`; the proofs hold
  for any choice of batches.
* `FineGrainedUpdate` where files come and go, or where blocking errors meet imports that change:
  `SameAsFullBuild`, `GraphIsReachable`, `LoadedWithDependencies` and `OnlyReachableLoaded` are theorems for
  projects without files that come and go and without blocking errors, `SameAsFullBuild` also for those with blocking errors
  whose imports stay, and none can be a theorem for all: see the section on `FineGrainedUpdateProofs`.
* `TypesOK` of `MCDaemonCheck`: it puts the type invariants of `Watcher`, `FineGrainedUpdate` and
  `SemanticDeferral` side by side. Each is proved where its module is (that of `Watcher` as a part of
  the invariant `IInv`); `MCDaemonCheck` itself reaches the recursive operators of `Binder`.
* `NamesAsMeant` and `ErrorsAsMeant` of `SemanticDeferral` for programs in which a name that does
  not exist is looked for in a module with star imports, and `ErrorsAsMeant` for programs
  with cyclic definitions: which of the names of a cycle becomes `Any` first depends on the order.
* `Binder`, `DataFlow` and `RefCounts`: recursive operators and fixed points over data.

## 6. What is not modelled, and why

* Typing rules, semantic analysis of statements other than those in 3.10, type
  operations, message wording: sequential, data-heavy rules of a language, and the
  larger part of the repository by lines (`checker.py`, `checkexpr.py`, `semanal.py`,
  `types.py`, `messages.py`, ...). Their specification is the language's; a
  model would repeat the code case by case. What they compute is left open in the
  models of the build, which makes those more general, not less.
* The deferral of nodes in the checker, error watchers and ignores, subtype caches,
  `graph_utils.py`: within reach, see the plan.
* Contents of messages and cache entries beyond what decides freshness.
* Options, plugins and versions as reasons for a stale entry: they only make
  `inherent` larger.
* The fine-grained cache (`--cache-fine-grained`), bazel mode, and
  `--skip-cache-mtime-checks`, which change what is validated.
* Two `mypy` processes on one cache directory.
* Windows pipes; the POSIX branch of `ipc.py` is the one read.
* In the daemon: packages (ancestors, submodules that appear), several targets
  per module, stubs, `--follow-imports` other than normal (`Watcher` has both ways of
  looking at files), `suggest` and `inspect`, and changes of options.
* In the binder: declarations of `Any`, partial types, tuples of types that
  conditional assignments give, `--allow-redefinition`, warnings of unreachable code.
* In mypyc: the building of IR, lowering, C text and the runtime, generators,
  error values that overlap with values and the bitmaps that go with them,
  operations that always fail, and the optional passes.
* Vendored code: typeshed, googletest, base64.
