--------------------------- MODULE ParallelBuild ----------------------------
(***************************************************************************)
(* mypy's parallel type checking after the handshake: the coordinator's    *)
(* process_graph loop, its scheduling queue, the worker processes' serve   *)
(* loops, the socket between each pair and the incremental cache through   *)
(* which the workers exchange interfaces.                                  *)
(*                                                                         *)
(* An SCC is one node: its modules are processed together and freshness is *)
(* a property of all of them.  An interface is its hash.  What type        *)
(* checking computes is left open: an interface may come out as any hash,  *)
(* and a module of MayBlock may raise a blocking error in either phase.    *)
(***************************************************************************)
EXTENDS Integers, FiniteSets, Sequences, Functions, DepGraph

CONSTANTS
  SCC,        \* the SCCs of the current import graph
  Worker,     \* the worker processes (options.num_workers of them, >= 1)
  Deps,       \* [SCC -> SUBSET SCC], SCC.deps
  OldDeps,    \* the same graph when the cache was written
  Size,       \* [SCC -> Nat], SCC.size_hint
  LongPole,   \* batches per worker that the queue is cut into (2 on Linux, else 1)
  Hash,       \* interface hashes
  NoHash,     \* the empty hash: nothing cached, or nothing loaded
  Recorded,   \* dependency hashes that an earlier run may have left in a meta
  MayBlock,   \* SCCs whose check may end in a blocking error
  MaxCrashes, \* bound: processes that die on their own
  MaxLost     \* bound: cache entries that cannot be written

ASSUME GraphAssumption == Deps \in [SCC -> SUBSET SCC] /\ OldDeps \in [SCC -> SUBSET SCC]
ASSUME SizeAssumption == IsFiniteSet(SCC) /\ IsFiniteSet(Worker) /\ Size \in [SCC -> Nat]
ASSUME HashAssumption == NoHash \notin Hash /\ Recorded \subseteq Hash
ASSUME BoundAssumption == LongPole \in Nat \ {0} /\ MaxCrashes \in Nat /\ MaxLost \in Nat

VARIABLES
  \* What graph loading found in the cache; constant during the build.
  inherent,      \* SCCs with a module that is not is_fresh()
  depHash,       \* depHash[s][d]: dep_hashes of s's meta, NoHash if d is not in it
  \* The coordinator.
  cpc,           \* where process_graph / build() is
  outcome,       \* how the build ended, "running" before
  ready,         \* local of process_graph
  notReady,      \* local of process_graph
  notReadyCount, \* SCC.not_ready_count
  stillWorking,  \* local of process_graph
  doneNow,       \* local `done` of process_graph
  hash,          \* State.interface_hash in the coordinator's graph
  rechecked,     \* BuildManager.rechecked_modules
  queue,         \* BuildManager.scc_queue
  maxBatch,      \* local max_size_in_batch of submit_to_workers
  free,          \* BuildManager.free_workers
  closed,        \* workers whose connection build() has closed
  done,          \* history: SCCs whose dependents have been notified
  reported,      \* history: SCCs whose diagnostics have been flushed
  \* The sockets.
  toWorker,      \* requests in flight, each the set of its scc_ids
  toCoord,       \* responses in flight
  \* The workers.
  wpc,           \* where serve() is
  batch,         \* scc_ids of the request under way
  todo,          \* those not yet through the current phase
  loaded,        \* interface hash of each SCC in BuildManager.done_sccs, else NoHash
  crashes,       \* number of processes that died on their own so far
  lost,          \* number of cache entries that could not be written so far
  \* The cache.
  store          \* interface hash of the committed cache entry, NoHash if none

cacheVars  == <<inherent, depHash>>
loopVars   == <<ready, notReady, notReadyCount, stillWorking, doneNow, done>>
coordVars  == <<cpc, outcome, loopVars, hash, rechecked, queue, maxBatch, free, closed, reported>>
faultVars  == <<crashes, lost>>
workerVars == <<wpc, batch, todo, loaded, faultVars>>
vars == <<cacheVars, coordVars, toWorker, toCoord, workerVars, store>>

Gone(w) == wpc[w] \in {"exited", "dead"}

(***************************************************************************)
(* The cache that graph loading starts from.                               *)
(***************************************************************************)
\* trans_dep_hash differs from the recorded one iff an import edge below changed.
TransChanged(s) == \E d \in TransDeps(Deps, s) \cup {s} : Deps[d] # OldDeps[d]

\* The recorded dependencies of s beyond the direct ones (PRI_INDIRECT).
Indirect(s) == {d \in SCC : depHash[s][d] # NoHash} \ Deps[s]

Init ==
  /\ inherent \in {I \in SUBSET SCC : \A s \in SCC : Deps[s] # OldDeps[s] => s \in I}
  /\ depHash \in [SCC -> [SCC -> Recorded \cup {NoHash}]]
  /\ \A s \in SCC :
       IF s \in inherent
       THEN \A d \in SCC : depHash[s][d] = NoHash    \* not consulted
       ELSE /\ \A d \in Deps[s] : depHash[s][d] # NoHash
            /\ Indirect(s) \subseteq TransDeps(OldDeps, s) \ {s}
  /\ store \in [SCC -> Recorded \cup {NoHash}]
  /\ \A s \in SCC : s \notin inherent => store[s] # NoHash
  /\ hash = store
  /\ cpc = "loop" /\ outcome = "running"
  /\ ready = {s \in SCC : Deps[s] = {}} /\ notReady = SCC \ ready
  /\ notReadyCount = [s \in SCC |-> Cardinality(Deps[s])]
  /\ stillWorking = FALSE
  /\ doneNow = {} /\ done = {} /\ rechecked = {} /\ reported = {}
  /\ queue = {} /\ maxBatch = 0
  /\ free = Worker /\ closed = {}
  /\ toWorker = [w \in Worker |-> <<>>] /\ toCoord = [w \in Worker |-> <<>>]
  /\ wpc = [w \in Worker |-> "idle"]
  /\ batch = [w \in Worker |-> {}] /\ todo = [w \in Worker |-> {}]
  /\ loaded = [w \in Worker |-> [s \in SCC |-> NoHash]]
  /\ crashes = 0 /\ lost = 0

(***************************************************************************)
(* The coordinator: process_graph.                                         *)
(***************************************************************************)
\* Mutation of Fresh: verify_transitive_deps is not called.
FreshWithoutIndirect(s) ==
  /\ s \notin inherent
  /\ \A d \in SCC : depHash[s][d] # NoHash => hash[d] = depHash[s][d]

\* find_stale_sccs: is s fresh, given the hashes the coordinator has now?
Fresh(s) ==
  /\ s \notin inherent
  /\ \A d \in SCC : depHash[s][d] # NoHash => hash[d] = depHash[s][d]
  /\ TransChanged(s) => Indirect(s) \subseteq TransDeps(Deps, s)

\* Mutation of Advance: a dependent is ready as soon as one dependency is done.
AdvanceOnFirst(D) ==
  /\ notReadyCount' = [s \in SCC |-> notReadyCount[s] - Cardinality(Deps[s] \cap D)]
  /\ ready' = {s \in notReady : Deps[s] \cap D # {}}
  /\ notReady' = notReady \ ready'
  /\ done' = done \cup D
  /\ doneNow' = {}
  /\ cpc' = "loop"

\* Mutation of Advance: every SCC is notified, not just the dependents.
AdvanceAll(D) ==
  /\ notReadyCount' = [s \in SCC |-> notReadyCount[s] - Cardinality(D)]
  /\ ready' = {s \in notReady : notReadyCount'[s] = 0}
  /\ notReady' = notReady \ ready'
  /\ done' = done \cup D
  /\ doneNow' = {}
  /\ cpc' = "loop"

\* Notify the dependents of D and start a new round with those that became ready.
Advance(D) ==
  /\ notReadyCount' = [s \in SCC |-> notReadyCount[s] - Cardinality(Deps[s] \cap D)]
  /\ ready' = {s \in SCC : Deps[s] \cap D # {} /\ notReadyCount'[s] = 0}
  /\ notReady' = notReady \ ready'
  /\ done' = done \cup D
  /\ doneNow' = {}
  /\ cpc' = "loop"

TotalSize(S) == SumFunctionOnSet(Size, S)

\* max_batch_size: an equal share of what is queued.
BatchLimit(Q) == TotalSize(Q) \div (Cardinality(Worker) * LongPole)

\* Mutation of MoreToDo: implementations under way are not waited for.
MoreReadyOrNot == ready # {} \/ notReady # {}

MoreToDo == ready # {} \/ notReady # {} \/ stillWorking

\* Mutation of FindStale: stale SCCs are passed on together with the fresh ones.
FindStaleNotifying ==
  LET stale == {s \in ready : ~Fresh(s)}
  IN  /\ cpc = "loop" /\ MoreToDo
      /\ stale # {}
      /\ rechecked' = rechecked \cup stale
      /\ queue' = queue \cup stale
      /\ maxBatch' = BatchLimit(queue')
      /\ doneNow' = ready
      /\ stillWorking' = TRUE
      /\ cpc' = "submitStale"
      /\ UNCHANGED <<ready, notReady, notReadyCount, done, outcome, hash, free, closed,
                     reported, cacheVars, toWorker, toCoord, workerVars, store>>

\* A round with stale SCCs: queue them, then hand out work.
FindStale ==
  LET stale == {s \in ready : ~Fresh(s)}
  IN  /\ cpc = "loop" /\ MoreToDo
      /\ stale # {}
      /\ rechecked' = rechecked \cup stale
      /\ queue' = queue \cup stale
      /\ maxBatch' = BatchLimit(queue')
      /\ doneNow' = ready \ stale
      /\ stillWorking' = TRUE
      /\ cpc' = "submitStale"
      /\ UNCHANGED <<ready, notReady, notReadyCount, done, outcome, hash, free, closed,
                     reported, cacheVars, toWorker, toCoord, workerVars, store>>

\* A round with fresh SCCs only: their dependents are next, without waiting.
SkipFresh ==
  /\ cpc = "loop" /\ MoreToDo
  /\ ready # {} /\ \A s \in ready : Fresh(s)
  /\ Advance(ready)
  /\ UNCHANGED <<stillWorking, outcome, hash, rechecked, queue, maxBatch, free, closed,
                 reported, cacheVars, toWorker, toCoord, workerVars, store>>

\* A round with nothing ready: wait for the workers.
StartWaiting ==
  /\ cpc = "loop" /\ MoreToDo
  /\ ready = {}
  /\ cpc' = "wait"
  /\ UNCHANGED <<loopVars, outcome, hash, rechecked, queue, maxBatch, free, closed,
                 reported, cacheVars, toWorker, toCoord, workerVars, store>>

\* get_scc_batch: the largest SCCs first, at least one, and no more than the limit.
Batches ==
  {B \in (SUBSET queue) \ {{}} :
     /\ \A a \in B, b \in queue \ B : Size[a] >= Size[b]
     /\ Cardinality(B) = 1 \/ TotalSize(B) <= maxBatch
     /\ \A b \in queue \ B : (\A c \in queue \ B : Size[b] >= Size[c])
                               => TotalSize(B) + Size[b] > maxBatch}

\* The build is over: build()'s finally clause comes next.
Leave(how) == outcome' = how /\ cpc' = "shutdown"

\* One turn of submit_to_workers' loop.
SendBatch(w) ==
  /\ cpc \in {"submitStale", "submitMore"}
  /\ w \in free /\ ~Gone(w)
  /\ \E B \in Batches :
       /\ queue' = queue \ B
       /\ toWorker' = [toWorker EXCEPT ![w] = Append(@, B)]
  /\ free' = free \ {w}
  /\ UNCHANGED <<cpc, outcome, loopVars, hash, rechecked, maxBatch, closed, reported,
                 cacheVars, toCoord, workerVars, store>>

\* The same turn when the worker's end of the socket is closed.
SendFails(w) ==
  /\ cpc \in {"submitStale", "submitMore"}
  /\ queue # {}
  /\ w \in free /\ Gone(w)
  /\ free' = free \ {w}
  /\ \E B \in Batches : queue' = queue \ B
  /\ Leave("crash")
  /\ UNCHANGED <<loopVars, hash, rechecked, maxBatch, closed, reported,
                 cacheVars, toWorker, toCoord, workerVars, store>>

Submitted == queue = {} \/ free = {}

\* Back in process_graph after submit(): fresh SCCs, if any, need no waiting.
EndSubmitStale ==
  /\ cpc = "submitStale" /\ Submitted
  /\ IF doneNow # {}
     THEN Advance(doneNow)
     ELSE /\ cpc' = "wait" /\ ready' = {}
          /\ UNCHANGED <<notReady, notReadyCount, done, doneNow>>
  /\ UNCHANGED <<stillWorking, outcome, hash, rechecked, queue, maxBatch, free, closed,
                 reported, cacheVars, toWorker, toCoord, workerVars, store>>

\* Never so in the code's loop: the early return of wait_for_done_workers is not
\* taken (the model would deadlock if it could be).
NothingSubmitted == queue = {} /\ free = Worker

Readable == {w \in Worker : toCoord[w] # <<>>}
\* Mutation of Hungup: a closed connection is not noticed.
NeverHungup == {}
Hungup   == {w \in Worker : toCoord[w] = <<>> /\ Gone(w)}
Blocking == {w \in Readable : Head(toCoord[w]).blocker}

\* Mutation of Receive: a worker counts as free from its interface response on.
ReceiveAndFree(R) ==
  LET iface == {w \in R : Head(toCoord[w]).isInterface}
      New(s) == {Head(toCoord[w]).result[s] : w \in iface} \ {NoHash}
  IN  /\ cpc = "wait" /\ ~NothingSubmitted
      /\ R # {} /\ R \subseteq Readable \ Blocking
      /\ free' = free \cup R
      /\ hash' = [s \in SCC |-> IF New(s) = {} THEN hash[s] ELSE CHOOSE h \in New(s) : TRUE]
      /\ reported' = reported \cup UNION {Head(toCoord[w]).sccs : w \in R \ iface}
      /\ doneNow' = UNION {Head(toCoord[w]).sccs : w \in iface}
      /\ toCoord' = [w \in Worker |-> IF w \in R THEN Tail(toCoord[w]) ELSE toCoord[w]]
      /\ maxBatch' = BatchLimit(queue)
      /\ cpc' = "submitMore"
      /\ UNCHANGED <<ready, notReady, notReadyCount, stillWorking, done, outcome, rechecked,
                     queue, closed, cacheVars, toWorker, workerVars, store>>

\* wait_for_done_workers: one message from each worker of R, then process_results.
\* R is every worker with something to read, or only those whose last read has
\* left bytes in the buffer (ready_to_read looks there first).
Receive(R) ==
  LET iface == {w \in R : Head(toCoord[w]).isInterface}
      New(s) == {Head(toCoord[w]).result[s] : w \in iface} \ {NoHash}
  IN  /\ cpc = "wait" /\ ~NothingSubmitted
      /\ R # {} /\ R \subseteq Readable \ Blocking
      /\ free' = free \cup (R \ iface)
      /\ hash' = [s \in SCC |-> IF New(s) = {} THEN hash[s] ELSE CHOOSE h \in New(s) : TRUE]
      /\ reported' = reported \cup UNION {Head(toCoord[w]).sccs : w \in R \ iface}
      /\ doneNow' = UNION {Head(toCoord[w]).sccs : w \in iface}
      /\ toCoord' = [w \in Worker |-> IF w \in R THEN Tail(toCoord[w]) ELSE toCoord[w]]
      /\ maxBatch' = BatchLimit(queue)
      /\ cpc' = "submitMore"
      /\ UNCHANGED <<ready, notReady, notReadyCount, stillWorking, done, outcome, rechecked,
                     queue, closed, cacheVars, toWorker, workerVars, store>>

\* The same wait when a message is a blocker or a worker has disconnected: the
\* first such one raises, and what else was received is dropped.
ReceiveFailure ==
  /\ cpc = "wait" /\ ~NothingSubmitted
  /\ \/ Blocking # {} /\ Leave("blocker")
     \/ Hungup # {} /\ Leave("crash")
  /\ UNCHANGED <<loopVars, hash, rechecked, queue, maxBatch, free, closed, reported,
                 cacheVars, toWorker, toCoord, workerVars, store>>

\* Mutation of EndSubmitMore: busy workers do not count as work.
EndSubmitMoreQueueOnly ==
  /\ cpc = "submitMore" /\ Submitted
  /\ stillWorking' = (queue # {})
  /\ Advance(doneNow)
  /\ UNCHANGED <<outcome, hash, rechecked, queue, maxBatch, free, closed, reported,
                 cacheVars, toWorker, toCoord, workerVars, store>>

EndSubmitMore ==
  /\ cpc = "submitMore" /\ Submitted
  /\ stillWorking' = (queue # {} \/ free # Worker)
  /\ Advance(doneNow)
  /\ UNCHANGED <<outcome, hash, rechecked, queue, maxBatch, free, closed, reported,
                 cacheVars, toWorker, toCoord, workerVars, store>>

\* process_graph's loop condition is false.
Finish ==
  /\ cpc = "loop" /\ ~MoreToDo
  /\ Leave("ok")
  /\ UNCHANGED <<loopVars, hash, rechecked, queue, maxBatch, free, closed, reported,
                 cacheVars, toWorker, toCoord, workerVars, store>>

(***************************************************************************)
(* The coordinator: the finally clause of build().                         *)
(***************************************************************************)
\* Ask every worker to stop; sends to broken connections are ignored.
Notify ==
  /\ cpc = "shutdown"
  /\ toWorker' = [w \in Worker |-> Append(toWorker[w], {})]
  /\ cpc' = "closing"
  /\ UNCHANGED <<outcome, loopVars, hash, rechecked, queue, maxBatch, free, closed, reported,
                 cacheVars, toCoord, workerVars, store>>

\* WorkerClient.close(), one worker after another.
Close(w) ==
  /\ cpc = "closing"
  /\ w \notin closed /\ \A v \in closed : Gone(v)
  /\ closed' = closed \cup {w}
  /\ UNCHANGED <<cpc, outcome, loopVars, hash, rechecked, queue, maxBatch, free, reported,
                 cacheVars, toWorker, toCoord, workerVars, store>>

\* proc.wait() has timed out.
Terminate(w) ==
  /\ cpc = "closing"
  /\ w \in closed /\ ~Gone(w)
  /\ wpc' = [wpc EXCEPT ![w] = "dead"]
  /\ UNCHANGED <<coordVars, cacheVars, toWorker, toCoord, batch, todo, loaded, faultVars, store>>

BuildReturns ==
  /\ cpc = "closing"
  /\ closed = Worker /\ \A w \in Worker : Gone(w)
  /\ cpc' = "returned"
  /\ UNCHANGED <<outcome, loopVars, hash, rechecked, queue, maxBatch, free, closed, reported,
                 cacheVars, toWorker, toCoord, workerVars, store>>

\* The coordinator is killed; its end of every socket is closed.
KillCoordinator ==
  /\ cpc \notin {"returned", "killed"} /\ crashes < MaxCrashes
  /\ crashes' = crashes + 1
  /\ cpc' = "killed" /\ closed' = Worker
  /\ UNCHANGED <<outcome, loopVars, hash, rechecked, queue, maxBatch, free, reported, cacheVars,
                 toWorker, toCoord, wpc, batch, todo, loaded, lost, store>>

(***************************************************************************)
(* A worker: serve().                                                      *)
(***************************************************************************)
\* Receive a request; one without SCCs is the order to stop.
ReceiveRequest(w) ==
  /\ wpc[w] = "idle" /\ toWorker[w] # <<>>
  /\ toWorker' = [toWorker EXCEPT ![w] = Tail(@)]
  /\ LET request == Head(toWorker[w])
     IN  /\ wpc' = [wpc EXCEPT ![w] = IF request = {} THEN "exited" ELSE "interface"]
         /\ batch' = [batch EXCEPT ![w] = request]
         /\ todo' = [todo EXCEPT ![w] = request]
  /\ UNCHANGED <<coordVars, cacheVars, toCoord, loaded, faultVars, store>>

\* The coordinator is gone: receive() fails.
LoseConnection(w) ==
  /\ wpc[w] = "idle" /\ toWorker[w] = <<>> /\ w \in closed
  /\ wpc' = [wpc EXCEPT ![w] = "exited"]
  /\ UNCHANGED <<coordVars, cacheVars, toWorker, toCoord, batch, todo, loaded, faultVars, store>>

\* Mutation of Missing: only direct dependencies are looked at.
MissingDirect(w, s) == {d \in Deps[s] : loaded[w][d] = NoHash}

\* maybe_load_deps: the dependencies that this process does not have yet.  The
\* walk does not go below an SCC that it has.
Missing(w, s) ==
  LET absent == {d \in SCC : loaded[w][d] = NoHash}
  IN  Reach([d \in SCC |-> Deps[d] \cap absent], Deps[s] \cap absent)

\* The next SCC of the batch is the largest one left.
IsNext(w, s) == s \in todo[w] /\ \A t \in todo[w] : Size[s] >= Size[t]

\* What w has in memory after checking s with h as the result.
LoadAndSet(w, s, h) ==
  loaded' = [loaded EXCEPT ![w] = [d \in SCC |-> IF d = s THEN h
                                                 ELSE IF d \in Missing(w, s) THEN store[d]
                                                 ELSE @[d]]]

\* process_stale_scc_interface and the commit after it: the dependencies come
\* from the store as it is, the new cache entry is there before the response,
\* or could not be written (disk full, database locked), which goes unreported.
CheckInterface(w, s, h) ==
  /\ wpc[w] = "interface" /\ IsNext(w, s)
  /\ \A d \in Missing(w, s) : store[d] # NoHash
  /\ LoadAndSet(w, s, h)
  /\ \/ store' = [store EXCEPT ![s] = h] /\ UNCHANGED lost
     \/ lost < MaxLost /\ lost' = lost + 1 /\ UNCHANGED store
  /\ todo' = [todo EXCEPT ![w] = @ \ {s}]
  /\ UNCHANGED <<coordVars, cacheVars, toWorker, toCoord, wpc, batch, crashes>>

\* reload_meta's assertion: a dependency has no cache entry.  The internal error
\* is reported on the worker's side and its process ends.
LoadFails(w, s) ==
  /\ wpc[w] = "interface" /\ IsNext(w, s)
  /\ \E d \in Missing(w, s) : store[d] = NoHash
  /\ wpc' = [wpc EXCEPT ![w] = "dead"]
  /\ UNCHANGED <<coordVars, cacheVars, toWorker, toCoord, batch, todo, loaded, faultVars, store>>

\* send() raises if the coordinator has closed the connection, and serve() ends.
Respond(w, message, next) ==
  /\ toCoord' = [toCoord EXCEPT ![w] = IF w \in closed THEN @ ELSE Append(@, message)]
  /\ wpc' = [wpc EXCEPT ![w] = IF w \in closed THEN "exited" ELSE next]

\* A blocking error in the interface phase ends work on the whole batch.
InterfaceBlocker(w, s) ==
  /\ wpc[w] = "interface" /\ IsNext(w, s) /\ s \in MayBlock
  /\ Respond(w, [isInterface |-> TRUE, blocker |-> TRUE, sccs |-> batch[w],
                 result |-> [d \in SCC |-> NoHash]], "idle")
  /\ todo' = [todo EXCEPT ![w] = {}]
  /\ UNCHANGED <<coordVars, cacheVars, toWorker, batch, loaded, faultVars, store>>

SendInterface(w) ==
  /\ wpc[w] = "interface" /\ todo[w] = {}
  /\ Respond(w, [isInterface |-> TRUE, blocker |-> FALSE, sccs |-> batch[w],
                 result |-> [d \in SCC |-> IF d \in batch[w] THEN loaded[w][d] ELSE NoHash]],
             "implementation")
  /\ todo' = [todo EXCEPT ![w] = batch[w]]
  /\ UNCHANGED <<coordVars, cacheVars, toWorker, batch, loaded, faultVars, store>>

\* process_stale_scc_implementation (what it stores is in IncrementalCache).
CheckImplementation(w, s) ==
  /\ wpc[w] = "implementation" /\ IsNext(w, s)
  /\ todo' = [todo EXCEPT ![w] = @ \ {s}]
  /\ UNCHANGED <<coordVars, cacheVars, toWorker, toCoord, wpc, batch, loaded, faultVars, store>>

ImplementationBlocker(w, s) ==
  /\ wpc[w] = "implementation" /\ IsNext(w, s) /\ s \in MayBlock
  /\ Respond(w, [isInterface |-> FALSE, blocker |-> TRUE, sccs |-> batch[w],
                 result |-> [d \in SCC |-> NoHash]], "idle")
  /\ todo' = [todo EXCEPT ![w] = {}]
  /\ UNCHANGED <<coordVars, cacheVars, toWorker, batch, loaded, faultVars, store>>

SendImplementation(w) ==
  /\ wpc[w] = "implementation" /\ todo[w] = {}
  /\ Respond(w, [isInterface |-> FALSE, blocker |-> FALSE, sccs |-> batch[w],
                 result |-> [d \in SCC |-> NoHash]], "idle")
  /\ UNCHANGED <<coordVars, cacheVars, toWorker, batch, todo, loaded, faultVars, store>>

\* The process dies on its own (killed, out of memory, internal error).
Crash(w) ==
  /\ ~Gone(w) /\ crashes < MaxCrashes
  /\ crashes' = crashes + 1
  /\ wpc' = [wpc EXCEPT ![w] = "dead"]
  /\ UNCHANGED <<coordVars, cacheVars, toWorker, toCoord, batch, todo, loaded, lost, store>>

(***************************************************************************)
(* The system.                                                             *)
(***************************************************************************)
Schedule == \/ FindStale \/ SkipFresh \/ StartWaiting
            \/ \E w \in Worker : SendBatch(w) \/ SendFails(w)
            \/ EndSubmitStale \/ (\E R \in SUBSET Worker : Receive(R)) \/ ReceiveFailure
            \/ EndSubmitMore \/ Finish

Shutdown == \/ Notify \/ BuildReturns
            \/ \E w \in Worker : Close(w) \/ Terminate(w)

Serve(w) == \/ ReceiveRequest(w) \/ LoseConnection(w)
            \/ SendInterface(w) \/ SendImplementation(w)
            \/ \E s \in SCC : \/ \E h \in Hash : CheckInterface(w, s, h)
                              \/ LoadFails(w, s)
                              \/ InterfaceBlocker(w, s)
                              \/ CheckImplementation(w, s)
                              \/ ImplementationBlocker(w, s)

\* Every process is gone.
Over == cpc \in {"returned", "killed"} /\ (\A w \in Worker : Gone(w)) /\ UNCHANGED vars

Next == Schedule \/ Shutdown \/ KillCoordinator \/ Over \/ \E w \in Worker : Serve(w) \/ Crash(w)

\* Nobody stops taking steps: the coordinator is a sequential program, and type
\* checking one batch ends.  Nothing is assumed of crashes.
Fairness == /\ WF_vars(Schedule) /\ WF_vars(Shutdown)
            /\ \A w \in Worker : WF_vars(Serve(w))

Spec == Init /\ [][Next]_vars
FairSpec == Spec /\ Fairness
(***************************************************************************)
(* Properties.                                                             *)
(***************************************************************************)
Message == [isInterface : BOOLEAN, blocker : BOOLEAN, sccs : SUBSET SCC,
            result : [SCC -> Hash \cup {NoHash}]]

\* Types, the counters aside (and maxBatch, a sum of sizes).
Typed ==
  /\ inherent \subseteq SCC
  /\ depHash \in [SCC -> [SCC -> Hash \cup {NoHash}]]
  /\ cpc \in {"loop", "submitStale", "submitMore", "wait", "shutdown", "closing", "returned", "killed"}
  /\ outcome \in {"running", "ok", "blocker", "crash"}
  /\ ready \subseteq SCC /\ notReady \subseteq SCC /\ doneNow \subseteq SCC
  /\ stillWorking \in BOOLEAN
  /\ hash \in [SCC -> Hash \cup {NoHash}] /\ store \in [SCC -> Hash \cup {NoHash}]
  /\ rechecked \subseteq SCC /\ done \subseteq SCC /\ reported \subseteq SCC
  /\ queue \subseteq SCC
  /\ free \subseteq Worker /\ closed \subseteq Worker
  /\ toWorker \in [Worker -> Seq(SUBSET SCC)]
  /\ toCoord \in [Worker -> Seq(Message)]
  /\ wpc \in [Worker -> {"idle", "interface", "implementation", "exited", "dead"}]
  /\ batch \in [Worker -> SUBSET SCC] /\ todo \in [Worker -> SUBSET SCC]
  /\ loaded \in [Worker -> [SCC -> Hash \cup {NoHash}]]
  /\ crashes \in 0 .. MaxCrashes /\ lost \in 0 .. MaxLost

\* Every variable has its type.  That not_ready_count never becomes negative is
\* more than a type: a second notification from one dependency would make it so.
TypeOK == Typed /\ notReadyCount \in [SCC -> Nat]

\* An SCC is queued, or worked on by a worker, only once every SCC it depends on
\* is final: the scheduler's counters respect the import graph under any
\* interleaving of responses.
DependenciesFirst ==
  /\ \A s \in queue : Deps[s] \subseteq done
  /\ \A w \in Worker : \A s \in batch[w] : Deps[s] \subseteq done

\* What a worker has in memory for an SCC, checked there or loaded from the
\* cache, is what the cache holds and, once the SCC is final, what the
\* coordinator believes: no worker works with an interface of an earlier run or
\* one another worker has replaced.
WorkersAgree ==
  \A w \in Worker : \A s \in SCC :
    loaded[w][s] # NoHash =>
      /\ loaded[w][s] = store[s]
      /\ s \in done => loaded[w][s] = hash[s]

\* write_cache's docstring says that "mypy's behavior is still correct when any
\* given write_cache() call is replaced with a no-op": in whatever way the
\* workers get it, they know the interface that the coordinator has.
NoOpIsHarmless ==
  \A w \in Worker : \A s \in done : loaded[w][s] \in {NoHash, hash[s]}

\* What a worker has loaded is closed under dependencies, though maybe_load_deps
\* stops its walk at the first SCC that is already in done_sccs.
LoadedIsClosed ==
  \A w \in Worker : \A s \in SCC :
    loaded[w][s] # NoHash => \A d \in Deps[s] : loaded[w][d] # NoHash

\* A module taken over from the cache stays justified to the end of the build:
\* all the dependencies recorded for it, indirect ones included, are final with
\* the interface it was checked against.
FreshIsJustified ==
  \A s \in done \ rechecked : \A d \in SCC :
    depHash[s][d] # NoHash => d \in done /\ hash[d] = depHash[s][d]

\* A build that ends well has made every SCC final, flushed the diagnostics of
\* every SCC it rechecked, and leaves no worker with unfinished work that the
\* shutdown could cut short and no response (a blocker, perhaps) unread.
GoodBuildIsComplete ==
  outcome = "ok" =>
    /\ done = SCC
    /\ reported = rechecked
    /\ \A w \in Worker : toCoord[w] = <<>> /\ wpc[w] \notin {"interface", "implementation"}

\* free_workers says who is free: a worker in it has no request, no work and no
\* unread response, so that no second batch is ever sent to a busy worker.
FreeMeansFree ==
  \A w \in free : cpc \notin {"closing", "returned", "killed"} =>
    /\ toWorker[w] = <<>> /\ toCoord[w] = <<>>
    /\ wpc[w] \in {"idle", "dead"}

\* Final means final: the hash and the cache entry of an SCC whose dependents
\* have been notified never change again, in whatever order responses arrive.
FinalIsFinal ==
  [][\A s \in done : hash'[s] = hash[s] /\ store'[s] = store[s]]_vars

\* The parallel build implements the abstract one.
Abstract == INSTANCE TopoBuild WITH fresh <- done \ rechecked
ImplementsTopoBuild == Abstract!ASpec

\* build() returns, or its process is killed, and no worker process is left
\* behind, whatever blocks, crashes or cannot be written.
BuildEnds == <>(cpc \in {"returned", "killed"} /\ \A w \in Worker : Gone(w))
=============================================================================
