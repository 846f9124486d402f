-------------------------- MODULE FineGrainedUpdate -------------------------
(***************************************************************************)
(* The daemon's fine-grained increments when it follows imports: finding   *)
(* out which modules changed (dmypy_server.py), and processing them one at *)
(* a time with propagation to what depends on them (server/update.py),     *)
(* with blocking errors, new and deleted files, roots that come and go.    *)
(*                                                                         *)
(* A module has one target, its top level.  Its interface is 0 or 1, or    *)
(* that of a module it re-exports; it complains of every import that is    *)
(* missing or has interface 1.  Files change between increments only: the  *)
(* file system cache gives each increment one snapshot.                    *)
(***************************************************************************)
EXTENDS Integers, FiniteSets, SequencesExt, DepGraph

CONSTANTS
  Modules,  \* module names, numbers in their alphabetical order; 0 is none
  Projects, \* what users may be working on: the versions of each file, with
            \* [imports, decl, reexports, bad] each, and the sets of sources
  Absent,   \* no such file
  Unwatched

Contents == [imports : SUBSET Modules, decl : {0, 1}, reexports : SUBSET Modules,
            bad : {"no", "parse", "semantic"}]

\* What users may write to the disk.
Disks(q) ==
  {D \in [Modules -> UNION {q.versions[m] : m \in Modules}] : \A m \in Modules : D[m] \in q.versions[m]}

\* Re-exports are imports, and every chain of them ends in a definition; an import
\* of itself is not a dependency of a module.
UpdateBounds ==
  /\ IsFiniteSet(Modules) /\ Modules = 1 .. Cardinality(Modules)
  /\ Absent \notin Contents /\ Unwatched \notin Contents \cup {Absent}
  /\ \A q \in Projects :
       /\ q.roots \subseteq SUBSET Modules
       /\ q.versions \in [Modules -> SUBSET (Contents \cup {Absent})]
       /\ \A m \in Modules : \A v \in q.versions[m] \ {Absent} :
            v.reexports \subseteq v.imports /\ m \notin v.imports
       /\ \A D \in Disks(q) : \E rank \in [Modules -> Modules] :
            \A m \in {m \in Modules : D[m] # Absent} : \A i \in D[m].reexports : rank[i] < rank[m]
ASSUME UpdateAssumption == UpdateBounds

VARIABLES
  project,  \* one of Projects
  files,    \* contents of each file, a version or Absent
  \* The server.
  pc,       \* "idle", "daemon", "update", or dead: "crashed", "endless"
  step,     \* where fine_grained_increment_follow_imports is
  roots,    \* the sources of this increment
  lastSeen,  \* contents as FileSystemWatcher knows them
  changedFiles, queue, visited, origModules, \* locals, `visited` is `seen`
  previousSources,
  \* The fine-grained build manager.
  graph,    \* [path, tree, deps, iface] of each module in the graph, NotLoaded
  deps,     \* the dependency map: who looks at the module's interface
  complaints,   \* manager.errors: complaints of each module
  targetsWithErrors, \* previous_targets_with_errors
  previousModules,
  messages, \* previous_messages: errors, or the module with a blocker
  blockingError, stale, \* across updates
  pending, initialSet, removedSet, blocking, lastId \* locals of update()

diskVars   == <<project, files, roots>>
serverVars == <<step, lastSeen, changedFiles, queue, visited, origModules, previousSources>>
keptVars   == <<graph, deps, complaints, targetsWithErrors, previousModules, messages,
                blockingError, stale>>
localVars  == <<pending, initialSet, removedSet, blocking, lastId>>
updateVars == <<pc, diskVars, serverVars, keptVars, localVars>>

NotLoaded == [path |-> 0]
NoEntry      == [id |-> 0, path |-> 0]
Missing   == -1
NoErrors  == [m \in Modules |-> {}]
MAX_ITER  == 1000

InGraph(g)  == {m \in Modules : g[m] # NotLoaded}
Targets(e)  == {m \in Modules : e[m] # {}}
Entry(m, p) == [id |-> m, path |-> p]
Ids(list)   == {list[i].id : i \in DOMAIN list}

(***************************************************************************)
(* Checking one module.                                                    *)
(***************************************************************************)
\* What a module sees of the others.  A file that is there and not in the graph
\* is not complained of (find_module_and_diagnose finds it): it is Any.
Lookup(D, g) == [i \in Modules |-> IF g[i] # NotLoaded THEN g[i].iface
                                  ELSE IF D[i] = Absent THEN Missing ELSE 0]

\* The interface of a missing module is taken as harmless (Any).
Interface(v, look) ==
  IF v.reexports = {} THEN v.decl
  ELSE LET i == CHOOSE i \in v.reexports : TRUE IN IF look[i] = Missing THEN 0 ELSE look[i]

Complaints(v, look) == {i \in v.imports : look[i] # 0}

\* reprocess_nodes, for every module of todo in the order of their names: what is
\* seen of each module after the first k ones.
Reprocess(g, look, todo) ==
  LET looks[k \in 0 .. Cardinality(Modules)] ==
        IF k = 0 THEN look
        ELSE IF k \notin todo THEN looks[k - 1]
        ELSE [looks[k - 1] EXCEPT ![k] = Interface(g[k].tree, looks[k - 1])]
  IN  looks

\* One round of propagate_changes_using_dependencies: what depends on the modules
\* whose interface changed in the round before is checked again.
Todo(d, g, r) == (((UNION {d[t] : t \in r.triggered}) \cup r.withErrors) \cap InGraph(g)) \ r.upToDate
Round(d, g, r) ==
  LET todo  == Todo(d, g, r)
      looks == Reprocess(g, r.look, todo)
      after == looks[Cardinality(Modules)]
  IN  [look       |-> after,
       errors     |-> [m \in Modules |-> IF m \in todo THEN Complaints(g[m].tree, looks[m - 1]) ELSE r.errors[m]],
       triggered  |-> {m \in todo : after[m] # r.look[m]},
       upToDate   |-> {},
       withErrors |-> {}]

FirstRound(look, e, triggered, upToDate, withErrors) ==
  [look |-> look, errors |-> e, triggered |-> triggered, upToDate |-> upToDate,
   withErrors |-> withErrors]
IsSettled(r) == r.triggered = {} /\ r.withErrors = {}
WithLook(g, look) ==
  [m \in Modules |-> IF g[m] = NotLoaded THEN NotLoaded ELSE [g[m] EXCEPT !.iface = look[m]]]

\* Rounds until no interface changes any more.  After MAX_ITER rounds the daemon
\* dies of a RuntimeError.
Propagate(d, g, start) ==
  LET round[n \in 0 .. MAX_ITER] == IF n = 0 THEN start ELSE Round(d, g, round[n - 1])
      last == round[CHOOSE n \in 0 .. MAX_ITER : IsSettled(round[n]) \/ n = MAX_ITER]
  IN  [graph |-> WithLook(g, last.look), errors |-> last.errors, settled |-> IsSettled(last)]

(***************************************************************************)
(* FineGrainedBuildManager.update.                                         *)
(***************************************************************************)
\* dedupe_modules: the first entry of each module stays.
Dedupe(list) ==
  LET first[n \in 0 .. Len(list)] ==
        IF n = 0 THEN <<>>
        ELSE IF list[n].id \in Ids(first[n - 1]) THEN first[n - 1] ELSE Append(first[n - 1], list[n])
  IN  first[Len(list)]

Without(list, m) ==
  LET others[n \in 0 .. Len(list)] ==
        IF n = 0 THEN <<>>
        ELSE IF list[n].id = m THEN others[n - 1] ELSE Append(others[n - 1], list[n])
  IN  others[Len(list)]

\* Mutation of StartUpdate: what a blocking error left undone is forgotten.
StartWithoutStale(changed, removed) ==
  IF changed = <<>> /\ removed = <<>>
  THEN pc' = "daemon" /\ UNCHANGED <<keptVars, localVars>>
  ELSE LET all == Dedupe(changed \o removed)
       IN  /\ pc' = "update"
           /\ pending' = IF blockingError = NoEntry THEN all ELSE Dedupe(<<blockingError>> \o all)
           /\ initialSet' = Ids(all) /\ removedSet' = Ids(removed)
           /\ blocking' = blockingError.id /\ blockingError' = NoEntry /\ lastId' = 0
           /\ UNCHANGED <<graph, deps, complaints, targetsWithErrors, previousModules, messages, stale>>

\* The part of update() before its loop.
StartUpdate(changed, removed) ==
  IF changed = <<>> /\ removed = <<>>
  THEN pc' = "daemon" /\ UNCHANGED <<keptVars, localVars>>
  ELSE LET all == Dedupe(changed \o removed \o stale)
       IN  /\ pc' = "update"
           /\ pending' = IF blockingError = NoEntry THEN all ELSE Dedupe(<<blockingError>> \o all)
           /\ initialSet' = Ids(all) /\ removedSet' = Ids(removed)
           /\ blocking' = blockingError.id /\ blockingError' = NoEntry /\ lastId' = 0
           /\ UNCHANGED <<graph, deps, complaints, targetsWithErrors, previousModules, messages, stale>>

IsNext(m, p) == pc = "update" /\ pending # <<>> /\ Head(pending) = Entry(m, p)

\* update_one: a module with a blocker that has left the import graph is dropped.
IsSkipped(m) == m = blocking /\ m \notin previousModules /\ m \notin initialSet

SkipBlocker(m, p) ==
  /\ IsNext(m, p) /\ IsSkipped(m)
  /\ pending' = Tail(pending) /\ lastId' = m
  /\ UNCHANGED <<pc, diskVars, serverVars, keptVars, initialSet, removedSet, blocking>>

\* The rest of update_module and update_one, once m is built (or deleted) as in
\* g with complaints e: propagate, and go on with what remains.
Propagated(m, g, e, triggered, remaining) ==
  LET r == Propagate(deps', g, FirstRound(Lookup(files, g), e, triggered, {m}, {}))
  IN  /\ graph' = r.graph /\ complaints' = r.errors
      /\ targetsWithErrors' = targetsWithErrors \cup Targets(r.errors)
      /\ previousModules' = InGraph(r.graph)
      /\ pending' = Dedupe(remaining \o Without(Tail(pending), m))
      /\ lastId' = m
      /\ pc' = IF r.settled THEN pc ELSE "endless"
      /\ UNCHANGED <<messages, blockingError, stale, initialSet, removedSet, blocking>>

DeleteModule(m, p) ==
  /\ IsNext(m, p) /\ ~IsSkipped(m)
  /\ (files[p] = Absent \/ m \in removedSet)
  /\ deps' = deps
  /\ Propagated(m, [graph EXCEPT ![m] = NotLoaded], NoErrors, {m}, <<>>)
  /\ UNCHANGED <<diskVars, serverVars>>

\* The source of each module when m is loaded from the file of p.
Sources(m, p) == [files EXCEPT ![m] = files[p]]

\* load_graph: m and the modules it brings in that are not in the graph yet.
NewModules(m, p) ==
  LET candidate == {i \in Modules \ InGraph(graph) : files[i] # Absent} \ {m}
      Edge(n)   == IF Sources(m, p)[n] = Absent \/ Sources(m, p)[n].bad = "parse" THEN {}
                   ELSE Sources(m, p)[n].imports \cap candidate
  IN  Reach([n \in Modules |-> Edge(n)], {m})

\* A parse error, or a file found under two names.
Unloadable(m, p) ==
  LET new == NewModules(m, p)
      used == {p} \cup {graph[i].path : i \in InGraph(graph) \ {m}}
  IN  {n \in new : Sources(m, p)[n].bad = "parse" \/ (n # m /\ n \in used)}

\* The update ends with a blocker in m, which is remembered with path p.
Blocked(m, p, remaining) ==
  /\ blockingError' = Entry(m, p)
  /\ stale' = Dedupe(remaining \o Without(Tail(pending), m))
  /\ messages' = [blocker |-> m, errors |-> NoErrors]
  /\ complaints' = NoErrors
  /\ previousModules' = InGraph(graph')
  /\ pending' = <<>> /\ pc' = "daemon"
  /\ UNCHANGED <<deps, targetsWithErrors, initialSet, removedSet, blocking, lastId>>

CanLoad(m, p) == IsNext(m, p) /\ ~IsSkipped(m) /\ files[p] # Absent /\ m \notin removedSet

\* update_module_isolated: load_graph raises, everything is as before.
LoadFails(m, p) ==
  /\ CanLoad(m, p)
  /\ graph' = graph
  /\ \E b \in Unloadable(m, p) : Blocked(b, p, <<>>)
  /\ UNCHANGED <<diskVars, serverVars>>

\* find_relative_leaf_module.
Leaf(m, p) ==
  LET new    == NewModules(m, p)
      leaves == {n \in new : Sources(m, p)[n].imports \cap (new \ {n}) = {}}
  IN  Min(IF leaves = {} THEN new ELSE leaves)

\* The graph after loading, with only the leaf of the new modules kept: restore()
\* puts back m as it was and drops the others.  Suppressed imports that load_graph
\* found in the graph stay dependencies.
LoadedGraph(m, p) ==
  LET x     == Leaf(m, p)
      v     == Sources(m, p)[x]
      there == (InGraph(graph) \ {m}) \cup NewModules(m, p)
      old   == [n \in Modules |->
                 IF n = m \/ graph[n] = NotLoaded THEN graph[n]
                 ELSE [graph[n] EXCEPT !.deps = @ \cup (graph[n].tree.imports \cap there)]]
      fresh == [path |-> IF x = m THEN p ELSE x, tree |-> v, deps |-> v.imports \cap there,
                iface |-> 0]
  IN  [old EXCEPT ![x] = fresh]

\* The other new modules, m first, are left to the caller.
Remaining(m, p) ==
  LET others == NewModules(m, p) \ {Leaf(m, p)}
  IN  {[i \in DOMAIN s |-> Entry(s[i], IF s[i] = m THEN p ELSE s[i])] :
         s \in {s \in SetToSeqs(others) : m \in others => Head(s) = m}}

\* Semantic analysis of the module chosen raises: it is dropped, or restored.
AnalysisFails(m, p) ==
  /\ CanLoad(m, p) /\ Unloadable(m, p) = {}
  /\ LET x == Leaf(m, p)
     IN  /\ Sources(m, p)[x].bad = "semantic"
         /\ graph' = [LoadedGraph(m, p) EXCEPT ![x] = IF x = m THEN graph[x] ELSE NotLoaded]
         /\ \E rest \in Remaining(m, p) : Blocked(x, IF x = m THEN p ELSE x, rest)
  /\ UNCHANGED <<diskVars, serverVars>>

\* The module chosen is analysed and checked; its trigger fires if it is new or
\* if its interface has changed.
ProcessModule(m, p) ==
  /\ CanLoad(m, p) /\ Unloadable(m, p) = {}
  /\ LET x    == Leaf(m, p)
         v    == Sources(m, p)[x]
         g    == LoadedGraph(m, p)
         look == Lookup(files, g)
         face == Interface(v, look)
     IN  /\ v.bad = "no"
         /\ deps' = [i \in Modules |-> IF i \in v.imports THEN deps[i] \cup {x} ELSE deps[i]]
         /\ \E rest \in Remaining(m, p) :
              Propagated(x, [g EXCEPT ![x].iface = face], [NoErrors EXCEPT ![x] = Complaints(v, look)],
                         IF graph[x] = NotLoaded \/ graph[x].iface # face THEN {x} ELSE {}, rest)
  /\ UNCHANGED <<diskVars, serverVars>>

\* Mutation of FinishUpdate: previous_messages is not brought up to date.
FinishQuietly ==
  /\ pc = "update" /\ pending = <<>>
  /\ LET r == Propagate(deps, graph, FirstRound(Lookup(files, graph), complaints, {}, {lastId}, targetsWithErrors))
     IN  /\ graph' = r.graph /\ complaints' = r.errors
         /\ targetsWithErrors' = Targets(r.errors)
         /\ pc' = IF r.settled THEN "daemon" ELSE "endless"
  /\ UNCHANGED <<messages, deps, diskVars, serverVars, previousModules, blockingError, stale,
                 localVars>>

\* Nothing is pending: check the targets that had errors once more.
FinishUpdate ==
  /\ pc = "update" /\ pending = <<>>
  /\ deps' = deps
  /\ LET r == Propagate(deps, graph, FirstRound(Lookup(files, graph), complaints, {}, {lastId}, targetsWithErrors))
     IN  /\ graph' = r.graph /\ complaints' = r.errors
         /\ targetsWithErrors' = Targets(r.errors)
         /\ messages' = [blocker |-> 0, errors |-> r.errors]
         /\ pc' = IF r.settled THEN "daemon" ELSE "endless"
  /\ UNCHANGED <<diskVars, serverVars, previousModules, blockingError, stale, localVars>>

(***************************************************************************)
(* Server.fine_grained_increment_follow_imports.                           *)
(***************************************************************************)
PathOf(g, m) == IF g[m] = NotLoaded THEN m ELSE g[m].path

\* find_reachable_changed_modules: follow imports from S through unchanged
\* modules that were not visited before.
Reached(g, S, before, changed) ==
  Reach([m \in Modules |-> IF g[m] = NotLoaded \/ PathOf(g, m) \in changed THEN {}
                          ELSE g[m].deps \ before], S)

\* Every order of the modules of S, with their paths.
Entries(g, S) == {[i \in DOMAIN s |-> Entry(s[i], PathOf(g, s[i]))] : s \in SetToSeqs(S)}

\* Mutation of ExplicitlyNew: only changed files matter.
NothingNew(R, edited) == {}

\* add_explicitly_new: sources that come back are checked though they are unchanged.
ExplicitlyNew(R, edited) == (R \ previousSources) \ edited

\* The client asks for a check after any edit of the files.
CheckFiles(R, D) ==
  LET known   == {m \in Modules : lastSeen[m] # Unwatched} \cup R
      changed == {m \in known : D[m] # (IF lastSeen[m] = Unwatched THEN Absent ELSE lastSeen[m])}
      reached == Reached(graph, R, R, changed)
      edited  == {m \in reached : PathOf(graph, m) \in changed}
  IN  /\ pc = "idle"
      /\ \A m \in R : D[m] # Absent
      /\ files' = D /\ roots' = R
      /\ lastSeen' = [m \in Modules |-> IF m \in known THEN D[m] ELSE Unwatched]
      /\ changedFiles' = changed
      /\ visited' = reached /\ origModules' = InGraph(graph)
      /\ step' = "follow"
      /\ \E s \in Entries(graph, edited), t \in Entries(graph, ExplicitlyNew(R, edited)) :
           /\ queue' = s \o t
           /\ StartUpdate(s \o t, <<>>)
      /\ UNCHANGED <<project, previousSources>>

\* Go on from a module that was processed: its imports may have changed too.
FollowImports ==
  /\ pc = "daemon" /\ step = "follow" /\ queue # <<>>
  /\ LET m       == Last(queue).id
         reached == Reached(graph, graph[m].deps \ visited, visited, changedFiles)
     IN  IF graph[m] = NotLoaded
         THEN queue' = Front(queue) /\ UNCHANGED <<pc, visited, keptVars, localVars>>
         ELSE IF graph[m].deps \cup reached \subseteq InGraph(graph)
         THEN /\ visited' = visited \cup reached
              /\ \E s \in Entries(graph, {n \in reached : PathOf(graph, n) \in changedFiles}) :
                   /\ queue' = Front(queue) \o s
                   /\ StartUpdate(s, <<>>)
         ELSE pc' = "crashed" /\ UNCHANGED <<queue, visited, keptVars, localVars>>  \* KeyError
  /\ UNCHANGED <<diskVars, step, lastSeen, changedFiles, origModules, previousSources>>

\* Mutation of Unsuppressed: imports are taken from the dependency map, where
\* those of old versions stay.
UnsuppressedByMap ==
  {i \in (Modules \ InGraph(graph)) \ visited : files[i] # Absent /\ deps[i] # {}}

\* find_added_suppressed: imports that were missing and now have a file.
Unsuppressed ==
  {i \in (Modules \ InGraph(graph)) \ visited :
     files[i] # Absent /\ \E m \in InGraph(graph) : i \in graph[m].tree.imports \ graph[m].deps}

AddSuppressed ==
  /\ pc = "daemon" /\ step = "follow" /\ queue = <<>>
  /\ visited' = visited \cup Unsuppressed
  /\ lastSeen' = [m \in Modules |-> IF m \in Unsuppressed /\ lastSeen[m] = Unwatched
                                  THEN Absent ELSE lastSeen[m]]
  /\ step' = IF Unsuppressed = {} THEN "delete" ELSE "follow"
  /\ \E s \in Entries(graph, Unsuppressed) : StartUpdate(s, <<>>)
  /\ UNCHANGED <<diskVars, changedFiles, queue, origModules, previousSources>>

\* Modules of the graph that nothing imports any more.
DeleteUnreached ==
  /\ pc = "daemon" /\ step = "delete"
  /\ step' = "finish"
  /\ \E s \in Entries(graph, (origModules \cap InGraph(graph)) \ visited) : StartUpdate(<<>>, s)
  /\ UNCHANGED <<diskVars, lastSeen, changedFiles, queue, visited, origModules, previousSources>>

\* Mutation of FinishIncrement: no fix_module_deps.
FinishAsIs ==
  /\ pc = "daemon" /\ step = "finish"
  /\ previousSources' = InGraph(graph)
  /\ lastSeen' = [m \in Modules |->
                  IF lastSeen[m] # Unwatched \/ \E n \in InGraph(graph) : graph[n].path = m
                  THEN files[m] ELSE Unwatched]
  /\ pc' = "idle" /\ step' = "none"
  /\ changedFiles' = {} /\ queue' = <<>> /\ visited' = {} /\ origModules' = {}
  /\ pending' = <<>> /\ initialSet' = {} /\ removedSet' = {} /\ blocking' = 0 /\ lastId' = 0
  /\ UNCHANGED <<diskVars, keptVars>>

\* fix_module_deps, and the state of the files for the next increment.
FinishIncrement ==
  /\ pc = "daemon" /\ step = "finish"
  /\ graph' = [m \in Modules |-> IF graph[m] = NotLoaded THEN NotLoaded
                                ELSE [graph[m] EXCEPT !.deps = graph[m].tree.imports \cap InGraph(graph)]]
  /\ previousSources' = InGraph(graph)
  /\ lastSeen' = [m \in Modules |->
                  IF lastSeen[m] # Unwatched \/ \E n \in InGraph(graph) : graph[n].path = m
                  THEN files[m] ELSE Unwatched]
  /\ pc' = "idle" /\ step' = "none"
  /\ changedFiles' = {} /\ queue' = <<>> /\ visited' = {} /\ origModules' = {}
  /\ pending' = <<>> /\ initialSet' = {} /\ removedSet' = {} /\ blocking' = 0 /\ lastId' = 0
  /\ UNCHANGED <<diskVars, deps, complaints, targetsWithErrors, previousModules, messages,
                 blockingError, stale>>

(***************************************************************************)
(* A full build of the files D with roots R, to compare with.              *)
(***************************************************************************)
FullEdges(D) == [m \in Modules |-> IF D[m] = Absent \/ D[m].bad = "parse" THEN {}
                                  ELSE {i \in D[m].imports : D[i] # Absent}]
FullModules(D, R) == Reach(FullEdges(D), R)

FullBlockers(D, R) == {m \in FullModules(D, R) : D[m].bad # "no"}

\* Interfaces come out of the modules that are re-exported, recursively.
FullLook(D, R) ==
  LET mods == FullModules(D, R)
      face[m \in Modules] ==
        IF m \notin mods THEN Missing
        ELSE IF D[m].reexports = {} THEN D[m].decl
        ELSE LET i == CHOOSE i \in D[m].reexports : TRUE
             IN  IF face[i] = Missing THEN 0 ELSE face[i]
  IN  face

FullErrors(D, R) ==
  LET mods == FullModules(D, R)
      look == FullLook(D, R)
  IN  [m \in Modules |-> IF m \in mods THEN Complaints(D[m], look) ELSE {}]

(***************************************************************************)
(* The system.                                                             *)
(***************************************************************************)
\* After a first full build without blocking errors, which the daemon needs.
FirstBuild ==
  /\ project \in Projects /\ files \in Disks(project) /\ roots \in project.roots
  /\ \A m \in roots : files[m] # Absent
  /\ FullBlockers(files, roots) = {}
  /\ LET mods == FullModules(files, roots)
     IN  /\ graph = [m \in Modules |-> IF m \notin mods THEN NotLoaded
                       ELSE [path |-> m, tree |-> files[m], deps |-> files[m].imports \cap mods,
                             iface |-> FullLook(files, roots)[m]]]
         /\ deps = [i \in Modules |-> {m \in mods : i \in files[m].imports}]
         /\ lastSeen = [m \in Modules |-> IF m \in mods THEN files[m] ELSE Unwatched]
         /\ previousSources = mods /\ previousModules = mods
  /\ complaints = FullErrors(files, roots)
  /\ targetsWithErrors = Targets(complaints)
  /\ messages = [blocker |-> 0, errors |-> complaints]
  /\ blockingError = NoEntry /\ stale = <<>>
  /\ step = "none"
  /\ changedFiles = {} /\ queue = <<>> /\ visited = {} /\ origModules = {}
  /\ pending = <<>> /\ initialSet = {} /\ removedSet = {} /\ blocking = 0 /\ lastId = 0

UpdateInit == FirstBuild /\ pc = "idle"

UpdateAction ==
  \/ FinishUpdate
  \/ \E m, p \in Modules : \/ SkipBlocker(m, p) \/ DeleteModule(m, p) \/ LoadFails(m, p)
                           \/ AnalysisFails(m, p) \/ ProcessModule(m, p)

Increment == FollowImports \/ AddSuppressed \/ DeleteUnreached \/ FinishIncrement

UpdateNext == Increment \/ UpdateAction \/ \E R \in project.roots, D \in Disks(project) : CheckFiles(R, D)

UpdateSpec == UpdateInit /\ [][UpdateNext]_updateVars

(***************************************************************************)
(* Properties.                                                             *)
(***************************************************************************)
Answered == pc = "idle"

\* Every variable has its type.
UpdateTypeOK ==
  /\ project \in Projects /\ files \in Disks(project) /\ roots \in project.roots
  /\ pc \in {"idle", "daemon", "update", "crashed", "endless"}
  /\ step \in {"none", "follow", "delete", "finish"}
  /\ changedFiles \subseteq Modules /\ visited \subseteq Modules /\ origModules \subseteq Modules
  /\ previousSources \subseteq Modules /\ previousModules \subseteq Modules
  /\ \A m \in Modules : graph[m] # NotLoaded =>
       /\ graph[m].path \in Modules /\ graph[m].deps \subseteq Modules
       /\ graph[m].iface \in {0, 1}
  /\ deps \in [Modules -> SUBSET Modules] /\ complaints \in [Modules -> SUBSET Modules]
  /\ targetsWithErrors \subseteq Modules
  /\ messages.blocker \in Modules \cup {0}
  /\ Ids(pending) \cup Ids(stale) \cup Ids(queue) \subseteq Modules
  /\ initialSet \subseteq Modules /\ removedSet \subseteq Modules

\* An answer without a blocker is that of a full build of the same files: the
\* same diagnostics, however many increments, edits and blockers came before.
SameAsFullBuild ==
  Answered /\ messages.blocker = 0 =>
    /\ FullBlockers(files, roots) = {}
    /\ messages.errors = FullErrors(files, roots)

\* The graph holds what a full build would load: what an increment brings in
\* stays, and what was removed from the build stays out.  (Modules that a blocking
\* error has kept out of reach may stay behind.)
NeverBlocked == \A m \in Modules : \A v \in project.versions[m] : v # Absent => v.bad = "no"
GraphIsReachable ==
  Answered /\ NeverBlocked => InGraph(graph) = FullModules(files, roots)

\* A module is loaded only if the program as it is now imports it: one that has
\* been removed from the build does not come back by itself.
OnlyReachableLoaded ==
  [][InGraph(graph') \ InGraph(graph) \subseteq FullModules(files, roots)]_updateVars

IsBad(m) == files[m] # Absent /\ files[m].bad # "no"

\* A blocking error is reported only while its file has it: nobody is "stuck with
\* the blocking error" once it is corrected.
BlockerIsReal == Answered /\ messages.blocker # 0 => IsBad(messages.blocker)

\* The same for the modules that were there before they had the blocking error.
KnownBlockerIsReal == Answered /\ messages.blocker \in InGraph(graph) => IsBad(messages.blocker)

\* "if a module is loaded, so are all of their dependencies": whenever imports
\* are followed through the graph they are there.
LoadedWithDependencies == pc # "crashed"
=============================================================================
