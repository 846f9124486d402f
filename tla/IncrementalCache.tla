-------------------------- MODULE IncrementalCache --------------------------
(***************************************************************************)
(* The incremental cache over a sequence of runs of one process (no        *)
(* workers): three files for each module, written at different moments of  *)
(* the build, and what the next run makes of them after the sources have   *)
(* been edited, a write has failed or the process has died in between.     *)
(*                                                                         *)
(* What type checking computes is abstracted to what it depends on.  The   *)
(* interface of a module is what its source declares, with the interfaces  *)
(* that inferred types come from; an interface mentions types of other     *)
(* modules by name only.  The diagnostics of a module are its source and   *)
(* every interface that was looked at.  A hash is what is hashed.          *)
(*                                                                         *)
(* Edits do not change imports, happen between runs, and never leave both  *)
(* the size and the modification time of a file as they were.              *)
(***************************************************************************)
EXTENDS Integers, Sequences, FiniteSets, DepGraph

CONSTANTS
  Module,     \* the modules of the build
  Imports,    \* [Module -> SUBSET Module], what each imports
  Order,      \* the SCCs in the order in which they are processed
  Source,     \* [Module -> set of sources], the versions a user may save
  Nothing,    \* no file, no hash
  Faults,     \* which of noWrite, metaLost, exLost and crash may happen
  MaxFaults,  \* bound: faults
  MaxRuns     \* bound: runs of mypy

\* SCCs in the order of imports.  A source declares an interface, with the modules it
\* mentions, which it imports in some way, and those that its inferred types are
\* taken from.  Types inferred from each other within a cycle are left out.
ASSUME OrderAssumption ==
  /\ Imports \in [Module -> SUBSET Module]
  /\ Order \in Seq((SUBSET Module) \ {{}})
  /\ \A m \in Module : \E i \in DOMAIN Order : m \in Order[i]
  /\ \A i, j \in DOMAIN Order : i < j => \A m \in Order[i] : m \notin Order[j] /\ Imports[m] \cap Order[j] = {}
ASSUME SourceAssumption ==
  \A i \in DOMAIN Order : \A m \in Order[i] : \A s \in Source[m] :
    /\ DOMAIN s = {"decl", "mentions", "infers"}
    /\ s.mentions \subseteq Reach(Imports, {m}) /\ s.infers \subseteq Imports[m] \ Order[i]
ASSUME BoundsAssumption == MaxFaults \in Nat /\ MaxRuns \in Nat

Sources == UNION {Source[m] : m \in Module}
Versions == {t \in [Module -> Sources] : \A m \in Module : t[m] \in Source[m]}

\* The interfaces that a run without a cache computes from the sources t.
Clean(t) ==
  LET f[m \in Module] == [decl |-> t[m].decl, mentions |-> t[m].mentions, from |-> {f[d] : d \in t[m].infers}]
  IN  f

\* What may be in the files, and in none of them.
Interfaces == UNION {{Clean(t)[m] : m \in Module} : t \in Versions}
Hashes == [Module -> Interfaces \cup {Nothing}]
Errors == [source : Sources, seen : UNION {[S -> Interfaces] : S \in SUBSET Module}]
ASSUME NothingAssumption ==
  /\ Nothing \notin Nat /\ Nothing \notin Interfaces
  /\ Nothing \notin [interface : Interfaces, stamp : Nat]
  /\ Nothing \notin [source : Sources, stamp : Nat, interface : Interfaces, hashes : Hashes]
  /\ Nothing \notin [hashes : Hashes, errors : Errors]

VARIABLES
  src,           \* the source files
  data,          \* <module>.data: the serialized tree and the time it was written
  meta,          \* <module>.meta
  metaEx,        \* <module>.meta_ex
  run,           \* number of runs so far, which is also the time
  pc,            \* where process_graph is
  at,            \* index in Order of the SCC being processed
  left,          \* modules of it that the current loop has not reached
  interfaceHash, \* State.interface_hash
  tree,          \* interfaces computed in this run
  stamp,         \* CacheMeta.data_mtime of the meta to write, Nothing if none
  shown,         \* diagnostics shown in this run
  faults,        \* number of faults so far
  settled,       \* history: nothing was edited or went wrong since the end of a run
  past           \* history: "cold" up to the first edit, "exposed" by a fault after it
                 \* other than a call that does nothing

disk == <<data, meta, metaEx>>
memory == <<at, left, interfaceHash, tree, stamp, shown>>
runVars == <<src, disk, run, pc, memory, faults, settled, past>>

CacheInit ==
  /\ src \in Versions
  /\ data = [m \in Module |-> Nothing]
  /\ meta = [m \in Module |-> Nothing]
  /\ metaEx = [m \in Module |-> Nothing]
  /\ run = 0 /\ pc = "idle"
  /\ at = 1 /\ left = {}
  /\ interfaceHash = [m \in Module |-> Nothing] /\ tree = [m \in Module |-> Nothing]
  /\ stamp = [m \in Module |-> Nothing] /\ shown = [m \in Module |-> Nothing]
  /\ faults = 0 /\ settled = FALSE /\ past = "cold"

Current == Order[at]

\* A fault of the given kind happens in this step, or it does not.
Fault(kind) ==
  /\ kind \in Faults /\ faults < MaxFaults
  /\ faults' = faults + 1
  /\ past' = IF past = "cold" \/ kind = "noWrite" THEN past ELSE "exposed"
NoFault == UNCHANGED <<faults, past>>

(***************************************************************************)
(* Loading.  The files of a module do not change before its SCC is         *)
(* processed, so they are looked at there.                                 *)
(***************************************************************************)
\* find_cache_meta returns a pair.
Found(m) == meta[m] # Nothing /\ metaEx[m] # Nothing

\* validate_meta: the tree is the one described and the source is unchanged.
Valid(m) ==
  /\ Found(m)
  /\ data[m] # Nothing /\ data[m].stamp = meta[m].stamp
  /\ meta[m].source = src[m]

\* A run begins.  The interface hash of an invalid meta is kept all the same.
StartRun ==
  /\ pc \in {"idle", "done"} /\ run < MaxRuns
  /\ run' = run + 1
  /\ pc' = "next" /\ at' = 1 /\ left' = {}
  /\ interfaceHash' = [m \in Module |-> IF Found(m) THEN meta[m].interface ELSE Nothing]
  /\ tree' = [m \in Module |-> Nothing]
  /\ stamp' = [m \in Module |-> Nothing]
  /\ shown' = [m \in Module |-> Nothing]
  /\ UNCHANGED <<src, disk, faults, settled, past>>

Edit(m, s) ==
  /\ pc \in {"idle", "done"} /\ run < MaxRuns
  /\ s # src[m]
  /\ src' = [src EXCEPT ![m] = s]
  /\ settled' = FALSE
  /\ past' = IF past = "cold" THEN "edited" ELSE past
  /\ pc' = "idle"
  /\ UNCHANGED <<disk, run, memory, faults>>

(***************************************************************************)
(* Processing.                                                             *)
(***************************************************************************)
\* The interface of d that the process has: computed, or loaded from the cache.
Tree(d) == IF tree[d] # Nothing THEN tree[d]
           ELSE IF data[d] # Nothing THEN data[d].interface ELSE Nothing

\* Modules that m imports, and those that it reaches through mentions.
Mentions(d) == IF Tree(d) = Nothing THEN {} ELSE Tree(d).mentions
Seen(m) == Reach([d \in Module |-> Mentions(d)], Imports[m]) \ {m}
IndirectDeps(m) == Seen(m) \ Imports[m]

Interface(m) ==
  [decl |-> src[m].decl, mentions |-> src[m].mentions, from |-> {Tree(d) : d \in src[m].infers}]

Diagnostics(m) == [source |-> src[m], seen |-> [d \in Seen(m) |-> Tree(d)]]

\* Mutation of FreshSCC: the hashes in meta_ex are not compared.
FreshByDirect ==
  \A m \in Current : Valid(m) /\ \A d \in Module : meta[m].hashes[d] \in {Nothing, interfaceHash[d]}

\* find_stale_sccs.
FreshSCC ==
  \A m \in Current :
    /\ Valid(m)
    /\ \A d \in Module : {meta[m].hashes[d], metaEx[m].hashes[d]} \subseteq {Nothing, interfaceHash[d]}

Skip ==
  /\ pc = "next" /\ at <= Len(Order)
  /\ FreshSCC
  /\ shown' = [m \in Module |-> IF m \in Current THEN metaEx[m].errors ELSE shown[m]]
  /\ at' = at + 1
  /\ UNCHANGED <<src, disk, run, pc, left, interfaceHash, tree, stamp, faults, settled, past>>

\* process_stale_scc_interface up to the writes.
Check ==
  /\ pc = "next" /\ at <= Len(Order)
  /\ ~FreshSCC
  /\ tree' = [m \in Module |-> IF m \in Current THEN Interface(m) ELSE tree[m]]
  /\ pc' = "data" /\ left' = Current
  /\ UNCHANGED <<src, disk, run, at, interfaceHash, stamp, shown, faults, settled, past>>

\* One module of the current loop is done with; the next loop follows the last.
Step(m, next) ==
  /\ m \in left
  /\ IF left = {m} THEN left' = Current /\ pc' = next
                   ELSE left' = left \ {m} /\ pc' = pc

\* Mutation of Written: a tree is written once.
WrittenOnce(m) == data[m] = Nothing

\* write_cache: is the tree to be written?
Written(m) == interfaceHash[m] # tree[m]

\* Mutation of Now: the stamp is ahead of the clock.
NowAhead == run + 1

\* The time that a file written now is stamped with.
Now == run

\* write_cache for one module: the tree is written if the interface differs from
\* the one in the meta that was found; noWrite makes the call a no-op.
WriteData(m) ==
  /\ pc = "data" /\ Step(m, "meta")
  /\ interfaceHash' = [interfaceHash EXCEPT ![m] = tree[m]]
  /\ \/ /\ data' = IF Written(m) THEN [data EXCEPT ![m] = [interface |-> tree[m], stamp |-> Now]] ELSE data
        /\ stamp' = [stamp EXCEPT ![m] = IF data'[m] = Nothing THEN Nothing ELSE data'[m].stamp]
        /\ NoFault
     \/ /\ Fault("noWrite")
        /\ UNCHANGED <<data, stamp>>
  /\ UNCHANGED <<src, meta, metaEx, run, at, tree, shown, settled>>

\* Mutation of DepHashes: the hashes of the metas on disk.
DepHashesOnDisk(S) == [d \in Module |-> IF d \in S /\ meta[d] # Nothing THEN meta[d].interface ELSE Nothing]

\* dep_hashes for the modules of S.
DepHashes(S) == [d \in Module |-> IF d \in S THEN interfaceHash[d] ELSE Nothing]

\* write_cache_meta for one module, unless write_cache gave up.
WriteMeta(m) ==
  /\ pc = "meta" /\ Step(m, "implementation")
  /\ \/ /\ meta' = IF stamp[m] = Nothing THEN meta
                   ELSE [meta EXCEPT ![m] = [source |-> src[m], stamp |-> stamp[m], interface |-> interfaceHash[m],
                                             hashes |-> DepHashes(Imports[m])]]
        /\ NoFault
     \/ stamp[m] # Nothing /\ Fault("metaLost") /\ meta' = meta
  /\ UNCHANGED <<src, data, metaEx, run, at, interfaceHash, tree, stamp, shown, settled>>

\* process_stale_scc_implementation for one module.
WriteMetaEx(m) ==
  /\ pc = "implementation"
  /\ m \in left
  /\ IF left = {m} THEN left' = {} /\ pc' = "next" /\ at' = at + 1
                   ELSE left' = left \ {m} /\ UNCHANGED <<pc, at>>
  /\ shown' = [shown EXCEPT ![m] = Diagnostics(m)]
  /\ \/ /\ metaEx' = IF stamp[m] = Nothing THEN metaEx
                     ELSE [metaEx EXCEPT ![m] = [hashes |-> DepHashes(IndirectDeps(m)), errors |-> Diagnostics(m)]]
        /\ NoFault
     \/ stamp[m] # Nothing /\ Fault("exLost") /\ metaEx' = metaEx
  /\ UNCHANGED <<src, data, meta, run, interfaceHash, tree, stamp, settled>>

EndRun ==
  /\ pc = "next" /\ at > Len(Order)
  /\ pc' = "done"
  /\ settled' = (faults = 0)
  /\ UNCHANGED <<src, disk, run, memory, faults, past>>

\* The process is interrupted; what has been written stays.
Interrupt ==
  /\ pc \notin {"idle", "done"}
  /\ Fault("crash")
  /\ pc' = "idle"
  /\ UNCHANGED <<src, disk, run, memory, settled>>

NoMoreRuns == run = MaxRuns /\ pc \in {"idle", "done"} /\ UNCHANGED runVars

CacheNext == \/ StartRun \/ Skip \/ Check \/ EndRun \/ Interrupt \/ NoMoreRuns
        \/ \E m \in Module : \/ WriteData(m) \/ WriteMeta(m) \/ WriteMetaEx(m)
                             \/ \E s \in Source[m] : Edit(m, s)

CacheSpec == CacheInit /\ [][CacheNext]_runVars

(***************************************************************************)
(* Properties.                                                             *)
(***************************************************************************)
CacheTypeOK ==
  /\ \A m \in Module : src[m] \in Source[m]
  /\ \A m \in Module : data[m] # Nothing => data[m].stamp \in 1 .. run
  /\ \A m \in Module : stamp[m] # Nothing => stamp[m] \in 1 .. run
  /\ run \in 0 .. MaxRuns /\ faults \in 0 .. MaxFaults
  /\ pc \in {"idle", "next", "data", "meta", "implementation", "done"}
  /\ at \in 1 .. Len(Order) + 1
  /\ left \subseteq Module
  /\ settled \in BOOLEAN
  /\ past \in {"cold", "edited", "exposed"}

\* What a build without any cache would find.
CleanDiagnostics(m) ==
  [source |-> src[m],
   seen |-> [d \in Reach([e \in Module |-> src[e].mentions], Imports[m]) \ {m} |-> Clean(src)[d]]]

\* An incremental run shows what a run without a cache would show, after any
\* edits and any earlier runs.
LikeACleanBuild ==
  pc = "done" => \A m \in Module : shown[m] = CleanDiagnostics(m)

\* The time stamps do what validate_meta relies on: a meta that carries the time
\* of the data file describes the tree in it, as long as every meta is written.
MetaDescribesData ==
  past # "exposed" => \A m \in Module :
    meta[m] # Nothing /\ data[m] # Nothing /\ meta[m].stamp = data[m].stamp
      => meta[m].interface = data[m].interface

\* Running again without having edited anything rechecks nothing, import cycles
\* included.
NothingToRecheck == settled => pc \notin {"data", "meta", "implementation"}

\* write_cache's docstring: correct "when any given write_cache() call is replaced
\* with a no-op"; and whatever else goes wrong while the cache is first filled is
\* harmless too: repeat the run, edit, and run again.
FaultsAreHarmless == past # "exposed" => LikeACleanBuild

\* The comments on failing writes: all that a lost meta file costs is that the
\* next run finds an out-of-date entry.
LostMetaOnlyCostsTime == LikeACleanBuild

\* The user's documentation: the cache is there "to avoid unnecessary recomputation".
\* Interrupting a run does not change what the next one finds.
InterruptOnlyCostsTime == LikeACleanBuild
=============================================================================
