------------------------------ MODULE MCBuild -------------------------------
(***************************************************************************)
(* What a sequence of builds leaves in the cache (IncrementalCache), and   *)
(* one build with several workers (ParallelBuild).  The second takes what  *)
(* the first leaves as given: any mixture of fresh, stale and missing      *)
(* entries; so every behaviour is one of one of them, and the other rests. *)
(***************************************************************************)
EXTENDS ParallelBuild, IncrementalCache

CONSTANTS Parts

VARIABLES part   \* the part that this behaviour is about

allVars == <<part, vars, runVars>>

-----------------------------------------------------------------------------
(* The build: 4 imports 1 and 3, and 3 imports 2.  When the cache was      *)
(* written, 2 still imported 1.                                            *)

BranchesSCCs == 1..4
Branches == <<{}, {}, {2}, {1, 3}>>
BranchesOld == <<{}, {1}, {2}, {1, 3}>>
BranchesSizes == <<1, 2, 1, 1>>

-----------------------------------------------------------------------------
(* The sequence of builds. *)

Text(decl, mentions, infers) == [decl |-> decl, mentions |-> mentions, infers |-> infers]

\* 2 and 3 import each other, 2 imports 1 and 4 imports 3.  What 4 depends on
\* besides 3 comes and goes with what 2 and 3 mention.
WholeModules == 1..4
WholeImports == <<{}, {1, 3}, {2}, {3}>>
WholeOrder == <<{1}, {2, 3}, {4}>>
WholeSource == <<{Text("a", {}, {}), Text("b", {}, {})},
                 {Text("a", {}, {}), Text("a", {1}, {}), Text("a", {}, {1})},
                 {Text("a", {}, {}), Text("a", {2}, {})},
                 {Text("a", {}, {})}>>

\* 2 imports 1.
PairModules == 1..2
PairImports == <<{}, {1}>>
PairOrder == <<{1}, {2}>>
PairSource == <<{Text("a", {}, {}), Text("b", {}, {})}, {Text("a", {}, {}), Text("b", {}, {})}>>

-----------------------------------------------------------------------------
\* The part that a behaviour is not about rests in some initial state: nothing is
\* cached, and the sources are some version of them.
BuildRests ==
  /\ inherent = SCC /\ store = [s \in SCC |-> NoHash]
  /\ depHash = [s \in SCC |-> [d \in SCC |-> NoHash]]
CacheRests == src = [m \in Module |-> CHOOSE s \in Source[m] : TRUE]

AllInit ==
  /\ part \in Parts
  /\ IF part = "build" THEN TRUE ELSE BuildRests
  /\ IF part = "cache" THEN TRUE ELSE CacheRests
  /\ CacheInit /\ Init

AllNext ==
  \/ part = "cache" /\ CacheNext /\ UNCHANGED <<part, vars>>
  \/ part = "build" /\ Next /\ UNCHANGED <<part, runVars>>

BuildSpec == AllInit /\ [][AllNext]_allVars
=============================================================================
