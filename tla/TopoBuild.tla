----------------------------- MODULE TopoBuild ------------------------------
(***************************************************************************)
(* What mypy's coordinator promises about a build, whatever the number of  *)
(* workers and whatever was in the cache: modules become interface-ready   *)
(* in dependency order, each of them once, the diagnostics of a module are *)
(* reported only after its interface is ready and at most once, and a      *)
(* build that ends well has left nothing unchecked or unreported.          *)
(***************************************************************************)
CONSTANTS SCC,   \* the strongly connected components of the import graph
          Deps   \* [SCC -> SUBSET SCC], the direct dependencies of each one

VARIABLES done,      \* SCCs whose interface is final
          fresh,     \* the SCCs of done taken over from the cache
          reported,  \* SCCs whose diagnostics have been flushed by this build
          outcome    \* "running", then "ok", "blocker" or "crash"

avars == <<done, fresh, reported, outcome>>

AInit == done = {} /\ fresh = {} /\ reported = {} /\ outcome = "running"

\* Some SCCs become interface-ready, some of them because their cache is fresh.
Complete(S) ==
  /\ outcome = "running"
  /\ S # {}
  /\ \A s \in S : Deps[s] \subseteq done
  /\ done' = done \cup S
  /\ \E F \in SUBSET S : fresh' = fresh \cup F
  /\ UNCHANGED <<reported, outcome>>

\* Rechecked SCCs have their diagnostics flushed.  Interface and implementation
\* responses of different workers may come out of one wait, hence both at once.
Report(R) ==
  /\ outcome = "running"
  /\ R # {}
  /\ reported' = reported \cup R
  /\ UNCHANGED <<done, fresh, outcome>>

Succeed ==
  /\ outcome = "running"
  /\ done = SCC
  /\ done = fresh \cup reported
  /\ outcome' = "ok"
  /\ UNCHANGED <<done, fresh, reported>>

Abort ==
  /\ outcome = "running"
  /\ outcome' \in {"blocker", "crash"}
  /\ UNCHANGED <<done, fresh, reported>>

ANext == \/ \E S \in SUBSET (SCC \ done) : Complete(S)
         \/ \E R \in SUBSET (done \ (fresh \cup reported)) : Report(R)
         \/ Succeed
         \/ Abort

ASpec == AInit /\ [][ANext]_avars

\* A final SCC rests on final SCCs only, and nothing is reported that the cache
\* was trusted for: whatever else the code does, this is what dependency order
\* in process_graph is for.
Grounded ==
  /\ \A s \in done : Deps[s] \subseteq done
  /\ fresh \subseteq done
  /\ reported \subseteq done \ fresh
=============================================================================
