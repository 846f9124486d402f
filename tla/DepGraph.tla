------------------------------ MODULE DepGraph ------------------------------
(***************************************************************************)
(* Dependency graphs of mypy's build: a graph is a function from nodes to  *)
(* the set of nodes each one depends on directly (SCC.deps, or             *)
(* State.dependencies below PRI_INDIRECT).  Reachability is defined as a   *)
(* least fixed point, without recursion, so that it can be reasoned about. *)
(***************************************************************************)

\* M contains what it depends on.
ClosedUnder(D, M) == \A m \in M : D[m] \subseteq M

\* The nodes reachable from roots along D, roots included: the least set that
\* contains roots and is closed under D.
Reach(D, roots) ==
  {n \in DOMAIN D : \A M \in SUBSET DOMAIN D :
                      roots \subseteq M /\ ClosedUnder(D, M) => n \in M}

\* The transitive dependencies of n (n itself only if it is on a cycle).
TransDeps(D, n) == Reach(D, D[n])

\* No node is among its own transitive dependencies.
Acyclic(D) == \A n \in DOMAIN D : n \notin TransDeps(D, n)
=============================================================================
