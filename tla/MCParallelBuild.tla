-------------------------- MODULE MCParallelBuild ---------------------------
(***************************************************************************)
(* A small import graph for ParallelBuild; MCBuild has another one.         *)
(***************************************************************************)
EXTENDS ParallelBuild

\* Three SCCs to start with and a fourth on two of them: batches for fewer workers.
FanSCCs == 1..4
Fan == <<{}, {}, {}, {1, 2}>>
FanSizes == <<1, 1, 2, 1>>
=============================================================================
