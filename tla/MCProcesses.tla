---------------------------- MODULE MCProcesses -----------------------------
(***************************************************************************)
(* The processes around a build and their connections: the workers of a    *)
(* parallel build, the daemon with its clients, and the stream of bytes    *)
(* that both send their messages over.  They have no state in common, so   *)
(* every behaviour is one of one of them, and the others rest.             *)
(***************************************************************************)
EXTENDS WorkerLifecycle, Daemon, Framing

CONSTANTS Parts, NumServers

VARIABLES part   \* the part that this behaviour is about

allVars == <<part, vars, daemonVars, streamVars>>

\* One user starts servers, another one uses and stops them.
Users == {1, 2}
Alone == <<{"start", "restart", "run"}, {"check", "status", "stop", "kill"}>>
Servers == 1 .. NumServers

\* Two messages from each of two peers, one of which may close.
Peers == {1, 2}
Lengths == <<<<1, 2>>, <<2, 1>>>>

AllInit == part \in Parts /\ Init /\ DaemonInit /\ FramingInit

Is(p) == part = p /\ UNCHANGED part
WorkersStep(Step) == Is("workers") /\ Step /\ UNCHANGED <<daemonVars, streamVars>>
DaemonStep(Step) == Is("daemon") /\ Step /\ UNCHANGED <<vars, streamVars>>
StreamStep(Step) == Is("stream") /\ Step /\ UNCHANGED <<vars, daemonVars>>
AllNext == WorkersStep(Next) \/ DaemonStep(DaemonNext) \/ StreamStep(FramingNext)

\* The fairness of the two specifications that have one.
AllFairness ==
  /\ WF_allVars(WorkersStep(Main))
  /\ \A w \in Worker : WF_allVars(WorkersStep(ConnectThread(w))) /\ WF_allVars(WorkersStep(HandleSignal(w)))
  /\ \A c \in Client : WF_allVars(DaemonStep(ClientStep(c)))
  /\ \A p \in Pid : WF_allVars(DaemonStep(ServerStep(p)))

ProcessesSpec == AllInit /\ [][AllNext]_allVars /\ AllFairness

-----------------------------------------------------------------------------
(* The properties of the parts keep their names, but for two. *)

\* Every variable of the three parts keeps its type.
TypesOK == TypeOK /\ DaemonTypeOK /\ FramingTypeOK

\* build() returns and leaves no worker process behind.
BuildsEnd == part = "workers" => BuildEnds
=============================================================================
