--------------------------- MODULE WorkerLifecycle --------------------------
(***************************************************************************)
(* The life of the build workers around ParallelBuild: spawning, the       *)
(* options and status files, the connect threads, the three-step handshake *)
(* and the end, in whatever phase it comes.  What goes on between the      *)
(* handshake and the end is ParallelBuild; here it is one step.            *)
(*                                                                         *)
(* Time is not modelled: whatever waits with a timeout may give up at any  *)
(* moment before what it waits for is there.                               *)
(***************************************************************************)
EXTENDS Integers, Sequences

CONSTANTS
  NumWorkers, \* options.num_workers
  MaxDeaths,  \* bound: workers that die on their own
  MaxTorn     \* bound: writes of the coordinator that time out

ASSUME NumWorkersAssumption == NumWorkers \in Nat \ {0}
ASSUME LifecycleBounds == MaxDeaths \in Nat /\ MaxTorn \in Nat

Worker == 1 .. NumWorkers

\* What the coordinator sends during the handshake; each is acknowledged.
Steps == <<"sources", "graph", "sccs">>

VARIABLES
  cpc,        \* where build() is in the main thread
  stage,      \* which acknowledgement the main thread is at
  idx,        \* workers that have acknowledged it: wait_ack's loop
  outcome,    \* how the body of build()'s try statement ended
  tpc,        \* where each worker's connect thread is
  connected,  \* WorkerClient.connected
  options,    \* the options file exists
  status,     \* status[w]: "none", "partial" while being written, "written"
  wpc,        \* where each worker process is
  wstage,     \* which step of the handshake each worker waits for
  toWorker,   \* frames in flight, "torn" for one whose end is missing
  toCoord,
  closed,     \* workers whose connection the coordinator has closed
  waited,     \* workers whose close() is over
  signalled,  \* workers that have been sent SIGTERM
  deaths, torn

fileVars   == <<options, status>>
connVars   == <<tpc, connected>>
mainVars   == <<cpc, stage, idx, outcome, closed, waited, signalled>>
workerVars == <<wpc, wstage>>
faultVars  == <<deaths, torn>>
vars == <<mainVars, connVars, fileVars, workerVars, toWorker, toCoord, faultVars>>

Gone(w) == wpc[w] \in {"exited", "dead"}

Init ==
  /\ cpc = "load" /\ stage = 1 /\ idx = 0 /\ outcome = "running"
  /\ tpc = [w \in Worker |-> "polling"] /\ connected = [w \in Worker |-> FALSE]
  /\ options = TRUE /\ status = [w \in Worker |-> "none"]
  /\ wpc = [w \in Worker |-> "starting"] /\ wstage = [w \in Worker |-> 1]
  /\ toWorker = [w \in Worker |-> <<>>] /\ toCoord = [w \in Worker |-> <<>>]
  /\ closed = {} /\ waited = {} /\ signalled = {}
  /\ deaths = 0 /\ torn = 0

(***************************************************************************)
(* The connect threads.                                                    *)
(***************************************************************************)
\* write_bytes from the coordinator to the workers of S: the socket's timeout may
\* cut a frame, or come before its first byte.  The exception ends the writing
\* thread, or is passed over: nobody sees it.
Write(S, message) ==
  \E sent \in [S -> {<<message>>, <<"torn">>, <<>>}] :
    /\ torn' = torn + (IF \A w \in S : sent[w] = <<message>> THEN 0 ELSE 1) /\ torn' <= MaxTorn
    /\ toWorker' = [w \in Worker |-> IF w \in S THEN toWorker[w] \o sent[w] ELSE toWorker[w]]

\* The status file is there: connect, unless nobody listens any more.
Connect(w) ==
  /\ tpc[w] = "polling" /\ status[w] = "written"
  /\ connected' = [connected EXCEPT ![w] = ~Gone(w)]
  /\ tpc' = [tpc EXCEPT ![w] = IF Gone(w) THEN "ended" ELSE "writing"]
  /\ UNCHANGED <<mainVars, fileVars, workerVars, toWorker, toCoord, faultVars>>

\* WORKER_START_TIMEOUT has passed without a well-formed status file.
GiveUp(w) ==
  /\ tpc[w] = "polling" /\ status[w] # "written"
  /\ tpc' = [tpc EXCEPT ![w] = "ended"]
  /\ UNCHANGED <<mainVars, connected, fileVars, workerVars, toWorker, toCoord, faultVars>>

SendSources(w) ==
  /\ tpc[w] = "writing"
  /\ Write({w}, Steps[1])
  /\ tpc' = [tpc EXCEPT ![w] = "ended"]
  /\ UNCHANGED <<mainVars, connected, fileVars, workerVars, toCoord, deaths>>

(***************************************************************************)
(* The main thread of the coordinator.                                     *)
(***************************************************************************)
AllJoined == \A w \in Worker : tpc[w] = "ended"

\* The try statement of build() is over.
Leave(how) == outcome' = how /\ cpc' = "finally"

\* Plugins and the graph are loaded while the workers start.  That may end with
\* an error, or there may be nothing to process (no sources, --dump-graph).
Load ==
  /\ cpc = "load"
  /\ \/ cpc' = "join" /\ UNCHANGED outcome
     \/ \E how \in {"CompileError", "ok"} : Leave(how)
  /\ UNCHANGED <<stage, idx, closed, waited, signalled, connVars, fileVars, workerVars,
                 toWorker, toCoord, faultVars>>

\* dispatch: every worker must be there before process_graph.
Join ==
  /\ cpc = "join" /\ AllJoined
  /\ IF \A w \in Worker : connected[w]
     THEN cpc' = "ack" /\ UNCHANGED outcome
     ELSE Leave("OSError")
  /\ UNCHANGED <<stage, idx, closed, waited, signalled, connVars, fileVars, workerVars,
                 toWorker, toCoord, faultVars>>

\* Mutation of WaitAck: it goes on with the first acknowledgement.
WaitAnyAck ==
  /\ cpc = "ack" /\ idx = 0
  /\ \E w \in Worker : /\ toCoord[w] # <<>>
                       /\ toCoord' = [toCoord EXCEPT ![w] = Tail(@)]
  /\ idx' = NumWorkers
  /\ UNCHANGED <<cpc, stage, outcome, closed, waited, signalled, connVars, fileVars,
                 workerVars, toWorker, faultVars>>

\* wait_ack: one worker after another.
WaitAck ==
  /\ cpc = "ack" /\ idx < NumWorkers
  /\ toCoord[idx + 1] # <<>>
  /\ toCoord' = [toCoord EXCEPT ![idx + 1] = Tail(@)]
  /\ idx' = idx + 1
  /\ UNCHANGED <<cpc, stage, outcome, closed, waited, signalled, connVars, fileVars,
                 workerVars, toWorker, faultVars>>

\* receive() fails, because the worker has closed the connection or has not
\* answered in time.  Then proc.wait() either sees the process end, or its own
\* TimeoutExpired, which no handler there catches, takes the place of the error.
AckFails ==
  /\ cpc = "ack" /\ idx < NumWorkers
  /\ toCoord[idx + 1] = <<>>
  /\ Leave(IF Gone(idx + 1) THEN "OSError" ELSE "TimeoutExpired")
  /\ UNCHANGED <<stage, idx, closed, waited, signalled, connVars, fileVars, workerVars,
                 toWorker, toCoord, faultVars>>

\* Mutation of Broadcast: the message just acknowledged is sent again.
BroadcastAgain ==
  /\ cpc = "ack" /\ idx = NumWorkers
  /\ stage < 3 /\ Write(Worker, Steps[stage])
  /\ stage' = stage + 1 /\ idx' = 0
  /\ UNCHANGED <<cpc, outcome, closed, waited, signalled, connVars, fileVars, workerVars,
                 toCoord, deaths>>

\* process_graph: every worker has acknowledged, the next message is for all.
Broadcast ==
  /\ cpc = "ack" /\ idx = NumWorkers
  /\ stage < 3 /\ Write(Worker, Steps[stage + 1])
  /\ stage' = stage + 1 /\ idx' = 0
  /\ UNCHANGED <<cpc, outcome, closed, waited, signalled, connVars, fileVars, workerVars,
                 toCoord, deaths>>

\* Mutation of StartProcessing: the last acknowledgement is counted as a step.
StartProcessingCounting ==
  /\ cpc = "ack" /\ idx = NumWorkers /\ stage = 3
  /\ cpc' = "process" /\ stage' = stage + 1
  /\ UNCHANGED <<idx, outcome, closed, waited, signalled, connVars, fileVars, workerVars,
                 toWorker, toCoord, faultVars>>

StartProcessing ==
  /\ cpc = "ack" /\ idx = NumWorkers /\ stage = 3
  /\ cpc' = "process"
  /\ UNCHANGED <<stage, idx, outcome, closed, waited, signalled, connVars, fileVars, workerVars,
                 toWorker, toCoord, faultVars>>

\* The rest of process_graph, which is ParallelBuild: a build that fails may
\* leave workers at work, a good one does not.
ProcessGraph ==
  /\ cpc = "process"
  /\ \E how \in {"ok", "CompileError", "OSError"}, busy \in SUBSET {w \in Worker : wpc[w] = "idle"} :
       /\ how = "ok" => busy = {}
       /\ wpc' = [w \in Worker |-> IF w \in busy THEN "busy" ELSE wpc[w]]
       /\ Leave(how)
  /\ UNCHANGED <<stage, idx, closed, waited, signalled, connVars, fileVars, wstage,
                 toWorker, toCoord, faultVars>>

\* Mutation of Finally: the connect threads are not joined first.
FinallyAtOnce ==
  /\ cpc = "finally"
  /\ options' = FALSE
  /\ toWorker' = [w \in Worker |-> IF connected[w] THEN Append(toWorker[w], "shutdown")
                                   ELSE toWorker[w]]
  /\ cpc' = "close"
  /\ UNCHANGED <<stage, idx, outcome, closed, waited, signalled, connVars, status, workerVars,
                 toCoord, faultVars>>

\* The first part of the finally clause: join, remove the options file, ask
\* every connected worker to stop.
Finally ==
  /\ cpc = "finally" /\ AllJoined
  /\ options' = FALSE
  /\ Write({w \in Worker : connected[w]}, "shutdown")
  /\ cpc' = "close"
  /\ UNCHANGED <<stage, idx, outcome, closed, waited, signalled, connVars, status, workerVars,
                 toCoord, deaths>>

\* WorkerClient.close(), in the order of the workers.
CloseConnection(w) ==
  /\ cpc = "close" /\ w \notin closed /\ \A v \in Worker : v < w => v \in waited
  /\ closed' = closed \cup {w}
  /\ UNCHANGED <<cpc, stage, idx, outcome, waited, signalled, connVars, fileVars, workerVars,
                 toWorker, toCoord, faultVars>>

\* Mutation of AwaitExit: a process that does not stop is left alone.
AwaitExitOnly(w) ==
  /\ cpc = "close" /\ w \in closed \ waited
  /\ UNCHANGED signalled
  /\ status' = [status EXCEPT ![w] = "none"]
  /\ waited' = waited \cup {w}
  /\ UNCHANGED <<cpc, stage, idx, outcome, closed, connVars, options, workerVars,
                 toWorker, toCoord, faultVars>>

\* Wait for the process, or for WORKER_SHUTDOWN_TIMEOUT and send it SIGTERM; in
\* both cases remove its status file.
AwaitExit(w) ==
  /\ cpc = "close" /\ w \in closed \ waited
  /\ signalled' = IF Gone(w) THEN signalled ELSE signalled \cup {w}
  /\ status' = [status EXCEPT ![w] = "none"]
  /\ waited' = waited \cup {w}
  /\ UNCHANGED <<cpc, stage, idx, outcome, closed, connVars, options, workerVars,
                 toWorker, toCoord, faultVars>>

BuildReturns ==
  /\ cpc = "close" /\ waited = Worker
  /\ cpc' = "returned"
  /\ UNCHANGED <<stage, idx, outcome, closed, waited, signalled, connVars, fileVars, workerVars,
                 toWorker, toCoord, faultVars>>

(***************************************************************************)
(* A worker: main() and serve().                                           *)
(***************************************************************************)
Goto(w, pc) == wpc' = [wpc EXCEPT ![w] = pc]

\* Read the options and create the socket.
ReadOptions(w) ==
  /\ wpc[w] = "starting" /\ options
  /\ Goto(w, "listening")
  /\ UNCHANGED <<mainVars, connVars, fileVars, wstage, toWorker, toCoord, faultVars>>

\* The options file was not there until WORKER_START_TIMEOUT.
NoOptions(w) ==
  /\ wpc[w] = "starting" /\ ~options
  /\ Goto(w, "dead")
  /\ UNCHANGED <<mainVars, connVars, fileVars, wstage, toWorker, toCoord, faultVars>>

\* Create the status file, then fill it.
OpenStatus(w) ==
  /\ wpc[w] = "listening"
  /\ status' = [status EXCEPT ![w] = "partial"]
  /\ Goto(w, "stating")
  /\ UNCHANGED <<mainVars, connVars, options, wstage, toWorker, toCoord, faultVars>>

\* A file that has been removed meanwhile is written all the same, unseen.
WriteStatus(w) ==
  /\ wpc[w] = "stating"
  /\ status' = [status EXCEPT ![w] = IF @ = "partial" THEN "written" ELSE @]
  /\ Goto(w, "accepting")
  /\ UNCHANGED <<mainVars, connVars, options, wstage, toWorker, toCoord, faultVars>>

Accept(w) ==
  /\ wpc[w] = "accepting" /\ connected[w]
  /\ Goto(w, "receive")
  /\ UNCHANGED <<mainVars, connVars, fileVars, wstage, toWorker, toCoord, faultVars>>

\* WORKER_CONNECTION_TIMEOUT has passed and nobody has connected.
AcceptTimesOut(w) ==
  /\ wpc[w] = "accepting" /\ ~connected[w]
  /\ Goto(w, "exited")
  /\ UNCHANGED <<mainVars, connVars, fileVars, wstage, toWorker, toCoord, faultVars>>

\* The next message of the handshake, or the order to stop in its place; any
\* other message fails the assertion in should_shutdown.
ReceiveStep(w) ==
  /\ wpc[w] = "receive" /\ toWorker[w] # <<>> /\ Head(toWorker[w]) # "torn"
  /\ toWorker' = [toWorker EXCEPT ![w] = Tail(@)]
  /\ Goto(w, IF Head(toWorker[w]) = "shutdown" THEN "exited"
             ELSE IF Head(toWorker[w]) = Steps[wstage[w]] THEN "setup" ELSE "dead")
  /\ UNCHANGED <<mainVars, connVars, fileVars, wstage, toCoord, faultVars>>

\* A frame without its end: receive() waits, and what comes next, or the end of
\* the stream, makes it garbage.
ReceiveTorn(w) ==
  /\ wpc[w] \in {"receive", "idle"} /\ toWorker[w] # <<>> /\ Head(toWorker[w]) = "torn"
  /\ Len(toWorker[w]) > 1 \/ w \in closed
  /\ Goto(w, "dead")
  /\ UNCHANGED <<mainVars, connVars, fileVars, wstage, toWorker, toCoord, faultVars>>

\* Set up the manager, the graph or the SCCs and acknowledge.  Without a manager
\* (a plugin does not load) the worker ends instead.
Acknowledge(w) ==
  /\ wpc[w] = "setup"
  /\ \/ /\ w \notin closed
        /\ toCoord' = [toCoord EXCEPT ![w] = Append(@, "ack")]
        /\ wstage' = [wstage EXCEPT ![w] = @ + 1]
        /\ Goto(w, IF wstage[w] = 3 THEN "idle" ELSE "receive")
     \/ /\ w \in closed \/ wstage[w] = 1
        /\ Goto(w, "exited") /\ UNCHANGED <<toCoord, wstage>>
  /\ UNCHANGED <<mainVars, connVars, fileVars, toWorker, faultVars>>

\* The order to stop, after the handshake.
ReceiveShutdown(w) ==
  /\ wpc[w] = "idle" /\ toWorker[w] # <<>> /\ Head(toWorker[w]) = "shutdown"
  /\ toWorker' = [toWorker EXCEPT ![w] = Tail(@)]
  /\ Goto(w, "exited")
  /\ UNCHANGED <<mainVars, connVars, fileVars, wstage, toCoord, faultVars>>

\* A batch that was under way when the build failed is over.
FinishBatch(w) ==
  /\ wpc[w] = "busy"
  /\ IF w \in closed
     THEN Goto(w, "exited") /\ UNCHANGED toCoord
     ELSE Goto(w, "idle") /\ toCoord' = [toCoord EXCEPT ![w] = Append(@, "response")]
  /\ UNCHANGED <<mainVars, connVars, fileVars, wstage, toWorker, faultVars>>

\* The stream ends while the worker waits for a message.
EndOfStream(w) ==
  /\ wpc[w] \in {"receive", "idle"} /\ toWorker[w] = <<>> /\ w \in closed
  /\ Goto(w, "exited")
  /\ UNCHANGED <<mainVars, connVars, fileVars, wstage, toWorker, toCoord, faultVars>>

\* SIGTERM is delivered some time after it was sent.
HandleSignal(w) ==
  /\ w \in signalled /\ ~Gone(w)
  /\ Goto(w, "dead")
  /\ UNCHANGED <<mainVars, connVars, fileVars, wstage, toWorker, toCoord, faultVars>>

Die(w) ==
  /\ ~Gone(w) /\ deaths < MaxDeaths
  /\ deaths' = deaths + 1
  /\ Goto(w, "dead")
  /\ UNCHANGED <<mainVars, connVars, fileVars, wstage, toWorker, toCoord, torn>>

(***************************************************************************)
(* The system.                                                             *)
(***************************************************************************)
Main == \/ Load \/ Join \/ WaitAck \/ AckFails \/ Broadcast \/ StartProcessing \/ ProcessGraph
        \/ Finally \/ BuildReturns
        \/ \E w \in Worker : CloseConnection(w) \/ AwaitExit(w)

ConnectThread(w) == Connect(w) \/ GiveUp(w) \/ SendSources(w)

Serve(w) == \/ ReadOptions(w) \/ NoOptions(w) \/ OpenStatus(w) \/ WriteStatus(w)
            \/ Accept(w) \/ AcceptTimesOut(w) \/ ReceiveStep(w) \/ ReceiveTorn(w)
            \/ Acknowledge(w) \/ ReceiveShutdown(w) \/ FinishBatch(w) \/ EndOfStream(w)

Over == cpc = "returned" /\ (\A w \in Worker : Gone(w)) /\ UNCHANGED vars

Next == Main \/ Over
        \/ \E w \in Worker : ConnectThread(w) \/ Serve(w) \/ HandleSignal(w) \/ Die(w)

\* The coordinator's threads run, every wait of theirs has a timeout, and the
\* kernel delivers signals.  Nothing is assumed of the workers: they may hang.
Fairness == /\ WF_vars(Main)
            /\ \A w \in Worker : WF_vars(ConnectThread(w)) /\ WF_vars(HandleSignal(w))

Spec == Init /\ [][Next]_vars
FairSpec == Spec /\ Fairness
(***************************************************************************)
(* Properties.                                                             *)
(***************************************************************************)
Frame == {"sources", "graph", "sccs", "shutdown", "torn"}

\* Every variable has its type.
TypeOK ==
  /\ cpc \in {"load", "join", "ack", "process", "finally", "close", "returned"}
  /\ stage \in 1 .. 3 /\ idx \in 0 .. NumWorkers
  /\ outcome \in {"running", "ok", "CompileError", "OSError", "TimeoutExpired"}
  /\ tpc \in [Worker -> {"polling", "writing", "ended"}]
  /\ connected \in [Worker -> BOOLEAN] /\ options \in BOOLEAN
  /\ status \in [Worker -> {"none", "partial", "written"}]
  /\ wpc \in [Worker -> {"starting", "listening", "stating", "accepting", "receive", "setup",
                         "idle", "busy", "exited", "dead"}]
  /\ wstage \in [Worker -> 1 .. 4]
  /\ toWorker \in [Worker -> Seq(Frame)]
  /\ toCoord \in [Worker -> Seq({"ack", "response"})]
  /\ closed \subseteq Worker /\ waited \subseteq Worker /\ signalled \subseteq Worker
  /\ deaths \in 0 .. MaxDeaths /\ torn \in 0 .. MaxTorn

\* should_shutdown's assertion never fails: whatever phase the build fails in, and
\* though two threads write to a worker, the next whole frame is the one it
\* waits for or the order to stop; an idle worker gets no handshake message.
NoProtocolError ==
  \A w \in Worker :
    toWorker[w] # <<>> =>
      /\ wpc[w] = "receive" => Head(toWorker[w]) \in {Steps[wstage[w]], "shutdown", "torn"}
      /\ wpc[w] \in {"idle", "busy"} => Head(toWorker[w]) \in {"shutdown", "torn"}

\* The state that process_graph starts from (and Init of ParallelBuild): every
\* worker is through the handshake, or has died since its last
\* acknowledgement, and no message is under way that scheduling would mistake for a response.
Handover ==
  cpc = "process" => \A w \in Worker : /\ connected[w] /\ wpc[w] \in {"idle", "dead"}
                                       /\ toWorker[w] = <<>> /\ toCoord[w] = <<>>

\* The options file stays as long as somebody waits for a worker that may still
\* have to read it.
OptionsWhileAwaited == \A w \in Worker : tpc[w] = "polling" => options

\* No worker that the coordinator has connected to leaves its status file
\* behind.  (One that was given up can: SIGTERM is not waited for.)
NoStatusFileLeft ==
  cpc = "returned" => \A w \in Worker : connected[w] => status[w] = "none"

\* receive_worker_message turns every failure to receive into an OSError that
\* names the worker and says that it exited, or is "still running".
FailureIsDiagnosed == outcome # "TimeoutExpired"

\* build() returns and no worker process is left, even if workers hang.
BuildEnds == <>(cpc = "returned" /\ \A w \in Worker : Gone(w))

=============================================================================
