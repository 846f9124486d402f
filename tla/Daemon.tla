------------------------------- MODULE Daemon --------------------------------
(***************************************************************************)
(* The daemon and its clients: the commands of the client program, the     *)
(* server's request loop, and the status file, which is all a client knows *)
(* of the server.  Several clients may run at a time; the server serves    *)
(* one connection after the other.  A client may be interrupted, requests  *)
(* may time out, the server may crash, be killed or stop for lack of use.  *)
(***************************************************************************)
EXTENDS Naturals, Sequences, FiniteSets

CONSTANTS
  Client,        \* processes of users
  Commands,      \* per client, the commands it is used for
  Pid,           \* processes that may become servers, once each, in their order
  MaxFaults,     \* bound on interrupts, timeouts, crashes and idle stops
  SlowStart,     \* whether a server may take longer to start than a client waits
  Nobody         \* no process, no file, no command

Command == {"start", "stop", "restart", "run", "check", "status", "kill"}

\* What is in the status file, and a connection as the server sees it.
File == [creator : Pid, pid : Pid \cup {Nobody}]
Connections == [client : Client, sent : Command \cup {Nobody}, up : BOOLEAN]

ASSUME DaemonAssumption ==
  /\ Commands \in [Client -> SUBSET Command]
  /\ Pid \subseteq Nat
  /\ MaxFaults \in Nat /\ SlowStart \in BOOLEAN
  /\ Nobody \notin Client \cup Pid /\ Nobody \notin Command \cup {"rerun", "done", "crash"}
  /\ Nobody \notin File /\ Nobody \notin Connections

VARIABLES
  file,          \* the status file: who created it and whom it names, or Nobody
  server,        \* what each server is doing
  handle,        \* the file a server opened, by its creator
  queue,         \* connections a server has not accepted yet
  serving,       \* the connection a server has accepted, or Nobody
  command,       \* the last command a server received
  result,        \* the response it is about to send
  client,        \* what each client is doing
  doing,         \* the command the user gave
  asking,        \* the command of the request
  target,        \* the server named by the status file when it was read
  inbox,         \* the response that has arrived
  faults
clients == <<client, doing, asking, target>>
daemonVars == <<file, server, handle, queue, serving, command, result, clients, inbox, faults>>

Idle == "idle"
Alive(p) == server[p] \notin {"unborn", "dead"}
Listening(p) == Alive(p) /\ server[p] \notin {"init"}
Names(p) == file # Nobody /\ file.pid = p

\* read_status() succeeds; get_status(): the server it finds, Nobody for BadStatus
FileReadable == file # Nobody /\ file.pid # Nobody
Status == IF FileReadable /\ Alive(file.pid) THEN file.pid ELSE Nobody

Fault == faults < MaxFaults /\ faults' = faults + 1
NoFault == UNCHANGED faults

DaemonInit ==
  /\ file = Nobody
  /\ server = [p \in Pid |-> "unborn"] /\ handle = [p \in Pid |-> Nobody]
  /\ queue = [p \in Pid |-> <<>>] /\ serving = [p \in Pid |-> Nobody]
  /\ command = [p \in Pid |-> Nobody] /\ result = [p \in Pid |-> Nobody]
  /\ client = [c \in Client |-> Idle] /\ doing = [c \in Client |-> Nobody]
  /\ asking = [c \in Client |-> Nobody] /\ target = [c \in Client |-> Nobody]
  /\ inbox = [c \in Client |-> Nobody]
  /\ faults = 0

-----------------------------------------------------------------------------
(* Connections. *)

Connection(c) == [client |-> c, sent |-> Nobody, up |-> TRUE]
IsFrom(k, c) == k # Nobody /\ k.client = c /\ k.up
HungUp(k, c) == IF IsFrom(k, c) THEN [k EXCEPT !.up = FALSE] ELSE k
WithSent(k, c) == IF IsFrom(k, c) THEN [k EXCEPT !.sent = asking[c]] ELSE k

\* Something happens at c's end of its connection.
AtConnection(c, Op(_, _)) ==
  /\ queue' = [p \in Pid |-> [i \in DOMAIN queue[p] |-> Op(queue[p][i], c)]]
  /\ serving' = [p \in Pid |-> Op(serving[p], c)]
Connected(c) == \E p \in Pid : IsFrom(serving[p], c) \/ \E i \in DOMAIN queue[p] : IsFrom(queue[p][i], c)
servers == <<server, handle, command, result>>
connections == <<queue, serving>>

-----------------------------------------------------------------------------
(* The client. *)

Become(c, state) == client' = [client EXCEPT ![c] = state]
Ask(c, what) == Become(c, "ask") /\ asking' = [asking EXCEPT ![c] = what]
Finish(c) == Become(c, Idle) /\ doing' = [doing EXCEPT ![c] = Nobody]
                             /\ asking' = [asking EXCEPT ![c] = Nobody]
                             /\ target' = [target EXCEPT ![c] = Nobody]
\* The servers that the commands under way may still start are set aside.
Spawns(d) == CASE d \in {"start", "restart", "rerun"} -> 1 [] d = "run" -> 2 [] OTHER -> 0
Unborn == Cardinality({p \in Pid : server[p] = "unborn"})

Begin(c, d) ==
  /\ client[c] = Idle /\ d \in Commands[c]
  /\ Spawns(d) = 0 \/ Unborn >= 2 * Cardinality({e \in Client : Spawns(doing[e]) > 0}) + Spawns(d)
  /\ doing' = [doing EXCEPT ![c] = d]
  /\ IF d \in {"start", "run", "kill"} THEN Become(c, "probe") /\ UNCHANGED asking
     ELSE Ask(c, IF d = "restart" THEN "stop" ELSE d)
  /\ UNCHANGED <<file, servers, connections, target, inbox, faults>>

\* do_start(), do_run() and do_kill() look for a running server.
Probe(c) ==
  /\ client[c] = "probe"
  /\ \/ doing[c] = "start" /\ IF Status # Nobody THEN Finish(c)
                              ELSE Become(c, "spawn") /\ UNCHANGED <<doing, asking, target>>
     \/ doing[c] = "run" /\ UNCHANGED <<doing, target>>
                         /\ IF Status # Nobody THEN Ask(c, "run") ELSE Become(c, "spawn") /\ UNCHANGED asking
     \/ doing[c] = "kill" /\ IF Status = Nobody THEN Finish(c)
                             ELSE Become(c, "kill") /\ target' = [target EXCEPT ![c] = Status]
                                                    /\ UNCHANGED <<doing, asking>>
  /\ UNCHANGED <<file, servers, connections, inbox, faults>>

\* start_server(): Server.__init__ runs in the client and removes an old status file.
Spawn(c) ==
  /\ client[c] = "spawn"
  /\ \E p \in Pid : /\ server[p] = "unborn" /\ \A q \in Pid : q < p => server[q] # "unborn"
                    /\ server' = [server EXCEPT ![p] = "init"]
  /\ file' = Nobody
  /\ Become(c, "wait")
  /\ UNCHANGED <<handle, command, result, connections, doing, asking, target, inbox, faults>>

\* do_run() goes on with a second request after a restart, and no further.
\* wait_for_server(): retry as long as there is no readable file.
Wait(c) ==
  /\ client[c] = "wait"
  /\ FileReadable
  /\ IF doing[c] \in {"run", "rerun"} /\ Status # Nobody THEN Ask(c, "run") /\ UNCHANGED <<doing, target>> ELSE Finish(c)
  /\ UNCHANGED <<file, servers, connections, inbox, faults>>

WaitTimeout(c) ==
  /\ client[c] = "wait"
  /\ ~FileReadable
  /\ SlowStart \/ \A p \in Pid : server[p] \notin {"init", "open"}
  /\ Finish(c)
  /\ UNCHANGED <<file, servers, connections, inbox, faults>>

\* request(): read the status file, connect, send, receive.  BadStatus ends the
\* command, unless it is a restart, which then goes on to start a server.
Restarting(c) == asking[c] = "stop" /\ doing[c] \in {"restart", "rerun"}

ReadStatus(c) ==
  /\ client[c] = "ask"
  /\ IF Status # Nobody
     THEN Become(c, "connect") /\ target' = [target EXCEPT ![c] = Status] /\ UNCHANGED <<doing, asking>>
     ELSE IF Restarting(c) THEN Become(c, "spawn") /\ UNCHANGED <<doing, asking, target>>
     ELSE Finish(c)
  /\ UNCHANGED <<file, servers, connections, inbox, faults>>

ConnectServer(c) ==
  /\ client[c] = "connect"
  /\ IF Listening(target[c])
     THEN /\ queue' = [queue EXCEPT ![target[c]] = Append(@, Connection(c))]
          /\ Become(c, "send") /\ UNCHANGED <<doing, asking, target>>
     ELSE Finish(c) /\ UNCHANGED queue
  /\ UNCHANGED <<file, servers, serving, inbox, faults>>

Send(c) ==
  /\ client[c] = "send" /\ Connected(c)
  /\ AtConnection(c, WithSent)
  /\ Become(c, "receive")
  /\ UNCHANGED <<file, servers, doing, asking, target, inbox, faults>>

Receive(c) ==
  /\ client[c] = "receive" /\ inbox[c] # Nobody
  /\ inbox' = [inbox EXCEPT ![c] = Nobody]
  /\ AtConnection(c, HungUp)
  /\ \/ Restarting(c) /\ inbox[c] = "done" /\ Become(c, "spawn") /\ UNCHANGED <<doing, asking, target>>
     \/ doing[c] = "run" /\ inbox[c] = "restart" /\ Ask(c, "stop")
        /\ doing' = [doing EXCEPT ![c] = "rerun"] /\ UNCHANGED target
     \/ ~(Restarting(c) /\ inbox[c] = "done") /\ ~(doing[c] = "run" /\ inbox[c] = "restart") /\ Finish(c)
  /\ UNCHANGED <<file, servers, faults>>

\* Mutation of NoAnswer: the end of the stream is not noticed.
NoAnswerToSend(c) ==
  /\ client[c] = "send" /\ inbox[c] = Nobody /\ ~Connected(c)
  /\ Finish(c)
  /\ UNCHANGED <<file, servers, connections, inbox, faults>>

\* The server is gone: an {"error": ...} response
NoAnswer(c) ==
  /\ client[c] \in {"send", "receive"} /\ inbox[c] = Nobody /\ ~Connected(c)
  /\ Finish(c)
  /\ UNCHANGED <<file, servers, connections, inbox, faults>>

\* stop and status are sent with a timeout; any command may be interrupted.
TimeOut(c) ==
  /\ client[c] = "receive" /\ asking[c] \in {"stop", "status"} /\ Fault
  /\ AtConnection(c, HungUp) /\ inbox' = [inbox EXCEPT ![c] = Nobody]
  /\ Finish(c)
  /\ UNCHANGED <<file, servers>>

Interrupt(c) ==
  /\ client[c] \in {"send", "receive"} /\ Fault
  /\ AtConnection(c, HungUp) /\ inbox' = [inbox EXCEPT ![c] = Nobody]
  /\ Finish(c)
  /\ UNCHANGED <<file, servers>>

Vanish(p) ==
  /\ server' = [server EXCEPT ![p] = "dead"] /\ command' = [command EXCEPT ![p] = Nobody]
  /\ result' = [result EXCEPT ![p] = Nobody] /\ handle' = [handle EXCEPT ![p] = Nobody]
  /\ queue' = [queue EXCEPT ![p] = <<>>] /\ serving' = [serving EXCEPT ![p] = Nobody]

Kill(c) ==
  /\ client[c] = "kill"
  /\ IF Alive(target[c]) THEN Vanish(target[c]) ELSE UNCHANGED <<servers, connections>>
  /\ Finish(c)
  /\ UNCHANGED <<file, inbox, faults>>

-----------------------------------------------------------------------------
(* The server. *)

ServerTurn(p, from, to) == server[p] = from /\ server' = [server EXCEPT ![p] = to]

\* serve(): create the socket, open the status file, write it.
Open(p) ==
  /\ ServerTurn(p, "init", "open")
  /\ file' = [creator |-> IF file = Nobody THEN p ELSE file.creator, pid |-> Nobody]
  /\ handle' = [handle EXCEPT ![p] = IF file = Nobody THEN p ELSE file.creator]
  /\ UNCHANGED <<connections, command, result, clients, inbox, faults>>

\* What is written to a file that was removed meanwhile is lost.
WritePid(p) ==
  /\ ServerTurn(p, "open", "accept")
  /\ file' = IF file # Nobody /\ file.creator = handle[p] THEN [file EXCEPT !.pid = p] ELSE file
  /\ handle' = [handle EXCEPT ![p] = Nobody]
  /\ UNCHANGED <<connections, command, result, clients, inbox, faults>>

AcceptClient(p) ==
  /\ ServerTurn(p, "accept", "read") /\ queue[p] # <<>>
  /\ serving' = [serving EXCEPT ![p] = Head(queue[p])]
  /\ queue' = [queue EXCEPT ![p] = Tail(queue[p])]
  /\ UNCHANGED <<file, handle, command, result, clients, inbox, faults>>

\* The timeout given at the start applies to waiting for a connection.
IdleTimeout(p) ==
  /\ ServerTurn(p, "accept", "exit") /\ queue[p] = <<>> /\ Fault
  /\ UNCHANGED <<file, handle, connections, command, result, clients, inbox>>

Read(p) ==
  /\ server[p] = "read" /\ serving[p].sent # Nobody
  /\ server' = [server EXCEPT ![p] = "run"]
  /\ command' = [command EXCEPT ![p] = serving[p].sent]
  /\ UNCHANGED <<file, handle, connections, result, clients, inbox, faults>>

\* A client that hangs up before it has sent a request: OSError ends the server.
ReadFails(p) ==
  /\ server[p] = "read" /\ serving[p].sent = Nobody /\ ~serving[p].up
  /\ server' = [server EXCEPT ![p] = "exit"]
  /\ UNCHANGED <<file, handle, connections, command, result, clients, inbox, faults>>

\* Mutation of Run: the status file is left for the end.
RunKeepingFile(p) ==
  /\ ServerTurn(p, "run", "reply")
  /\ result' = [result EXCEPT ![p] = "done"]
  /\ UNCHANGED <<file, handle, connections, command, clients, inbox, faults>>

\* run_command(): cmd_stop removes the status file; a check may crash.
Run(p) ==
  /\ ServerTurn(p, "run", "reply")
  /\ \/ command[p] = "stop" /\ file # Nobody /\ file' = Nobody
        /\ result' = [result EXCEPT ![p] = "done"] /\ NoFault
     \/ command[p] = "stop" /\ file = Nobody /\ UNCHANGED file
        /\ result' = [result EXCEPT ![p] = "crash"] /\ NoFault
     \/ command[p] # "stop" /\ UNCHANGED file
        /\ result' = [result EXCEPT ![p] = "done"] /\ NoFault
     \/ command[p] \in {"check", "run"} /\ UNCHANGED file
        /\ result' = [result EXCEPT ![p] = "crash"] /\ Fault
     \/ command[p] = "run" /\ UNCHANGED file
        /\ result' = [result EXCEPT ![p] = "restart"] /\ Fault
  /\ UNCHANGED <<handle, connections, command, clients, inbox>>

\* Send the response, close the connection, and stop or go on.
Reply(p) ==
  /\ server[p] = "reply"
  /\ server' = [server EXCEPT ![p] = IF result[p] = "crash" \/ command[p] = "stop" THEN "exit" ELSE "accept"]
  /\ LET k == serving[p] IN
     inbox' = IF k.up THEN [inbox EXCEPT ![k.client] = result[p]] ELSE inbox
  /\ serving' = [serving EXCEPT ![p] = Nobody] /\ result' = [result EXCEPT ![p] = Nobody]
  /\ UNCHANGED <<file, handle, queue, command, clients, faults>>

\* Mutation of Exit: the status file is removed in any case.
ExitRemoving(p) ==
  /\ ServerTurn(p, "exit", "leave")
  /\ file' = Nobody
  /\ UNCHANGED <<handle, connections, command, result, clients, inbox, faults>>

\* The finally clause: unless the last command was to stop, remove the status file.
Exit(p) ==
  /\ ServerTurn(p, "exit", "leave")
  /\ file' = IF command[p] # "stop" THEN Nobody ELSE file
  /\ UNCHANGED <<handle, connections, command, result, clients, inbox, faults>>

EndServer(p) ==
  /\ server[p] = "leave" /\ Vanish(p)
  /\ UNCHANGED <<file, clients, inbox, faults>>

-----------------------------------------------------------------------------
ClientStep(c) == Probe(c) \/ Spawn(c) \/ Wait(c) \/ WaitTimeout(c) \/ ReadStatus(c) \/ ConnectServer(c)
                 \/ Send(c) \/ Receive(c) \/ NoAnswer(c) \/ Kill(c)
ServerStep(p) == Open(p) \/ WritePid(p) \/ AcceptClient(p) \/ Read(p) \/ ReadFails(p) \/ Run(p) \/ Reply(p)
                 \/ Exit(p) \/ EndServer(p)
Disturbance == (\E c \in Client : TimeOut(c) \/ Interrupt(c)) \/ \E p \in Pid : IdleTimeout(p)
DaemonNext == \/ \E c \in Client : ClientStep(c) \/ \E d \in Command : Begin(c, d)
        \/ \E p \in Pid : ServerStep(p)
        \/ Disturbance

DaemonSpec == DaemonInit /\ [][DaemonNext]_daemonVars
\* Every process is scheduled; nobody has to give a command, nor to be unlucky.
DaemonFairness == (\A c \in Client : WF_daemonVars(ClientStep(c))) /\ \A p \in Pid : WF_daemonVars(ServerStep(p))
DaemonFairSpec == DaemonSpec /\ DaemonFairness

-----------------------------------------------------------------------------
(* Properties. *)

\* Every variable keeps its type, and a server that is about to reply has what to reply.
DaemonTypeOK ==
  /\ file = Nobody \/ file \in File
  /\ server \in [Pid -> {"unborn", "init", "open", "accept", "read", "run", "reply", "exit", "leave", "dead"}]
  /\ client \in [Client -> {Idle, "probe", "spawn", "wait", "ask", "connect", "send", "receive", "kill"}]
  /\ target \in [Client -> Pid \cup {Nobody}] /\ asking \in [Client -> Command \cup {Nobody}]
  /\ inbox \in [Client -> {"done", "crash", "restart", Nobody}]
  /\ \A p \in Pid : server[p] = "reply" <=> result[p] # Nobody

\* A server that waits for requests or handles one is the server the status file
\* names, and the file names no server that a client has been told was stopped.
Serves(p) == server[p] \in {"accept", "read", "run"}
StatusIsTrue ==
  \A p \in Pid : /\ Serves(p) => Names(p)
                 /\ Names(p) => \/ Serves(p) \/ server[p] = "dead"
                                \/ server[p] \in {"reply", "exit"} /\ command[p] # "stop"

\* A server removes its own status file only: "that could cause us to remove a
\* future server's status file" (Server.serve).
RemovesOwnFile == [][\A p \in Pid : ServerStep(p) /\ file # Nobody /\ file' = Nobody => file.pid = p]_daemonVars

\* Every command that a user gives comes to an end.
CommandsEnd == \A c \in Client : client[c] # Idle ~> client[c] = Idle
=============================================================================
