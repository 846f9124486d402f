--------------------------- MODULE ProcessesProofs ---------------------------
(***************************************************************************)
(* Proofs about Daemon, for any number of clients, servers and faults, and *)
(* about Framing, for any number of connections, lengths of messages, size *)
(* of the header and way of cutting the stream.  At the end they are put   *)
(* together with WorkerLifecycle, as in the run of MCProcesses.            *)
(***************************************************************************)
EXTENDS MCProcesses, WorkerLifecycleProofs, SequenceTheorems, TLAPS

-----------------------------------------------------------------------------
(* Daemon. *)

(***************************************************************************)
(* The first part of the inductive invariant: what passes between clients  *)
(* and servers.  It holds whoever gives which commands.                    *)
(***************************************************************************)
ServerState == {"unborn", "init", "open", "accept", "read", "run", "reply", "exit", "leave", "dead"}
ClientState == {Idle, "probe", "spawn", "wait", "ask", "connect", "send", "receive", "kill"}
Response == {"done", "crash", "restart"}

Talk == /\ queue \in [Pid -> Seq(Connections)] /\ serving \in [Pid -> Connections \cup {Nobody}]
        /\ inbox \in [Client -> Response \cup {Nobody}]
Typed ==
  /\ file = Nobody \/ file \in File
  /\ server \in [Pid -> ServerState] /\ handle \in [Pid -> Pid \cup {Nobody}]
  /\ command \in [Pid -> Command \cup {Nobody}] /\ result \in [Pid -> Response \cup {Nobody}]
  /\ client \in [Client -> ClientState] /\ doing \in [Client -> Command \cup {"rerun", Nobody}]
  /\ asking \in [Client -> Command \cup {Nobody}] /\ target \in [Client -> Pid \cup {Nobody}]
  /\ faults \in Nat /\ Talk

\* What a client knows at each of its steps.
ClientHas(c) ==
  /\ client[c] \in {"connect", "kill"} => target[c] \in Pid
  /\ client[c] \in {"ask", "connect", "send", "receive"} => asking[c] \in Command
  /\ inbox[c] # Nobody => client[c] = "receive"

\* What has been sent over a connection is what its client is waiting for.
Held(k) ==
  k # Nobody /\ k.up => \/ client[k.client] = "send" /\ k.sent = Nobody
                        \/ client[k.client] = "receive" /\ k.sent = asking[k.client]
AllHeld == \A p \in Pid : Held(serving[p]) /\ \A i \in DOMAIN queue[p] : Held(queue[p][i])

ServerHas(p) ==
  /\ server[p] \in {"read", "run", "reply"} => serving[p] # Nobody
  /\ server[p] \in {"run", "reply"} => command[p] # Nobody /\ command[p] = serving[p].sent
  /\ server[p] \in {"unborn", "init", "open", "accept", "read"} => command[p] # "stop"
  /\ server[p] = "reply" <=> result[p] # Nobody

TalkInv == Typed /\ (\A c \in Client : ClientHas(c)) /\ AllHeld /\ \A p \in Pid : ServerHas(p)

-----------------------------------------------------------------------------
LEMMA Constants ==
  /\ Nobody \notin Client /\ Nobody \notin Pid /\ Nobody \notin Command /\ Nobody \notin Response
  /\ Nobody \notin File /\ Nobody \notin Connections
  /\ \A c \in Client : Commands[c] \subseteq Command
BY DaemonAssumption DEF Response, Command

LEMMA StatusFacts ==
  ASSUME Typed
  PROVE  /\ Status \in Pid \cup {Nobody}
         /\ Status # Nobody => file # Nobody /\ file.pid = Status /\ Alive(Status)
BY Constants DEF Typed, Status, FileReadable, File

(***************************************************************************)
(* A client that has nothing under way, and one that hangs up.             *)
(***************************************************************************)
Silent(k, k1, c) ==
  /\ k1 = Nobody <=> k = Nobody
  /\ k # Nobody => k1.client = k.client /\ k1.sent = k.sent /\ (k1.up => k.up /\ k.client # c)
SilentAll(c) ==
  \A p \in Pid : /\ Silent(serving[p], serving'[p], c)
                 /\ DOMAIN queue'[p] = DOMAIN queue[p]
                 /\ \A i \in DOMAIN queue[p] : Silent(queue[p][i], queue'[p][i], c)

LEMMA HungUpFacts ==
  ASSUME NEW c \in Client, NEW k \in Connections \cup {Nobody}
  PROVE  /\ HungUp(k, c) \in Connections \cup {Nobody} /\ Silent(k, HungUp(k, c), c)
         /\ k \in Connections => HungUp(k, c) \in Connections
BY Constants DEF HungUp, IsFrom, Connections, Silent

LEMMA WithSentFacts ==
  ASSUME NEW c \in Client, NEW k \in Connections \cup {Nobody}, asking[c] \in Command
  PROVE  /\ WithSent(k, c) \in Connections \cup {Nobody}
         /\ k \in Connections => WithSent(k, c) \in Connections
         /\ k = Nobody => WithSent(k, c) = Nobody
         /\ k # Nobody => /\ WithSent(k, c).client = k.client /\ WithSent(k, c).up = k.up
                          /\ WithSent(k, c).sent = IF k.client = c /\ k.up THEN asking[c] ELSE k.sent
BY Constants DEF WithSent, IsFrom, Connections

\* The elements of the queues are connections.
LEMMA QueueFacts ==
  ASSUME Talk, NEW p \in Pid
  PROVE  /\ Len(queue[p]) \in Nat /\ DOMAIN queue[p] = 1..Len(queue[p])
         /\ \A i \in DOMAIN queue[p] : queue[p][i] \in Connections
<1>1. queue[p] \in Seq(Connections)
  BY DEF Talk
<1>2. QED
  BY <1>1, LenProperties, ElementOfSeq

LEMMA HangsUp ==
  ASSUME Talk, NEW c \in Client, AtConnection(c, HungUp)
  PROVE  /\ queue' \in [Pid -> Seq(Connections)] /\ serving' \in [Pid -> Connections \cup {Nobody}]
         /\ SilentAll(c)
<1>1. /\ queue' = [p \in Pid |-> [i \in DOMAIN queue[p] |-> HungUp(queue[p][i], c)]]
      /\ serving' = [p \in Pid |-> HungUp(serving[p], c)]
  BY DEF AtConnection
<1>2. \A p \in Pid : serving[p] \in Connections \cup {Nobody}
  BY DEF Talk
<1>3. ASSUME NEW p \in Pid
      PROVE  /\ queue'[p] \in Seq(Connections) /\ DOMAIN queue'[p] = DOMAIN queue[p]
             /\ \A i \in DOMAIN queue[p] : Silent(queue[p][i], queue'[p][i], c)
  <2>1. queue'[p] = [i \in DOMAIN queue[p] |-> HungUp(queue[p][i], c)]
    BY <1>1
  <2>2. /\ Len(queue[p]) \in Nat /\ DOMAIN queue[p] = 1..Len(queue[p])
        /\ \A i \in DOMAIN queue[p] : queue[p][i] \in Connections
    BY QueueFacts
  <2>3. queue'[p] \in [1..Len(queue[p]) -> Connections]
    BY <2>1, <2>2, HungUpFacts
  <2>4. QED
    BY <2>1, <2>2, <2>3, HungUpFacts
<1>4. QED
  BY <1>1, <1>2, <1>3, HungUpFacts DEF SilentAll

LEMMA NotConnected ==
  ASSUME TalkInv, NEW c \in Client, ~Connected(c), UNCHANGED connections
  PROVE  SilentAll(c)
<1>1. \A p \in Pid : ~IsFrom(serving[p], c) /\ \A i \in DOMAIN queue[p] : ~IsFrom(queue[p][i], c)
  BY DEF Connected
<1>2. serving' = serving /\ queue' = queue
  BY DEF connections
<1>3. QED
  BY <1>1, <1>2 DEF SilentAll, Silent, IsFrom

LEMMA NothingUnderWay ==
  ASSUME TalkInv, NEW c \in Client, client[c] \notin {"send", "receive"}
  PROVE  ~Connected(c) /\ inbox[c] = Nobody
BY DEF TalkInv, AllHeld, Held, Connected, IsFrom, ClientHas

\* Whatever a client does next, nobody takes what it has left for its own.
StillHeld(k) ==
  k # Nobody /\ k.up => \/ client'[k.client] = "send" /\ k.sent = Nobody
                        \/ client'[k.client] = "receive" /\ k.sent = asking'[k.client]

LEMMA AllStillHeld ==
  ASSUME \A p \in Pid : StillHeld(serving'[p]) /\ \A i \in DOMAIN queue'[p] : StillHeld(queue'[p][i])
  PROVE  AllHeld'
BY DEF AllHeld, Held, StillHeld

LEMMA ClientMoves ==
  ASSUME TalkInv, NEW c \in Client, SilentAll(c),
         \A e \in Client \ {c} : /\ client'[e] = client[e] /\ asking'[e] = asking[e]
                                 /\ target'[e] = target[e] /\ inbox'[e] = inbox[e]
  PROVE  AllHeld' /\ \A e \in Client \ {c} : ClientHas(e)'
<1>1. \A e \in Client \ {c} : ClientHas(e)'
  BY DEF TalkInv, ClientHas
<1>2. ASSUME NEW k \in Connections \cup {Nobody}, NEW k1, Silent(k, k1, c), Held(k)
      PROVE  StillHeld(k1)
  <2>1. CASE k = Nobody
    BY <1>2, <2>1 DEF Silent, StillHeld
  <2>2. CASE k # Nobody /\ k1.up
    <3>1. k.client \in Client \ {c} /\ k1.client = k.client /\ k1.sent = k.sent /\ k.up
      BY <1>2, <2>2 DEF Silent, Connections
    <3>2. QED
      BY <1>2, <2>2, <3>1 DEF Held, StillHeld
  <2>3. CASE k # Nobody /\ ~k1.up
    BY <2>3 DEF StillHeld
  <2>4. QED
    BY <2>1, <2>2, <2>3
<1>3. Talk
  BY DEF TalkInv, Typed
<1>4. ASSUME NEW p \in Pid
      PROVE  StillHeld(serving'[p]) /\ \A i \in DOMAIN queue'[p] : StillHeld(queue'[p][i])
  <2>1. /\ Silent(serving[p], serving'[p], c) /\ Held(serving[p]) /\ serving[p] \in Connections \cup {Nobody}
        /\ DOMAIN queue'[p] = DOMAIN queue[p]
        /\ \A i \in DOMAIN queue[p] : Silent(queue[p][i], queue'[p][i], c) /\ Held(queue[p][i])
    BY <1>3 DEF SilentAll, TalkInv, AllHeld, Talk
  <2>2. QED
    BY <1>2, <1>3, <2>1, QueueFacts
<1>5. QED
  BY <1>1, <1>4, AllStillHeld

OthersSame(c) == \A e \in Client \ {c} : /\ client'[e] = client[e] /\ asking'[e] = asking[e]
                                         /\ target'[e] = target[e] /\ inbox'[e] = inbox[e]

LEMMA ClientKeeps ==
  ASSUME TalkInv, NEW c \in Client, SilentAll(c), OthersSame(c), Typed', ClientHas(c)',
         UNCHANGED <<server, command, result>>
  PROVE  TalkInv'
<1>1. AllHeld' /\ \A e \in Client : ClientHas(e)'
  BY ClientMoves DEF OthersSame
<1>2. ASSUME NEW p \in Pid PROVE ServerHas(p)'
  <2>1. Silent(serving[p], serving'[p], c) /\ ServerHas(p)
    BY DEF SilentAll, TalkInv
  <2>2. QED
    BY <2>1 DEF Silent, ServerHas
<1>3. QED
  BY <1>1, <1>2 DEF TalkInv

-----------------------------------------------------------------------------
(* The steps of a client. *)

\* Steps that touch no connection.
LEMMA QuietClient ==
  ASSUME TalkInv, NEW c \in Client, ~Connected(c), inbox[c] = Nobody,
         NEW s \in ClientState \ {"send", "receive"}, client' = [client EXCEPT ![c] = s],
         NEW a \in Command \cup {Nobody}, asking' = [asking EXCEPT ![c] = a],
         NEW t \in Pid \cup {Nobody}, target' = [target EXCEPT ![c] = t],
         NEW d \in Command \cup {"rerun", Nobody}, doing' = [doing EXCEPT ![c] = d],
         s \in {"connect", "kill"} => t \in Pid, s \in {"ask", "connect"} => a \in Command,
         file' = Nobody \/ UNCHANGED file, UNCHANGED <<servers, connections, inbox>>, faults' \in Nat
  PROVE  TalkInv'
<1>1. Typed
  BY DEF TalkInv
<1>2. Typed' /\ OthersSame(c) /\ client'[c] = s /\ asking'[c] = a /\ target'[c] = t /\ inbox'[c] = Nobody
  BY <1>1 DEF Typed, Talk, OthersSame, servers, connections
<1>3. ClientHas(c)'
  BY <1>2 DEF ClientHas
<1>4. SilentAll(c)
  BY NotConnected
<1>5. QED
  BY <1>2, <1>3, <1>4, ClientKeeps DEF servers

\* What a client does not change may be taken as changed to itself.
LEMMA SameAgain ==
  ASSUME Typed, NEW c \in Client
  PROVE  /\ asking = [asking EXCEPT ![c] = asking[c]] /\ asking[c] \in Command \cup {Nobody}
         /\ target = [target EXCEPT ![c] = target[c]] /\ target[c] \in Pid \cup {Nobody}
         /\ doing = [doing EXCEPT ![c] = doing[c]] /\ doing[c] \in Command \cup {"rerun", Nobody}
         /\ client = [client EXCEPT ![c] = client[c]] /\ client[c] \in ClientState
BY DEF Typed

\* Every way for a client to go on that touches no connection.
GoesOn(c) ==
  \/ Finish(c)
  \/ UNCHANGED <<doing, target>> /\ \E a \in Command : Ask(c, a)
  \/ UNCHANGED <<doing, asking, target>> /\ \E s \in {"probe", "spawn", "wait"} : Become(c, s)
  \/ UNCHANGED <<doing, asking>> /\ asking[c] \in Command /\ Status # Nobody
       /\ Become(c, "connect") /\ target' = [target EXCEPT ![c] = Status]
  \/ UNCHANGED <<doing, asking>> /\ Status # Nobody
       /\ Become(c, "kill") /\ target' = [target EXCEPT ![c] = Status]

LEMMA GoesOnKeeps ==
  ASSUME TalkInv, NEW c \in Client, ~Connected(c), inbox[c] = Nobody, GoesOn(c),
         file' = Nobody \/ UNCHANGED file, UNCHANGED <<servers, connections, inbox>>, faults' \in Nat
  PROVE  TalkInv'
<1>0. Typed
  BY DEF TalkInv
<1>1. CASE Finish(c)
  <2>1. Nobody \in Command \cup {Nobody} /\ Nobody \in Pid \cup {Nobody} /\ Nobody \in Command \cup {"rerun", Nobody}
        /\ Idle \in ClientState \ {"send", "receive"} /\ Idle \notin {"connect", "kill"} /\ Idle \notin {"ask", "connect"}
    BY DEF ClientState, Idle
  <2>2. /\ client' = [client EXCEPT ![c] = Idle] /\ doing' = [doing EXCEPT ![c] = Nobody]
        /\ asking' = [asking EXCEPT ![c] = Nobody] /\ target' = [target EXCEPT ![c] = Nobody]
    BY <1>1 DEF Finish, Become
  <2>3. QED
    BY <2>1, <2>2, QuietClient
<1>2. ASSUME UNCHANGED <<doing, target>>, NEW a \in Command, Ask(c, a) PROVE TalkInv'
  <2>1. "ask" \in ClientState \ {"send", "receive"} /\ "ask" \notin {"connect", "kill"}
    BY DEF ClientState
  <2>2. client' = [client EXCEPT ![c] = "ask"] /\ asking' = [asking EXCEPT ![c] = a]
    BY <1>2 DEF Ask, Become
  <2>3. /\ target' = [target EXCEPT ![c] = target[c]] /\ target[c] \in Pid \cup {Nobody}
        /\ doing' = [doing EXCEPT ![c] = doing[c]] /\ doing[c] \in Command \cup {"rerun", Nobody}
    BY <1>0, <1>2, SameAgain
  <2>4. QED
    BY <2>1, <2>2, <2>3, QuietClient
<1>3. ASSUME UNCHANGED <<doing, asking, target>>, NEW s \in {"probe", "spawn", "wait"}, Become(c, s) PROVE TalkInv'
  <2>1. s \in ClientState \ {"send", "receive"} /\ s \notin {"connect", "kill"} /\ s \notin {"ask", "connect"}
    BY DEF ClientState
  <2>2. client' = [client EXCEPT ![c] = s]
    BY <1>3 DEF Become
  <2>3. /\ target' = [target EXCEPT ![c] = target[c]] /\ target[c] \in Pid \cup {Nobody}
        /\ doing' = [doing EXCEPT ![c] = doing[c]] /\ doing[c] \in Command \cup {"rerun", Nobody}
        /\ asking' = [asking EXCEPT ![c] = asking[c]] /\ asking[c] \in Command \cup {Nobody}
    BY <1>0, <1>3, SameAgain
  <2>4. QED
    BY <2>1, <2>2, <2>3, QuietClient
<1>4. ASSUME UNCHANGED <<doing, asking>>, Status # Nobody, NEW s \in {"connect", "kill"}, s = "connect" => asking[c] \in Command,
             Become(c, s), target' = [target EXCEPT ![c] = Status]
      PROVE  TalkInv'
  <2>1. s \in ClientState \ {"send", "receive"} /\ (s \in {"ask", "connect"} => asking[c] \in Command)
    BY <1>4 DEF ClientState
  <2>2. client' = [client EXCEPT ![c] = s] /\ Status \in Pid
    BY <1>0, <1>4, StatusFacts DEF Become
  <2>3. /\ doing' = [doing EXCEPT ![c] = doing[c]] /\ doing[c] \in Command \cup {"rerun", Nobody}
        /\ asking' = [asking EXCEPT ![c] = asking[c]] /\ asking[c] \in Command \cup {Nobody}
    BY <1>0, <1>4, SameAgain
  <2>4. QED
    BY <1>4, <2>1, <2>2, <2>3, QuietClient
<1>5. QED
  BY <1>1, <1>2, <1>3, <1>4 DEF GoesOn

LEMMA BeginKeeps ==
  ASSUME TalkInv, NEW c \in Client, NEW d \in Command, Begin(c, d)
  PROVE  TalkInv'
<1>0. Typed /\ client[c] = Idle /\ d \in Command /\ faults' \in Nat
  BY Constants DEF TalkInv, Typed, Begin
<1>1. ~Connected(c) /\ inbox[c] = Nobody
  BY <1>0, NothingUnderWay DEF Idle
<1>2. /\ doing' = [doing EXCEPT ![c] = d] /\ d \in Command \cup {"rerun", Nobody}
      /\ target' = [target EXCEPT ![c] = target[c]] /\ target[c] \in Pid \cup {Nobody}
      /\ UNCHANGED <<file, servers, connections, inbox>>
  BY <1>0, SameAgain DEF Begin
<1>3. CASE Become(c, "probe") /\ UNCHANGED asking
  <2>1. /\ asking' = [asking EXCEPT ![c] = asking[c]] /\ asking[c] \in Command \cup {Nobody}
        /\ client' = [client EXCEPT ![c] = "probe"]
        /\ "probe" \in ClientState \ {"send", "receive"} /\ "probe" \notin {"connect", "kill"} /\ "probe" \notin {"ask", "connect"}
    BY <1>0, <1>3, SameAgain DEF Become, ClientState
  <2>2. QED
    BY <1>0, <1>1, <1>2, <2>1, QuietClient
<1>4. ASSUME NEW a \in Command, Ask(c, a) PROVE TalkInv'
  <2>1. /\ asking' = [asking EXCEPT ![c] = a] /\ a \in Command \cup {Nobody}
        /\ client' = [client EXCEPT ![c] = "ask"]
        /\ "ask" \in ClientState \ {"send", "receive"} /\ "ask" \notin {"connect", "kill"}
    BY <1>4 DEF Ask, Become, ClientState
  <2>2. QED
    BY <1>0, <1>1, <1>2, <2>1, QuietClient
<1>5. "stop" \in Command
  BY DEF Command
<1>6. QED
  BY <1>0, <1>3, <1>4, <1>5 DEF Begin

LEMMA QuietStepsKeep ==
  ASSUME TalkInv, NEW c \in Client,
         Probe(c) \/ Wait(c) \/ WaitTimeout(c) \/ ReadStatus(c) \/ NoAnswer(c)
  PROVE  TalkInv'
<1>0. Typed /\ ClientHas(c) /\ "run" \in Command
  BY DEF TalkInv, Command
<1>1. ~Connected(c) /\ inbox[c] = Nobody
  <2>1. CASE NoAnswer(c)
    BY <2>1 DEF NoAnswer
  <2>2. CASE ~NoAnswer(c)
    <3>1. client[c] \notin {"send", "receive"}
      BY <2>2 DEF Probe, Wait, WaitTimeout, ReadStatus
    <3>2. QED
      BY <3>1, NothingUnderWay
  <2>3. QED
    BY <2>1, <2>2
<1>2. UNCHANGED <<file, servers, connections, inbox>> /\ faults' \in Nat
  BY <1>0 DEF Probe, Wait, WaitTimeout, ReadStatus, NoAnswer, Typed
<1>3. GoesOn(c)
  <2>1. CASE Probe(c)
    <3>1. CASE doing[c] = "run" /\ UNCHANGED <<doing, target>> /\ IF Status # Nobody THEN Ask(c, "run") ELSE Become(c, "spawn") /\ UNCHANGED asking
      BY <1>0, <3>1 DEF GoesOn
    <3>2. CASE doing[c] = "start" /\ IF Status # Nobody THEN Finish(c) ELSE Become(c, "spawn") /\ UNCHANGED <<doing, asking, target>>
      BY <3>2 DEF GoesOn
    <3>3. CASE doing[c] = "kill" /\ IF Status = Nobody THEN Finish(c)
                             ELSE Become(c, "kill") /\ target' = [target EXCEPT ![c] = Status] /\ UNCHANGED <<doing, asking>>
      BY <3>3 DEF GoesOn
    <3>4. QED
      BY <2>1, <3>1, <3>2, <3>3 DEF Probe
  <2>2. CASE Wait(c)
    BY <1>0, <2>2 DEF Wait, GoesOn
  <2>3. CASE WaitTimeout(c) \/ NoAnswer(c)
    BY <2>3 DEF WaitTimeout, NoAnswer, GoesOn
  <2>4. CASE ReadStatus(c)
    <3>1. asking[c] \in Command
      BY <1>0, <2>4 DEF ReadStatus, ClientHas
    <3>2. QED
      BY <2>4, <3>1 DEF ReadStatus, GoesOn
  <2>5. QED
    BY <2>1, <2>2, <2>3, <2>4
<1>4. QED
  BY <1>1, <1>2, <1>3, GoesOnKeeps

\* Receive, TimeOut and Interrupt hang up.
LEMMA HangingUpKeeps ==
  ASSUME TalkInv, NEW c \in Client, Receive(c) \/ TimeOut(c) \/ Interrupt(c)
  PROVE  TalkInv'
<1>0. Typed /\ Talk
  BY DEF TalkInv, Typed
<1>1. /\ AtConnection(c, HungUp) /\ inbox' = [inbox EXCEPT ![c] = Nobody] /\ UNCHANGED <<file, servers>>
      /\ faults' \in Nat
  BY <1>0 DEF Receive, TimeOut, Interrupt, Fault, Typed
<1>2. queue' \in [Pid -> Seq(Connections)] /\ serving' \in [Pid -> Connections \cup {Nobody}] /\ SilentAll(c)
  BY <1>0, <1>1, HangsUp
<1>3. \/ Finish(c)
      \/ Become(c, "spawn") /\ UNCHANGED <<doing, asking, target>>
      \/ Ask(c, "stop") /\ doing' = [doing EXCEPT ![c] = "rerun"] /\ UNCHANGED target
  BY DEF Receive, TimeOut, Interrupt
<1>4. PICK s \in ClientState \ {"connect", "kill", "send", "receive"} :
        /\ client' = [client EXCEPT ![c] = s] /\ (s = "ask" => asking'[c] \in Command)
        /\ asking' \in [Client -> Command \cup {Nobody}] /\ target' \in [Client -> Pid \cup {Nobody}]
        /\ doing' \in [Client -> Command \cup {"rerun", Nobody}]
        /\ \A e \in Client \ {c} : asking'[e] = asking[e] /\ target'[e] = target[e]
  <2>1. CASE Finish(c)
    <3>1. Idle \in ClientState \ {"connect", "kill", "send", "receive"} /\ Idle # "ask"
      BY DEF ClientState, Idle
    <3>2. /\ client' = [client EXCEPT ![c] = Idle] /\ asking' \in [Client -> Command \cup {Nobody}]
          /\ target' \in [Client -> Pid \cup {Nobody}] /\ doing' \in [Client -> Command \cup {"rerun", Nobody}]
          /\ \A e \in Client \ {c} : asking'[e] = asking[e] /\ target'[e] = target[e]
      BY <1>0, <2>1 DEF Finish, Become, Typed
    <3>3. QED
      BY <3>1, <3>2
  <2>2. CASE Become(c, "spawn") /\ UNCHANGED <<doing, asking, target>>
    BY <1>0, <2>2 DEF Become, Typed, ClientState
  <2>3. CASE Ask(c, "stop") /\ doing' = [doing EXCEPT ![c] = "rerun"] /\ UNCHANGED target
    <3>1. "ask" \in ClientState \ {"connect", "kill", "send", "receive"} /\ "stop" \in Command
      BY DEF ClientState, Command
    <3>2. /\ client' = [client EXCEPT ![c] = "ask"] /\ asking' = [asking EXCEPT ![c] = "stop"]
          /\ doing' = [doing EXCEPT ![c] = "rerun"] /\ target' = target
      BY <2>3 DEF Ask, Become
    <3>3. QED
      BY <1>0, <3>1, <3>2 DEF Typed
  <2>4. QED
    BY <1>3, <2>1, <2>2, <2>3
<1>5. Typed' /\ inbox'[c] = Nobody /\ client'[c] = s
  <2>1. /\ client' \in [Client -> ClientState] /\ inbox' \in [Client -> Response \cup {Nobody}]
        /\ inbox'[c] = Nobody /\ client'[c] = s
    BY <1>0, <1>1, <1>4 DEF Typed, Talk
  <2>2. QED
    BY <1>0, <1>1, <1>2, <1>4, <2>1 DEF Typed, Talk, servers
<1>6. OthersSame(c)
  BY <1>0, <1>1, <1>4 DEF Typed, Talk, OthersSame
<1>7. ClientHas(c)'
  BY <1>4, <1>5 DEF ClientHas
<1>8. QED
  BY <1>1, <1>2, <1>5, <1>6, <1>7, ClientKeeps DEF servers

LEMMA SpawnKeeps ==
  ASSUME TalkInv, NEW c \in Client, Spawn(c)
  PROVE  TalkInv'
<1>0. Typed /\ client[c] = "spawn"
  BY DEF TalkInv, Spawn
<1>1. PICK p \in Pid : server[p] = "unborn" /\ server' = [server EXCEPT ![p] = "init"]
  BY DEF Spawn
<1>2. /\ client' = [client EXCEPT ![c] = "wait"] /\ file' = Nobody
      /\ UNCHANGED <<handle, command, result, connections, doing, asking, target, inbox, faults>>
  BY DEF Spawn, Become
<1>3. SilentAll(c) /\ inbox[c] = Nobody
  BY <1>0, <1>2, NothingUnderWay, NotConnected
<1>4. Typed' /\ OthersSame(c) /\ ClientHas(c)'
  <2>1. client' \in [Client -> ClientState] /\ server' \in [Pid -> ServerState] /\ client'[c] = "wait"
    BY <1>0, <1>1, <1>2 DEF Typed, ClientState, ServerState
  <2>2. Typed'
    BY <1>0, <1>2, <2>1 DEF Typed, Talk, connections
  <2>3. QED
    BY <1>0, <1>2, <1>3, <2>1, <2>2 DEF Typed, OthersSame, ClientHas
<1>5. AllHeld' /\ \A e \in Client : ClientHas(e)'
  BY <1>3, <1>4, ClientMoves DEF OthersSame
<1>6. ASSUME NEW q \in Pid PROVE ServerHas(q)'
  <2>1. ServerHas(q) /\ serving' = serving /\ command' = command /\ result' = result
    BY <1>2 DEF TalkInv, connections
  <2>2. CASE q = p
    <3>1. server'[q] = "init" /\ server[q] = "unborn"
      BY <1>0, <1>1, <2>2 DEF Typed
    <3>2. QED
      BY <2>1, <3>1 DEF ServerHas
  <2>3. CASE q # p
    <3>1. server'[q] = server[q]
      BY <1>0, <1>1, <2>3 DEF Typed
    <3>2. QED
      BY <2>1, <3>1 DEF ServerHas
  <2>4. QED
    BY <2>2, <2>3
<1>7. QED
  BY <1>4, <1>5, <1>6 DEF TalkInv

\* A connection stays as it is.
LEMMA HeldStays ==
  ASSUME NEW k, Held(k), k # Nobody /\ k.up => client'[k.client] = client[k.client] /\ asking'[k.client] = asking[k.client]
  PROVE  StillHeld(k)
BY DEF Held, StillHeld

\* A process that ends takes its connections with it.
LEMMA VanishKeeps ==
  ASSUME TalkInv, NEW p \in Pid, Vanish(p)
  PROVE  /\ queue' \in [Pid -> Seq(Connections)] /\ serving' \in [Pid -> Connections \cup {Nobody}]
         /\ server' \in [Pid -> ServerState] /\ handle' \in [Pid -> Pid \cup {Nobody}]
         /\ command' \in [Pid -> Command \cup {Nobody}] /\ result' \in [Pid -> Response \cup {Nobody}]
         /\ \A q \in Pid : ServerHas(q)'
         /\ (\A k \in Connections : Held(k) => StillHeld(k)) => AllHeld'
<1>0. Typed /\ Talk
  BY DEF TalkInv, Typed
<1>1. /\ server' = [server EXCEPT ![p] = "dead"] /\ command' = [command EXCEPT ![p] = Nobody]
      /\ result' = [result EXCEPT ![p] = Nobody] /\ handle' = [handle EXCEPT ![p] = Nobody]
      /\ queue' = [queue EXCEPT ![p] = <<>>] /\ serving' = [serving EXCEPT ![p] = Nobody]
  BY DEF Vanish
<1>2. /\ queue' \in [Pid -> Seq(Connections)] /\ serving' \in [Pid -> Connections \cup {Nobody}]
      /\ server' \in [Pid -> ServerState] /\ handle' \in [Pid -> Pid \cup {Nobody}]
      /\ command' \in [Pid -> Command \cup {Nobody}] /\ result' \in [Pid -> Response \cup {Nobody}]
  <2>1. <<>> \in Seq(Connections) /\ "dead" \in ServerState
    BY EmptySeq DEF ServerState
  <2>2. QED
    BY <1>0, <1>1, <2>1 DEF Typed, Talk
<1>3. ASSUME NEW q \in Pid PROVE ServerHas(q)'
  <2>1. ServerHas(q)
    BY DEF TalkInv
  <2>2. CASE q = p
    BY <1>0, <1>1, <2>2 DEF ServerHas, Typed, Talk
  <2>3. CASE q # p
    BY <1>0, <1>1, <2>1, <2>3 DEF ServerHas, Typed, Talk
  <2>4. QED
    BY <2>2, <2>3
<1>4. ASSUME \A k \in Connections : Held(k) => StillHeld(k)
      PROVE  AllHeld'
  <2>1. ASSUME NEW q \in Pid
        PROVE  StillHeld(serving'[q]) /\ \A i \in DOMAIN queue'[q] : StillHeld(queue'[q][i])
    <3>1. CASE q = p
      <4>1. serving'[q] = Nobody /\ queue'[q] = <<>>
        BY <1>0, <1>1, <3>1 DEF Talk
      <4>2. QED
        BY <4>1 DEF StillHeld
    <3>2. CASE q # p
      <4>1. serving'[q] = serving[q] /\ queue'[q] = queue[q] /\ serving[q] \in Connections \cup {Nobody}
        BY <1>0, <1>1, <3>2 DEF Talk
      <4>2. Held(serving[q]) /\ \A i \in DOMAIN queue[q] : queue[q][i] \in Connections /\ Held(queue[q][i])
        BY <1>0, QueueFacts DEF TalkInv, AllHeld
      <4>3. CASE serving[q] = Nobody
        BY <1>4, <4>1, <4>2, <4>3 DEF StillHeld
      <4>4. CASE serving[q] # Nobody
        BY <1>4, <4>1, <4>2, <4>4
      <4>5. QED
        BY <4>3, <4>4
    <3>3. QED
      BY <3>1, <3>2
  <2>2. QED
    BY <2>1, AllStillHeld
<1>5. QED
  BY <1>2, <1>3, <1>4

LEMMA KillKeeps ==
  ASSUME TalkInv, NEW c \in Client, Kill(c)
  PROVE  TalkInv'
<1>0. Typed /\ client[c] = "kill" /\ target[c] \in Pid /\ \A e \in Client : ClientHas(e)
  BY DEF TalkInv, Kill, ClientHas
<1>1. /\ client' = [client EXCEPT ![c] = Idle] /\ doing' = [doing EXCEPT ![c] = Nobody]
      /\ asking' = [asking EXCEPT ![c] = Nobody] /\ target' = [target EXCEPT ![c] = Nobody]
      /\ UNCHANGED <<file, inbox, faults>>
  BY DEF Kill, Finish, Become
<1>2. CASE Alive(target[c])
  <2>1. Vanish(target[c])
    BY <1>2 DEF Kill
  <2>2. /\ queue' \in [Pid -> Seq(Connections)] /\ serving' \in [Pid -> Connections \cup {Nobody}]
        /\ server' \in [Pid -> ServerState] /\ handle' \in [Pid -> Pid \cup {Nobody}]
        /\ command' \in [Pid -> Command \cup {Nobody}] /\ result' \in [Pid -> Response \cup {Nobody}]
        /\ \A q \in Pid : ServerHas(q)'
        /\ (\A k \in Connections : Held(k) => StillHeld(k)) => AllHeld'
    BY <1>0, <2>1, VanishKeeps
  <2>3. ASSUME NEW k \in Connections, Held(k) PROVE StillHeld(k)
    <3>1. k # Nobody /\ k.up => k.client \in Client \ {c}
      BY <1>0, <2>3 DEF Held, Connections
    <3>2. QED
      BY <1>0, <1>1, <2>3, <3>1, HeldStays DEF Typed
  <2>4. Typed' /\ \A e \in Client : ClientHas(e)'
    <3>1. client' \in [Client -> ClientState]
      BY <1>0, <1>1 DEF Typed, ClientState, Idle
    <3>2. Typed'
      BY <1>0, <1>1, <2>2, <3>1 DEF Typed, Talk
    <3>3. ClientHas(c)'
      BY <1>0, <1>1 DEF ClientHas, Typed, Idle
    <3>4. \A e \in Client \ {c} : ClientHas(e)'
      BY <1>0, <1>1 DEF ClientHas, Typed
    <3>5. QED
      BY <3>2, <3>3, <3>4
  <2>5. QED
    BY <2>2, <2>3, <2>4 DEF TalkInv
<1>3. CASE ~Alive(target[c])
  <2>1. UNCHANGED <<servers, connections>> /\ Finish(c) /\ faults' \in Nat
    BY <1>0, <1>1, <1>3 DEF Kill, Typed
  <2>2. ~Connected(c) /\ inbox[c] = Nobody
    BY <1>0, NothingUnderWay
  <2>3. GoesOn(c)
    BY <2>1 DEF GoesOn
  <2>4. QED
    BY <1>1, <2>1, <2>2, <2>3, GoesOnKeeps
<1>4. QED
  BY <1>2, <1>3

LEMMA ConnectKeeps ==
  ASSUME TalkInv, NEW c \in Client, ConnectServer(c)
  PROVE  TalkInv'
<1>0. /\ Typed /\ Talk /\ client[c] = "connect" /\ target[c] \in Pid /\ asking[c] \in Command
      /\ ~Connected(c) /\ inbox[c] = Nobody
  <2>1. Typed /\ ClientHas(c) /\ client[c] = "connect"
    BY DEF TalkInv, ConnectServer
  <2>2. QED
    BY <2>1, NothingUnderWay DEF ClientHas, Typed
<1>1. CASE ~Listening(target[c])
  <2>1. Finish(c) /\ UNCHANGED <<file, servers, connections, inbox>> /\ faults' \in Nat
    BY <1>0, <1>1 DEF ConnectServer, connections, Typed
  <2>2. QED
    BY <1>0, <2>1, GoesOnKeeps DEF GoesOn
<1>2. CASE Listening(target[c])
  <2> DEFINE t == target[c]
             new == Connection(c)
  <2>1. /\ queue' = [queue EXCEPT ![t] = Append(@, new)] /\ client' = [client EXCEPT ![c] = "send"]
        /\ UNCHANGED <<doing, asking, target, file, servers, serving, inbox, faults>>
    BY <1>2 DEF ConnectServer, Become
  <2>2. new \in Connections /\ new.client = c /\ new.sent = Nobody
    BY DEF Connection, Connections
  <2>3. StillHeld(new)
    BY <1>0, <2>1, <2>2 DEF StillHeld, Typed
  <2> HIDE DEF new
  <2>4. /\ Append(queue[t], new) \in Seq(Connections)
        /\ \A i \in DOMAIN Append(queue[t], new) : Append(queue[t], new)[i] = new \/ (i \in DOMAIN queue[t] /\ Append(queue[t], new)[i] = queue[t][i])
    <3>1. queue[t] \in Seq(Connections) /\ DOMAIN queue[t] = 1..Len(queue[t]) /\ Len(queue[t]) \in Nat
      BY <1>0, QueueFacts DEF Talk
    <3>2. /\ Append(queue[t], new) \in Seq(Connections) /\ Len(Append(queue[t], new)) = Len(queue[t]) + 1
          /\ \A i \in 1..Len(queue[t]) : Append(queue[t], new)[i] = queue[t][i]
          /\ Append(queue[t], new)[Len(queue[t]) + 1] = new
      BY <2>2, <3>1, AppendProperties
    <3>3. DOMAIN Append(queue[t], new) = 1..(Len(queue[t]) + 1)
      BY <3>2
    <3>4. \A i \in 1..(Len(queue[t]) + 1) : i \in 1..Len(queue[t]) \/ i = Len(queue[t]) + 1
      BY <3>1
    <3>5. QED
      BY <3>1, <3>2, <3>3, <3>4
  <2>5. ASSUME NEW k \in Connections \cup {Nobody}, Held(k) PROVE StillHeld(k)
    <3>1. k # Nobody /\ k.up => k.client \in Client \ {c}
      BY <1>0, <2>5 DEF Held, Connections
    <3>2. QED
      BY <1>0, <2>1, <2>5, <3>1, HeldStays DEF Typed
  <2>6. AllHeld'
    <3>1. ASSUME NEW p \in Pid
          PROVE  StillHeld(serving'[p]) /\ \A i \in DOMAIN queue'[p] : StillHeld(queue'[p][i])
      <4>1. /\ serving'[p] = serving[p] /\ serving[p] \in Connections \cup {Nobody} /\ Held(serving[p])
            /\ \A i \in DOMAIN queue[p] : queue[p][i] \in Connections /\ Held(queue[p][i])
        BY <1>0, <2>1, QueueFacts DEF TalkInv, AllHeld, Talk
      <4>2. CASE p = t
        <5>1. queue'[p] = Append(queue[t], new)
          BY <1>0, <2>1, <4>2 DEF Talk
        <5>2. QED
          BY <2>3, <2>4, <2>5, <4>1, <4>2, <5>1
      <4>3. CASE p # t
        <5>1. queue'[p] = queue[p]
          BY <1>0, <2>1, <4>3 DEF Talk
        <5>2. QED
          BY <2>5, <4>1, <5>1
      <4>4. QED
        BY <4>2, <4>3
    <3>2. QED
      BY <3>1, AllStillHeld
  <2>7. Typed' /\ \A e \in Client : ClientHas(e)'
    <3>1. client' \in [Client -> ClientState] /\ queue' \in [Pid -> Seq(Connections)]
      BY <1>0, <2>1, <2>4 DEF Typed, Talk, ClientState
    <3>2. Typed'
      BY <1>0, <2>1, <3>1 DEF Typed, Talk, servers
    <3>3. ClientHas(c)'
      BY <1>0, <2>1 DEF ClientHas, Typed
    <3>4. \A e \in Client \ {c} : ClientHas(e)'
      BY <1>0, <2>1 DEF ClientHas, Typed, TalkInv
    <3>5. QED
      BY <3>2, <3>3, <3>4
  <2>8. \A p \in Pid : ServerHas(p)'
    BY <2>1 DEF TalkInv, ServerHas, servers
  <2>9. QED
    BY <2>6, <2>7, <2>8 DEF TalkInv
<1>3. QED
  BY <1>1, <1>2

LEMMA SendKeeps ==
  ASSUME TalkInv, NEW c \in Client, Send(c)
  PROVE  TalkInv'
<1>0. Typed /\ Talk /\ client[c] = "send" /\ asking[c] \in Command /\ inbox[c] = Nobody
  <2>1. Typed /\ ClientHas(c) /\ client[c] = "send"
    BY DEF TalkInv, Send
  <2>2. QED
    BY <2>1 DEF ClientHas, Typed
<1>1. /\ queue' = [p \in Pid |-> [i \in DOMAIN queue[p] |-> WithSent(queue[p][i], c)]]
      /\ serving' = [p \in Pid |-> WithSent(serving[p], c)]
      /\ client' = [client EXCEPT ![c] = "receive"]
      /\ UNCHANGED <<file, servers, doing, asking, target, inbox, faults>>
  BY DEF Send, AtConnection, Become
<1>2. ASSUME NEW k \in Connections \cup {Nobody}, Held(k) PROVE StillHeld(WithSent(k, c))
  <2>1. CASE k = Nobody
    BY <1>0, <2>1, WithSentFacts DEF StillHeld
  <2>2. CASE k # Nobody
    <3> DEFINE k1 == WithSent(k, c)
    <3>1. /\ k1.client = k.client /\ k.client \in Client /\ (k1.up => k.up)
          /\ k.client = c /\ k.up => k1.sent = asking[c]
          /\ k.client # c => k1.sent = k.sent
      BY <1>0, <2>2, WithSentFacts DEF Connections
    <3>2. /\ client'[c] = "receive" /\ asking' = asking
          /\ k.client # c => client'[k.client] = client[k.client]
      BY <1>0, <1>1, <3>1 DEF Typed
    <3>3. k.client # c /\ k.up => \/ client[k.client] = "send" /\ k.sent = Nobody
                                  \/ client[k.client] = "receive" /\ k.sent = asking[k.client]
      BY <1>2, <2>2 DEF Held
    <3> HIDE DEF k1
    <3>4. StillHeld(k1)
      BY <3>1, <3>2, <3>3 DEF StillHeld
    <3>5. QED
      BY <3>4 DEF k1
  <2>3. QED
    BY <2>1, <2>2
<1>3. ASSUME NEW p \in Pid
      PROVE  /\ queue'[p] \in Seq(Connections) /\ serving'[p] \in Connections \cup {Nobody}
             /\ StillHeld(serving'[p]) /\ \A i \in DOMAIN queue'[p] : StillHeld(queue'[p][i])
  <2>1. queue'[p] = [i \in DOMAIN queue[p] |-> WithSent(queue[p][i], c)] /\ serving'[p] = WithSent(serving[p], c)
    BY <1>1
  <2>2. /\ Len(queue[p]) \in Nat /\ DOMAIN queue[p] = 1..Len(queue[p])
        /\ \A i \in DOMAIN queue[p] : queue[p][i] \in Connections /\ Held(queue[p][i])
        /\ serving[p] \in Connections \cup {Nobody} /\ Held(serving[p])
    BY <1>0, QueueFacts DEF TalkInv, AllHeld, Talk
  <2>3. queue'[p] \in [1..Len(queue[p]) -> Connections]
    BY <1>0, <2>1, <2>2, WithSentFacts
  <2>4. QED
    BY <1>0, <1>2, <2>1, <2>2, <2>3, WithSentFacts
<1>4. AllHeld'
  BY <1>3, AllStillHeld
<1>5. Typed' /\ \A e \in Client : ClientHas(e)'
  <2>1. client' \in [Client -> ClientState] /\ queue' \in [Pid -> Seq(Connections)] /\ serving' \in [Pid -> Connections \cup {Nobody}]
    BY <1>0, <1>1, <1>3 DEF Typed, ClientState
  <2>2. Typed'
    BY <1>0, <1>1, <2>1 DEF Typed, Talk, servers
  <2>3. ClientHas(c)'
    BY <1>0, <1>1 DEF ClientHas, Typed
  <2>4. \A e \in Client \ {c} : ClientHas(e)'
    BY <1>0, <1>1 DEF ClientHas, Typed, TalkInv
  <2>5. QED
    BY <2>2, <2>3, <2>4
<1>6. ASSUME NEW p \in Pid PROVE ServerHas(p)'
  <2>1. /\ ServerHas(p) /\ Held(serving[p]) /\ serving[p] \in Connections \cup {Nobody}
        /\ server' = server /\ command' = command /\ result' = result /\ serving'[p] = WithSent(serving[p], c)
    BY <1>0, <1>1 DEF TalkInv, AllHeld, Talk, servers
  <2>2. serving[p] # Nobody => serving'[p] # Nobody
    BY <1>0, <2>1, WithSentFacts, Constants
  <2>3. server[p] \in {"run", "reply"} => serving'[p].sent = serving[p].sent
    <3> SUFFICES ASSUME server[p] \in {"run", "reply"} PROVE serving'[p].sent = serving[p].sent
      OBVIOUS
    <3>1. serving[p] # Nobody /\ serving[p].sent # Nobody
      BY <2>1 DEF ServerHas
    <3>2. ~(serving[p].client = c /\ serving[p].up)
      BY <1>0, <2>1, <3>1 DEF Held
    <3>3. QED
      BY <1>0, <2>1, <3>1, <3>2, WithSentFacts
  <2>4. QED
    BY <2>1, <2>2, <2>3 DEF ServerHas
<1>7. QED
  BY <1>4, <1>5, <1>6 DEF TalkInv

-----------------------------------------------------------------------------
(* The steps of a server. *)

\* Steps that touch no connection.
LEMMA QuietServer ==
  ASSUME TalkInv, UNCHANGED <<connections, clients, inbox>>, Typed', \A p \in Pid : ServerHas(p)'
  PROVE  TalkInv'
<1>1. AllHeld'
  BY DEF TalkInv, AllHeld, Held, connections, clients
<1>2. \A c \in Client : ClientHas(c)'
  BY DEF TalkInv, ClientHas, clients
<1>3. QED
  BY <1>1, <1>2 DEF TalkInv

LEMMA QuietServerKeeps ==
  ASSUME TalkInv, NEW p \in Pid,
         Open(p) \/ WritePid(p) \/ IdleTimeout(p) \/ Read(p) \/ ReadFails(p) \/ Run(p) \/ Exit(p)
  PROVE  TalkInv'
<1>0. Typed /\ Talk /\ ServerHas(p) /\ serving[p] \in Connections \cup {Nobody}
  BY DEF TalkInv, Typed, Talk
<1>1. PICK to \in ServerState : server' = [server EXCEPT ![p] = to]
  BY DEF Open, WritePid, IdleTimeout, Read, ReadFails, Run, Exit, ServerTurn, ServerState
<1>2. UNCHANGED <<connections, clients, inbox>> /\ faults' \in Nat
  BY <1>0 DEF Open, WritePid, IdleTimeout, Read, ReadFails, Run, Exit, Typed, Fault, NoFault
<1>3. file' = Nobody \/ file' \in File
  <2>1. CASE Open(p)
    BY <1>0, <2>1 DEF Open, File, Typed
  <2>2. CASE WritePid(p)
    BY <1>0, <2>2 DEF WritePid, File, Typed
  <2>3. CASE ~Open(p) /\ ~WritePid(p)
    BY <1>0, <2>3 DEF IdleTimeout, Read, ReadFails, Run, Exit, Typed
  <2>4. QED
    BY <2>1, <2>2, <2>3
<1>4. /\ handle' \in [Pid -> Pid \cup {Nobody}] /\ command' \in [Pid -> Command \cup {Nobody}]
      /\ result' \in [Pid -> Response \cup {Nobody}]
      /\ \A q \in Pid \ {p} : command'[q] = command[q] /\ result'[q] = result[q]
  <2>1. CASE Open(p)
    <3>1. handle' \in [Pid -> Pid \cup {Nobody}]
      BY <1>0, <2>1 DEF Open, File, Typed
    <3>2. QED
      BY <1>0, <2>1, <3>1 DEF Open, Typed
  <2>2. CASE WritePid(p)
    BY <1>0, <2>2 DEF WritePid, Typed
  <2>3. CASE Read(p)
    <3>1. serving[p].sent \in Command \cup {Nobody}
      BY <1>0, <2>3 DEF Read, ServerHas, Connections
    <3>2. QED
      BY <1>0, <2>3, <3>1 DEF Read, Typed
  <2>4. CASE Run(p)
    BY <1>0, <2>4 DEF Run, Typed, Response
  <2>5. CASE IdleTimeout(p) \/ ReadFails(p) \/ Exit(p)
    BY <1>0, <2>5 DEF IdleTimeout, ReadFails, Exit, Typed
  <2>6. QED
    BY <2>1, <2>2, <2>3, <2>4, <2>5
<1>5. Typed'
  <2>1. server' \in [Pid -> ServerState]
    BY <1>0, <1>1 DEF Typed
  <2>2. QED
    BY <1>0, <1>2, <1>3, <1>4, <2>1 DEF Typed, Talk, connections, clients
<1>6. ServerHas(p)'
  <2>0. serving' = serving /\ server'[p] = to
    BY <1>0, <1>1, <1>2 DEF connections, Typed
  <2>1. CASE Open(p)
    BY <1>0, <2>0, <2>1 DEF Open, ServerTurn, ServerHas, Typed
  <2>2. CASE WritePid(p)
    BY <1>0, <2>0, <2>2 DEF WritePid, ServerTurn, ServerHas, Typed
  <2>3. CASE IdleTimeout(p)
    BY <1>0, <2>0, <2>3 DEF IdleTimeout, ServerTurn, ServerHas, Typed
  <2>4. CASE Read(p)
    <3>1. server[p] = "read" /\ server'[p] = "run" /\ result' = result
          /\ command'[p] = serving[p].sent /\ serving[p].sent # Nobody
      BY <1>0, <2>4 DEF Read, Typed
    <3>2. QED
      BY <1>0, <2>0, <3>1 DEF ServerHas
  <2>5. CASE ReadFails(p)
    BY <1>0, <2>0, <2>5 DEF ReadFails, ServerHas, Typed
  <2>6. CASE Run(p)
    <3>1. server[p] = "run" /\ server'[p] = "reply" /\ command' = command /\ result'[p] \in Response
      BY <1>0, <2>6 DEF Run, ServerTurn, Typed, Response
    <3>2. QED
      BY <1>0, <2>0, <3>1, Constants DEF ServerHas
  <2>7. CASE Exit(p)
    BY <1>0, <2>0, <2>7 DEF Exit, ServerTurn, ServerHas, Typed
  <2>8. QED
    BY <2>1, <2>2, <2>3, <2>4, <2>5, <2>6, <2>7
<1>7. ASSUME NEW q \in Pid \ {p} PROVE ServerHas(q)'
  <2>1. server'[q] = server[q] /\ command'[q] = command[q] /\ result'[q] = result[q] /\ serving' = serving /\ ServerHas(q)
    BY <1>0, <1>1, <1>2, <1>4 DEF TalkInv, Typed, connections
  <2>2. QED
    BY <2>1 DEF ServerHas
<1>8. QED
  BY <1>2, <1>5, <1>6, <1>7, QuietServer

LEMMA AcceptKeeps ==
  ASSUME TalkInv, NEW p \in Pid, AcceptClient(p)
  PROVE  TalkInv'
<1>0. Typed /\ Talk /\ queue[p] \in Seq(Connections) /\ queue[p] # <<>> /\ server[p] = "accept"
  BY DEF TalkInv, Typed, Talk, AcceptClient, ServerTurn
<1>1. /\ server' = [server EXCEPT ![p] = "read"] /\ serving' = [serving EXCEPT ![p] = Head(queue[p])]
      /\ queue' = [queue EXCEPT ![p] = Tail(queue[p])]
      /\ UNCHANGED <<file, handle, command, result, clients, inbox, faults>>
  BY DEF AcceptClient, ServerTurn
<1>2. /\ Head(queue[p]) \in Connections /\ Head(queue[p]) = queue[p][1] /\ 1 \in DOMAIN queue[p]
      /\ Tail(queue[p]) \in Seq(Connections)
      /\ \A i \in DOMAIN Tail(queue[p]) : i + 1 \in DOMAIN queue[p] /\ Tail(queue[p])[i] = queue[p][i + 1]
  <2>1. /\ Head(queue[p]) \in Connections /\ Tail(queue[p]) \in Seq(Connections)
        /\ Len(Tail(queue[p])) = Len(queue[p]) - 1
        /\ \A i \in 1..Len(Tail(queue[p])) : Tail(queue[p])[i] = queue[p][i + 1]
    BY <1>0, HeadTailProperties
  <2>2. Len(queue[p]) \in Nat /\ DOMAIN queue[p] = 1..Len(queue[p])
    BY <1>0, QueueFacts
  <2>3. Len(queue[p]) # 0
    BY <1>0, EmptySeq
  <2>4. DOMAIN Tail(queue[p]) = 1..Len(Tail(queue[p]))
    BY <2>1
  <2>5. 1 \in DOMAIN queue[p] /\ \A i \in 1..(Len(queue[p]) - 1) : i + 1 \in 1..Len(queue[p])
    BY <2>2, <2>3
  <2>6. Head(queue[p]) = queue[p][1]
    OBVIOUS
  <2>7. QED
    BY <2>1, <2>2, <2>4, <2>5, <2>6
<1>3. Typed'
  <2>1. /\ server' \in [Pid -> ServerState] /\ serving' \in [Pid -> Connections \cup {Nobody}]
        /\ queue' \in [Pid -> Seq(Connections)]
    BY <1>0, <1>1, <1>2 DEF Typed, Talk, ServerState
  <2>2. QED
    BY <1>0, <1>1, <2>1 DEF Typed, Talk, clients
<1>4. ASSUME NEW k, Held(k) PROVE StillHeld(k)
  BY <1>1, <1>4, HeldStays DEF clients
<1>5. AllHeld'
  <2>1. ASSUME NEW q \in Pid
        PROVE  StillHeld(serving'[q]) /\ \A i \in DOMAIN queue'[q] : StillHeld(queue'[q][i])
    <3>1. Held(serving[q]) /\ \A i \in DOMAIN queue[q] : Held(queue[q][i])
      BY DEF TalkInv, AllHeld
    <3>2. CASE q = p
      <4>1. serving'[q] = queue[q][1] /\ queue'[q] = Tail(queue[q])
        BY <1>0, <1>1, <1>2, <3>2 DEF Talk
      <4>2. QED
        BY <1>2, <1>4, <3>1, <3>2, <4>1
    <3>3. CASE q # p
      <4>1. serving'[q] = serving[q] /\ queue'[q] = queue[q]
        BY <1>0, <1>1, <3>3 DEF Talk
      <4>2. QED
        BY <1>4, <3>1, <4>1
    <3>4. QED
      BY <3>2, <3>3
  <2>2. QED
    BY <2>1, AllStillHeld
<1>6. ASSUME NEW q \in Pid PROVE ServerHas(q)'
  <2>1. ServerHas(q) /\ command' = command /\ result' = result
    BY <1>1 DEF TalkInv
  <2>2. CASE q = p
    <3>1. server'[q] = "read" /\ server[q] = "accept" /\ serving'[q] \in Connections
      BY <1>0, <1>1, <1>2, <2>2 DEF Typed, Talk
    <3>2. QED
      BY <2>1, <3>1, Constants DEF ServerHas
  <2>3. CASE q # p
    <3>1. server'[q] = server[q] /\ serving'[q] = serving[q]
      BY <1>0, <1>1, <2>3 DEF Typed, Talk
    <3>2. QED
      BY <2>1, <3>1 DEF ServerHas
  <2>4. QED
    BY <2>2, <2>3
<1>7. \A c \in Client : ClientHas(c)'
  BY <1>1 DEF TalkInv, ClientHas, clients
<1>8. QED
  BY <1>3, <1>5, <1>6, <1>7 DEF TalkInv

LEMMA ReplyKeeps ==
  ASSUME TalkInv, NEW p \in Pid, Reply(p)
  PROVE  /\ TalkInv'
         /\ \A c \in Client : inbox'[c] # inbox[c]
              => /\ serving[p].client = c /\ serving[p].up /\ inbox'[c] = result[p]
                 /\ asking[c] = command[p]
<1>0. /\ Typed /\ Talk /\ server[p] = "reply" /\ serving[p] \in Connections /\ result[p] \in Response
      /\ ServerHas(p) /\ Held(serving[p]) /\ command[p] = serving[p].sent /\ command[p] # Nobody
  <2>1. Typed /\ Talk /\ server[p] = "reply" /\ ServerHas(p) /\ Held(serving[p])
    BY DEF TalkInv, Typed, Talk, AllHeld, Reply
  <2>2. QED
    BY <2>1 DEF ServerHas, Typed, Talk
<1>1. PICK to \in {"exit", "accept"} :
        server' = [server EXCEPT ![p] = to] /\ (to = "accept" => command[p] # "stop")
  BY DEF Reply
<1>2. /\ serving' = [serving EXCEPT ![p] = Nobody] /\ result' = [result EXCEPT ![p] = Nobody]
      /\ UNCHANGED <<file, handle, queue, command, clients, faults>>
      /\ inbox' = IF serving[p].up THEN [inbox EXCEPT ![serving[p].client] = result[p]] ELSE inbox
  BY DEF Reply
<1>3. serving[p].client \in Client
      /\ (serving[p].up => client[serving[p].client] = "receive" /\ asking[serving[p].client] = command[p])
  BY <1>0, Constants DEF Held, Connections
<1>4. Typed'
  <2>1. server' \in [Pid -> ServerState] /\ serving' \in [Pid -> Connections \cup {Nobody}]
        /\ result' \in [Pid -> Response \cup {Nobody}]
    BY <1>0, <1>1, <1>2 DEF Typed, Talk, ServerState
  <2>2. inbox' \in [Client -> Response \cup {Nobody}]
    BY <1>0, <1>2, <1>3 DEF Talk
  <2>3. QED
    BY <1>0, <1>2, <2>1, <2>2 DEF Typed, Talk, clients
<1>5. ASSUME NEW c \in Client PROVE ClientHas(c)'
  <2>1. ClientHas(c) /\ client' = client /\ asking' = asking /\ target' = target
    BY <1>2 DEF TalkInv, clients
  <2>2. inbox'[c] # Nobody => client[c] = "receive"
    BY <1>0, <1>2, <1>3, <2>1 DEF ClientHas, Talk
  <2>3. QED
    BY <2>1, <2>2 DEF ClientHas
<1>6. AllHeld'
  <2>1. ASSUME NEW k, Held(k) PROVE StillHeld(k)
    BY <1>2, <2>1, HeldStays DEF clients
  <2>2. ASSUME NEW q \in Pid
        PROVE  StillHeld(serving'[q]) /\ \A i \in DOMAIN queue'[q] : StillHeld(queue'[q][i])
    <3>1. Held(serving[q]) /\ (\A i \in DOMAIN queue[q] : Held(queue[q][i])) /\ queue' = queue
      BY <1>2 DEF TalkInv, AllHeld
    <3>2. serving'[q] = Nobody \/ serving'[q] = serving[q]
      BY <1>0, <1>2 DEF Talk
    <3>3. StillHeld(Nobody)
      BY DEF StillHeld
    <3>4. QED
      BY <2>1, <3>1, <3>2, <3>3
  <2>3. QED
    BY <2>2, AllStillHeld
<1>7. ASSUME NEW q \in Pid PROVE ServerHas(q)'
  <2>1. ServerHas(q) /\ command' = command
    BY <1>2 DEF TalkInv
  <2>2. CASE q = p
    <3>1. server'[q] = to /\ result'[q] = Nobody
      BY <1>0, <1>1, <1>2, <2>2 DEF Typed
    <3>2. QED
      BY <1>1, <2>1, <2>2, <3>1 DEF ServerHas
  <2>3. CASE q # p
    <3>1. server'[q] = server[q] /\ serving'[q] = serving[q] /\ result'[q] = result[q]
      BY <1>0, <1>1, <1>2, <2>3 DEF Typed, Talk
    <3>2. QED
      BY <2>1, <3>1 DEF ServerHas
  <2>4. QED
    BY <2>2, <2>3
<1>8. \A c \in Client : inbox'[c] # inbox[c]
        => serving[p].client = c /\ serving[p].up /\ inbox'[c] = result[p] /\ asking[c] = command[p]
  BY <1>0, <1>2, <1>3 DEF Talk
<1>9. QED
  BY <1>4, <1>5, <1>6, <1>7, <1>8 DEF TalkInv

LEMMA EndServerKeeps ==
  ASSUME TalkInv, NEW p \in Pid, EndServer(p)
  PROVE  TalkInv'
<1>1. /\ queue' \in [Pid -> Seq(Connections)] /\ serving' \in [Pid -> Connections \cup {Nobody}]
      /\ server' \in [Pid -> ServerState] /\ handle' \in [Pid -> Pid \cup {Nobody}]
      /\ command' \in [Pid -> Command \cup {Nobody}] /\ result' \in [Pid -> Response \cup {Nobody}]
      /\ \A q \in Pid : ServerHas(q)'
      /\ (\A k \in Connections : Held(k) => StillHeld(k)) => AllHeld'
  BY VanishKeeps DEF EndServer
<1>2. UNCHANGED <<file, clients, inbox, faults>>
  BY DEF EndServer
<1>3. \A k \in Connections : Held(k) => StillHeld(k)
  BY <1>2, HeldStays DEF clients
<1>4. Typed' /\ \A c \in Client : ClientHas(c)'
  BY <1>1, <1>2 DEF TalkInv, Typed, Talk, ClientHas, clients
<1>5. QED
  BY <1>1, <1>3, <1>4 DEF TalkInv

LEMMA TalkInit == DaemonInit => TalkInv
<1> SUFFICES ASSUME DaemonInit PROVE TalkInv
  OBVIOUS
<1>1. Typed
  <2>1. <<>> \in Seq(Connections) /\ Idle \in ClientState /\ "unborn" \in ServerState
    BY EmptySeq DEF ClientState, ServerState, Idle
  <2>2. QED
    BY <2>1 DEF DaemonInit, Typed, Talk
<1>2. \A c \in Client : ClientHas(c)
  BY DEF DaemonInit, ClientHas, Idle
<1>3. \A p \in Pid : serving[p] = Nobody /\ queue[p] = <<>> /\ server[p] = "unborn" /\ command[p] = Nobody /\ result[p] = Nobody
  BY DEF DaemonInit
<1>4. AllHeld
  BY <1>3 DEF AllHeld, Held
<1>5. ASSUME NEW p \in Pid PROVE ServerHas(p)
  <2>1. Nobody # "stop"
    BY Constants DEF Command
  <2>2. QED
    BY <1>3, <2>1 DEF ServerHas
<1>6. QED
  BY <1>1, <1>2, <1>4, <1>5 DEF TalkInv

LEMMA TalkStep == TalkInv /\ [DaemonNext]_daemonVars => TalkInv'
<1> SUFFICES ASSUME TalkInv, [DaemonNext]_daemonVars PROVE TalkInv'
  OBVIOUS
<1>1. ASSUME NEW c \in Client, ClientStep(c) PROVE TalkInv'
  BY <1>1, QuietStepsKeep, SpawnKeeps, ConnectKeeps, SendKeeps, HangingUpKeeps, KillKeeps DEF ClientStep
<1>2. ASSUME NEW c \in Client, NEW d \in Command, Begin(c, d) PROVE TalkInv'
  BY <1>2, BeginKeeps
<1>3. ASSUME NEW p \in Pid, ServerStep(p) PROVE TalkInv'
  BY <1>3, QuietServerKeeps, AcceptKeeps, ReplyKeeps, EndServerKeeps DEF ServerStep
<1>4. CASE Disturbance
  BY <1>4, HangingUpKeeps, QuietServerKeeps DEF Disturbance
<1>5. CASE UNCHANGED daemonVars
  BY <1>5 DEF daemonVars, clients, TalkInv, Typed, Talk, ClientHas, AllHeld, Held, ServerHas
<1>6. QED
  BY <1>1, <1>2, <1>3, <1>4, <1>5 DEF DaemonNext

LEMMA AlwaysTalkInv == DaemonSpec => []TalkInv
BY TalkInit, TalkStep, PTL DEF DaemonSpec

\* Every variable keeps its type, and a server that is about to reply has what to
\* reply (Server.serve, client.request), whoever gives which commands.
THEOREM AlwaysDaemonTypeOK == DaemonSpec => []DaemonTypeOK
<1>1. TalkInv => DaemonTypeOK
  BY DEF TalkInv, Typed, Talk, ServerHas, DaemonTypeOK, ServerState, ClientState, Response
<1>2. QED
  BY <1>1, AlwaysTalkInv, PTL

(***************************************************************************)
(* The second part: the status file, when only one client starts servers   *)
(* and no server takes longer to start than that client waits.             *)
(***************************************************************************)
Starters == {c \in Client : Commands[c] \cap {"start", "restart", "run"} # {}}
OneStarter == ~SlowStart /\ \A c, d \in Starters : c = d
Starting(c) == doing[c] \in {"start", "restart", "run", "rerun"}

\* A server that will still remove the status file, and one that will still write it.
Settled(p) == \/ server[p] \in {"accept", "read", "run"}
              \/ server[p] \in {"reply", "exit"} /\ command[p] # "stop"
Current(p) == server[p] \in {"init", "open"} \/ Settled(p)
NoneCurrent == \A p \in Pid : ~Current(p)

StartersStart ==
  \A c \in Client : (Starting(c) => c \in Starters) /\ (client[c] \in {"spawn", "wait"} => Starting(c))
OneCurrent == \A p, q \in Pid : Current(p) /\ Current(q) => p = q
FileOf(p) ==
  /\ Settled(p) => Names(p)
  /\ server[p] = "init" => file = Nobody
  /\ server[p] = "open" => file = [creator |-> p, pid |-> Nobody] /\ handle[p] = p
  /\ Names(p) => Settled(p) \/ server[p] = "dead"
Awaited == \A p \in Pid : server[p] \in {"init", "open"} => \E c \in Client : client[c] = "wait"
\* When its stop was answered, a client may go on and start a server.
Stopped(p) == server[p] = "reply" /\ command[p] = "stop" /\ serving[p].up /\ Starting(serving[p].client) => NoneCurrent
Free(c) == client[c] = "spawn" \/ (Restarting(c) /\ inbox[c] = "done") => NoneCurrent

FileInv == /\ StartersStart /\ OneCurrent /\ Awaited
           /\ \A p \in Pid : FileOf(p) /\ Stopped(p)
           /\ \A c \in Client : Free(c)

\* A client that is to start a server and finds none: there is none.
LEMMA NoStatus ==
  ASSUME OneStarter, TalkInv, FileInv, NEW c \in Client, Starting(c), client[c] # "wait", Status = Nobody
  PROVE  NoneCurrent
<1> SUFFICES ASSUME NEW p \in Pid, Current(p) PROVE FALSE
  BY DEF NoneCurrent
<1>1. CASE server[p] \in {"init", "open"}
  <2>1. PICK e \in Client : client[e] = "wait"
    BY <1>1 DEF FileInv, Awaited
  <2>2. e \in Starters /\ c \in Starters
    BY <2>1 DEF FileInv, StartersStart
  <2>3. QED
    BY <2>1, <2>2 DEF OneStarter
<1>2. CASE Settled(p)
  <2>1. Names(p) /\ Alive(p) /\ p # Nobody
    BY <1>2, Constants DEF FileInv, FileOf, Settled, Alive
  <2>2. QED
    BY <2>1 DEF Names, Status, FileReadable
<1>3. QED
  BY <1>1, <1>2 DEF Current

\* A client whose stop is being answered waits for the answer.
LEMMA WaitsForReply ==
  ASSUME TalkInv, NEW p \in Pid, server[p] = "reply", serving[p].up
  PROVE  /\ serving[p].client \in Client /\ client[serving[p].client] = "receive"
         /\ asking[serving[p].client] = command[p] /\ IsFrom(serving[p], serving[p].client)
<1>1. serving[p] \in Connections /\ Held(serving[p]) /\ command[p] = serving[p].sent /\ command[p] # Nobody /\ serving[p] # Nobody
  BY DEF TalkInv, Typed, Talk, AllHeld, ServerHas
<1>2. QED
  BY <1>1 DEF Held, Connections, IsFrom

-----------------------------------------------------------------------------
(* The steps of a client. *)

\* A client's step that changes neither the file nor a server.
LEMMA ClientFile ==
  ASSUME TalkInv, FileInv, NEW c \in Client, UNCHANGED <<file, server, handle, command>>,
         \A e \in Client \ {c} : /\ client'[e] = client[e] /\ doing'[e] = doing[e]
                                 /\ asking'[e] = asking[e] /\ inbox'[e] = inbox[e],
         \A p \in Pid : serving'[p] # Nobody /\ serving'[p].up
                          => /\ serving[p] # Nobody /\ serving[p].up /\ serving'[p].client = serving[p].client
                             /\ serving[p].client # c \/ doing'[c] = doing[c],
         Typed', inbox'[c] # "done", client'[c] = "spawn" => NoneCurrent,
         Starting(c)' => c \in Starters, client'[c] \in {"spawn", "wait"} => Starting(c)',
         client[c] = "wait" /\ client'[c] # "wait" => \A p \in Pid : server[p] \notin {"init", "open"},
         TalkInv'
  PROVE  FileInv'
<1>1. StartersStart'
  BY DEF FileInv, StartersStart, Starting
<1>2. OneCurrent' /\ (NoneCurrent => NoneCurrent') /\ \A p \in Pid : FileOf(p)'
  BY DEF FileInv, OneCurrent, NoneCurrent, FileOf, Current, Settled, Names
<1>3. Awaited'
  BY DEF FileInv, Awaited
<1>4. ASSUME NEW p \in Pid PROVE Stopped(p)'
  <2> SUFFICES ASSUME server'[p] = "reply", command'[p] = "stop", serving'[p].up, Starting(serving[p].client)'
               PROVE  NoneCurrent'
    BY DEF Stopped
  <2>1. serving'[p] # Nobody /\ serving'[p].client \in Client
    BY DEF TalkInv, Typed, Talk, ServerHas, Connections
  <2>2. /\ serving[p].up /\ serving'[p].client = serving[p].client
        /\ serving[p].client # c \/ doing'[c] = doing[c]
    BY <2>1
  <2>3. doing'[serving'[p].client] = doing[serving[p].client]
    BY <2>1, <2>2
  <2>4. Starting(serving[p].client)
    BY <2>3 DEF Starting
  <2>5. QED
    BY <1>2, <2>2, <2>4 DEF FileInv, Stopped
<1>5. ASSUME NEW e \in Client PROVE Free(e)'
  <2>1. CASE e = c
    BY <1>2, <2>1 DEF Free
  <2>2. CASE e # c
    <3>1. Free(e) /\ client'[e] = client[e] /\ doing'[e] = doing[e] /\ asking'[e] = asking[e] /\ inbox'[e] = inbox[e]
      BY <2>2 DEF FileInv
    <3>2. QED
      BY <1>2, <3>1 DEF Free, Restarting
  <2>3. QED
    BY <2>1, <2>2
<1>6. QED
  BY <1>1, <1>2, <1>3, <1>4, <1>5 DEF FileInv

\* Servers that are still starting are waited for.
LEMMA WaitsOn ==
  ASSUME OneStarter, TalkInv, FileInv, NEW c \in Client, Wait(c) \/ WaitTimeout(c), NEW p \in Pid
  PROVE  server[p] \notin {"init", "open"}
<1>1. CASE Wait(c)
  <2>1. file # Nobody /\ file.pid # Nobody
    BY <1>1 DEF Wait, FileReadable
  <2>2. QED
    BY <2>1 DEF FileInv, FileOf
<1>2. CASE WaitTimeout(c)
  BY <1>2 DEF WaitTimeout, OneStarter
<1>3. QED
  BY <1>1, <1>2

\* The same for a client without a connection that takes no answer.
LEMMA QuietFile ==
  ASSUME TalkInv, FileInv, NEW c \in Client, UNCHANGED <<file, servers, connections, inbox>>,
         ~Connected(c), inbox[c] = Nobody,
         \A e \in Client \ {c} : client'[e] = client[e] /\ doing'[e] = doing[e] /\ asking'[e] = asking[e],
         client'[c] = "spawn" => NoneCurrent,
         Starting(c)' => c \in Starters, client'[c] \in {"spawn", "wait"} => Starting(c)',
         client[c] = "wait" /\ client'[c] # "wait" => \A p \in Pid : server[p] \notin {"init", "open"},
         TalkInv'
  PROVE  FileInv'
<1>1. \A p \in Pid : serving'[p] # Nobody /\ serving'[p].up
        => /\ serving[p] # Nobody /\ serving[p].up /\ serving'[p].client = serving[p].client
           /\ serving[p].client # c \/ doing'[c] = doing[c]
  <2>1. \A p \in Pid : ~IsFrom(serving[p], c)
    BY DEF Connected
  <2>2. QED
    BY <2>1 DEF connections, IsFrom
<1>2. Typed' /\ inbox'[c] # "done" /\ UNCHANGED <<file, server, handle, command>>
      /\ \A e \in Client \ {c} : inbox'[e] = inbox[e]
  BY Constants DEF TalkInv, servers, Response
<1>3. QED
  BY <1>1, <1>2, ClientFile

LEMMA BeginFile ==
  ASSUME OneStarter, TalkInv, FileInv, TalkInv', NEW c \in Client, NEW d \in Command, Begin(c, d)
  PROVE  FileInv'
<1>0. Typed /\ client[c] = Idle /\ d \in Commands[c]
  BY DEF TalkInv, Begin
<1>1. ~Connected(c) /\ inbox[c] = Nobody
  BY <1>0, NothingUnderWay DEF Idle
<1>2. /\ client'[c] \in {"probe", "ask"} /\ doing'[c] = d
      /\ \A e \in Client \ {c} : client'[e] = client[e] /\ doing'[e] = doing[e] /\ asking'[e] = asking[e]
      /\ UNCHANGED <<file, servers, connections, inbox>>
  BY <1>0 DEF Begin, Become, Ask, Typed
<1>3. Starting(c)' => c \in Starters
  <2>1. d # "rerun"
    BY DEF Command
  <2>2. QED
    BY <1>0, <1>2, <2>1 DEF Starting, Starters
<1>4. QED
  BY <1>0, <1>1, <1>2, <1>3, QuietFile DEF Idle

\* A command that ends is forgotten.
LEMMA FinishFacts ==
  ASSUME Typed, NEW c \in Client, Finish(c)
  PROVE  /\ client'[c] = Idle /\ doing'[c] = Nobody /\ ~(doing'[c] \in {"start", "restart", "run", "rerun"})
         /\ \A e \in Client \ {c} : client'[e] = client[e] /\ doing'[e] = doing[e] /\ asking'[e] = asking[e]
<1>1. Nobody \notin {"start", "restart", "run", "rerun"}
  <2>1. {"start", "restart", "run"} \subseteq Command
    BY DEF Command
  <2>2. Nobody # "rerun"
    BY DaemonAssumption
  <2>3. QED
    BY <2>1, <2>2, Constants
<1>2. QED
  BY <1>1 DEF Finish, Become, Typed

LEMMA ProbeFile ==
  ASSUME OneStarter, TalkInv, FileInv, TalkInv', NEW c \in Client,
         Probe(c) \/ Wait(c) \/ WaitTimeout(c) \/ ReadStatus(c) \/ NoAnswer(c)
  PROVE  FileInv'
<1>0. Typed /\ (Starting(c) => c \in Starters) /\ (client[c] \in {"spawn", "wait"} => Starting(c))
  BY DEF TalkInv, FileInv, StartersStart
<1>1. ~Connected(c) /\ inbox[c] = Nobody /\ UNCHANGED <<file, servers, connections, inbox>>
  <2>1. CASE NoAnswer(c)
    BY <2>1 DEF NoAnswer
  <2>2. CASE ~NoAnswer(c)
    <3>1. client[c] \notin {"send", "receive"} /\ UNCHANGED <<file, servers, connections, inbox>>
      BY <2>2 DEF Probe, Wait, WaitTimeout, ReadStatus
    <3>2. QED
      BY <3>1, NothingUnderWay
  <2>3. QED
    BY <2>1, <2>2
<1>2. CASE Finish(c)
  <2>1. client[c] = "wait" => \A p \in Pid : server[p] \notin {"init", "open"}
    <3>1. client[c] = "wait" => Wait(c) \/ WaitTimeout(c)
      BY DEF Probe, ReadStatus, NoAnswer
    <3>2. QED
      BY <3>1, WaitsOn
  <2>2. client'[c] = Idle /\ ~Starting(c)'
    BY <1>0, <1>2, FinishFacts DEF Starting
  <2>3. \A e \in Client \ {c} : client'[e] = client[e] /\ doing'[e] = doing[e] /\ asking'[e] = asking[e]
    BY <1>0, <1>2, FinishFacts
  <2>4. client'[c] \notin {"spawn", "wait"}
    BY <2>2 DEF Idle
  <2>5. QED
    BY <1>1, <2>1, <2>2, <2>3, <2>4, QuietFile
<1>3. CASE ~Finish(c)
  <2>1. /\ UNCHANGED doing
        /\ \/ client' = [client EXCEPT ![c] = "spawn"] /\ UNCHANGED asking /\ Status = Nobody /\ Starting(c)
                /\ client[c] \in {"probe", "ask"}
           \/ client' = [client EXCEPT ![c] = "ask"] /\ (\E a : asking' = [asking EXCEPT ![c] = a]) /\ (client[c] = "probe" \/ Wait(c))
           \/ \E s \in {"kill", "connect"} : client' = [client EXCEPT ![c] = s] /\ UNCHANGED asking /\ client[c] \in {"probe", "ask"}
    <3>1. CASE Probe(c)
      <4>1. client[c] = "probe"
        BY <3>1 DEF Probe
      <4>2. CASE doing[c] = "start" /\ IF Status # Nobody THEN Finish(c) ELSE Become(c, "spawn") /\ UNCHANGED <<doing, asking, target>>
        BY <1>3, <4>1, <4>2 DEF Become, Starting
      <4>3. CASE doing[c] = "run" /\ UNCHANGED <<doing, target>> /\ IF Status # Nobody THEN Ask(c, "run") ELSE Become(c, "spawn") /\ UNCHANGED asking
        BY <1>3, <4>1, <4>3 DEF Become, Ask, Starting
      <4>4. CASE doing[c] = "kill" /\ IF Status = Nobody THEN Finish(c)
                               ELSE Become(c, "kill") /\ target' = [target EXCEPT ![c] = Status] /\ UNCHANGED <<doing, asking>>
        BY <1>3, <4>1, <4>4 DEF Become
      <4>5. QED
        BY <3>1, <4>2, <4>3, <4>4 DEF Probe
    <3>2. CASE Wait(c)
      BY <1>3, <3>2 DEF Wait, Ask, Become
    <3>3. CASE ReadStatus(c)
      BY <1>3, <3>3 DEF ReadStatus, Become, Restarting, Starting
    <3>4. QED
      BY <1>3, <3>1, <3>2, <3>3 DEF WaitTimeout, NoAnswer
  <2>2. \A e \in Client \ {c} : client'[e] = client[e] /\ doing'[e] = doing[e] /\ asking'[e] = asking[e]
    BY <1>0, <2>1 DEF Typed
  <2>3. /\ doing' = doing /\ client'[c] \in {"spawn", "ask", "kill", "connect"}
        /\ client'[c] = "spawn" => Status = Nobody /\ Starting(c) /\ client[c] # "wait"
        /\ client[c] = "wait" => Wait(c)
    BY <1>0, <2>1 DEF Typed
  <2>4. client'[c] = "spawn" => NoneCurrent
    BY <2>3, NoStatus
  <2>5. client[c] = "wait" => \A p \in Pid : server[p] \notin {"init", "open"}
    BY <2>3, WaitsOn
  <2>6. Starting(c)' = Starting(c)
    BY <2>3 DEF Starting
  <2>7. QED
    BY <1>0, <1>1, <2>2, <2>3, <2>4, <2>5, <2>6, QuietFile
<1>4. QED
  BY <1>2, <1>3

LEMMA ConnectFile ==
  ASSUME OneStarter, TalkInv, FileInv, TalkInv', NEW c \in Client, ConnectServer(c)
  PROVE  FileInv'
<1>0. /\ Typed /\ (Starting(c) => c \in Starters) /\ client[c] = "connect"
      /\ ~Connected(c) /\ inbox[c] = Nobody
  <2>1. Typed /\ (Starting(c) => c \in Starters) /\ client[c] = "connect"
    BY DEF TalkInv, FileInv, StartersStart, ConnectServer
  <2>2. QED
    BY <2>1, NothingUnderWay
<1>1. CASE Listening(target[c])
  <2>1. /\ client' = [client EXCEPT ![c] = "send"]
        /\ UNCHANGED <<doing, asking, file, servers, serving, inbox>>
    BY <1>1 DEF ConnectServer, Become
  <2>2. /\ client'[c] = "send" /\ Starting(c)' = Starting(c) /\ inbox'[c] # "done"
        /\ \A e \in Client \ {c} : client'[e] = client[e] /\ doing'[e] = doing[e] /\ asking'[e] = asking[e] /\ inbox'[e] = inbox[e]
        /\ Typed' /\ UNCHANGED <<file, server, handle, command>>
    BY <1>0, <2>1, Constants DEF Typed, TalkInv, servers, Starting, Response
  <2>3. \A p \in Pid : serving'[p] # Nobody /\ serving'[p].up
          => /\ serving[p] # Nobody /\ serving[p].up /\ serving'[p].client = serving[p].client
             /\ serving[p].client # c \/ doing'[c] = doing[c]
    BY <2>1
  <2>4. QED
    BY <1>0, <2>2, <2>3, ClientFile
<1>2. CASE ~Listening(target[c])
  <2>1. Finish(c) /\ UNCHANGED <<file, servers, connections, inbox>>
    BY <1>2 DEF ConnectServer, connections
  <2>2. client'[c] = Idle /\ ~Starting(c)'
    BY <1>0, <2>1, FinishFacts DEF Starting
  <2>3. \A e \in Client \ {c} : client'[e] = client[e] /\ doing'[e] = doing[e] /\ asking'[e] = asking[e]
    BY <1>0, <2>1, FinishFacts
  <2>4. QED
    BY <1>0, <2>1, <2>2, <2>3, QuietFile DEF Idle
<1>3. QED
  BY <1>1, <1>2

LEMMA SendFile ==
  ASSUME OneStarter, TalkInv, FileInv, TalkInv', NEW c \in Client, Send(c)
  PROVE  FileInv'
<1>0. /\ Typed /\ Talk /\ (Starting(c) => c \in Starters) /\ client[c] = "send"
      /\ inbox[c] = Nobody /\ asking[c] \in Command
  <2>1. Typed /\ Talk /\ (Starting(c) => c \in Starters) /\ client[c] = "send" /\ ClientHas(c)
    BY DEF TalkInv, Typed, FileInv, StartersStart, Send
  <2>2. QED
    BY <2>1 DEF ClientHas
<1>1. /\ client' = [client EXCEPT ![c] = "receive"] /\ serving' = [p \in Pid |-> WithSent(serving[p], c)]
      /\ UNCHANGED <<doing, asking, file, servers, inbox>>
  BY DEF Send, Become, AtConnection
<1>2. /\ client'[c] = "receive" /\ Starting(c)' = Starting(c) /\ inbox'[c] # "done"
      /\ \A e \in Client \ {c} : client'[e] = client[e] /\ doing'[e] = doing[e] /\ asking'[e] = asking[e] /\ inbox'[e] = inbox[e]
      /\ Typed' /\ UNCHANGED <<file, server, handle, command>>
  BY <1>0, <1>1, Constants DEF Typed, TalkInv, servers, Starting, Response
<1>3. ASSUME NEW p \in Pid, serving'[p] # Nobody, serving'[p].up
      PROVE  /\ serving[p] # Nobody /\ serving[p].up /\ serving'[p].client = serving[p].client
             /\ serving[p].client # c \/ doing'[c] = doing[c]
  <2>1. serving'[p] = WithSent(serving[p], c) /\ serving[p] \in Connections \cup {Nobody}
    BY <1>0, <1>1 DEF Talk
  <2>2. QED
    BY <1>0, <1>1, <1>3, <2>1, WithSentFacts
<1>4. QED
  BY <1>0, <1>2, <1>3, ClientFile

LEMMA HangingUpFile ==
  ASSUME OneStarter, TalkInv, FileInv, TalkInv', NEW c \in Client, Receive(c) \/ TimeOut(c) \/ Interrupt(c)
  PROVE  FileInv'
<1>0. /\ Typed /\ Talk /\ (Starting(c) => c \in Starters) /\ client[c] \in {"send", "receive"} /\ Free(c)
  BY DEF TalkInv, Typed, FileInv, StartersStart, Receive, TimeOut, Interrupt
<1>1. /\ AtConnection(c, HungUp) /\ inbox' = [inbox EXCEPT ![c] = Nobody] /\ UNCHANGED <<file, servers>>
  BY DEF Receive, TimeOut, Interrupt
<1>2. SilentAll(c)
  BY <1>0, <1>1, HangsUp
<1>3. \/ Finish(c)
      \/ /\ client' = [client EXCEPT ![c] = "spawn"] /\ UNCHANGED <<doing, asking>>
         /\ Restarting(c) /\ inbox[c] = "done"
      \/ /\ client' = [client EXCEPT ![c] = "ask"] /\ asking' = [asking EXCEPT ![c] = "stop"]
         /\ doing' = [doing EXCEPT ![c] = "rerun"] /\ Starting(c)
  BY DEF Receive, TimeOut, Interrupt, Become, Ask, Starting
<1>4. /\ \A e \in Client \ {c} : client'[e] = client[e] /\ doing'[e] = doing[e] /\ asking'[e] = asking[e]
      /\ (client'[c] = "spawn" => Restarting(c) /\ inbox[c] = "done" /\ doing'[c] = doing[c])
      /\ client'[c] # "wait" /\ (Starting(c)' => Starting(c))
  <2>1. CASE Finish(c)
    <3>1. client'[c] = Idle /\ ~Starting(c)'
      BY <1>0, <2>1, FinishFacts DEF Starting
    <3>2. \A e \in Client \ {c} : client'[e] = client[e] /\ doing'[e] = doing[e] /\ asking'[e] = asking[e]
      BY <1>0, <2>1, FinishFacts
    <3>3. QED
      BY <3>1, <3>2 DEF Idle
  <2>2. CASE /\ client' = [client EXCEPT ![c] = "spawn"] /\ UNCHANGED <<doing, asking>>
             /\ Restarting(c) /\ inbox[c] = "done"
    BY <1>0, <2>2 DEF Typed, Starting
  <2>3. CASE /\ client' = [client EXCEPT ![c] = "ask"] /\ asking' = [asking EXCEPT ![c] = "stop"]
             /\ doing' = [doing EXCEPT ![c] = "rerun"] /\ Starting(c)
    BY <1>0, <2>3 DEF Typed
  <2>4. QED
    BY <1>3, <2>1, <2>2, <2>3
<1>5. client'[c] = "spawn" => NoneCurrent /\ Starting(c)'
  BY <1>0, <1>4 DEF Free, Restarting, Starting
<1>6. Typed' /\ inbox'[c] # "done" /\ (\A e \in Client \ {c} : inbox'[e] = inbox[e])
      /\ UNCHANGED <<file, server, handle, command>>
  BY <1>0, <1>1, Constants DEF Talk, TalkInv, servers, Response
<1>7. \A p \in Pid : serving'[p] # Nobody /\ serving'[p].up
        => /\ serving[p] # Nobody /\ serving[p].up /\ serving'[p].client = serving[p].client
           /\ serving[p].client # c \/ doing'[c] = doing[c]
  BY <1>2 DEF SilentAll, Silent
<1>8. QED
  BY <1>0, <1>4, <1>5, <1>6, <1>7, ClientFile

LEMMA SpawnFile ==
  ASSUME OneStarter, TalkInv, FileInv, TalkInv', NEW c \in Client, Spawn(c)
  PROVE  FileInv'
<1>0. /\ Typed /\ client[c] = "spawn" /\ Starting(c) /\ c \in Starters /\ NoneCurrent
  BY DEF TalkInv, FileInv, StartersStart, Free, Spawn
<1>1. PICK p \in Pid : server[p] = "unborn" /\ server' = [server EXCEPT ![p] = "init"]
  BY DEF Spawn
<1>2. /\ client' = [client EXCEPT ![c] = "wait"] /\ file' = Nobody
      /\ UNCHANGED <<handle, command, connections, doing, asking, inbox>>
  BY DEF Spawn, Become
<1>3. server'[p] = "init" /\ \A q \in Pid \ {p} : server'[q] = server[q]
  BY <1>0, <1>1 DEF Typed
<1>4. \A q \in Pid \ {p} : ~Current(q)'
  BY <1>0, <1>2, <1>3 DEF NoneCurrent, Current, Settled
<1>5. OneCurrent'
  BY <1>4 DEF OneCurrent
<1>6. client'[c] = "wait" /\ \A e \in Client \ {c} : client'[e] = client[e]
  BY <1>0, <1>2 DEF Typed
<1>7. StartersStart'
  BY <1>0, <1>2, <1>6 DEF FileInv, StartersStart, Starting
<1>8. Awaited'
  BY <1>6 DEF Awaited
<1>9. ASSUME NEW q \in Pid PROVE FileOf(q)' /\ Stopped(q)'
  <2>1. FileOf(q)'
    <3>1. ~Names(q)'
      BY <1>2 DEF Names
    <3>2. ~Settled(q)' /\ server'[q] # "open"
      BY <1>3, <1>4 DEF Current, Settled
    <3>3. QED
      BY <1>2, <3>1, <3>2 DEF FileOf
  <2>2. ASSUME server'[q] = "reply", serving'[q].up, Starting(serving[q].client)' PROVE FALSE
    <3>1. server[q] = "reply" /\ serving[q].up /\ Starting(serving[q].client)
      BY <1>2, <1>3, <2>2 DEF connections, Starting
    <3>2. serving[q].client \in Client /\ client[serving[q].client] = "receive"
      BY <3>1, WaitsForReply
    <3>3. serving[q].client \in Starters
      BY <3>1, <3>2 DEF FileInv, StartersStart
    <3>4. QED
      BY <1>0, <3>2, <3>3 DEF OneStarter
  <2>3. QED
    BY <2>1, <2>2 DEF Stopped
<1>10. ASSUME NEW e \in Client PROVE Free(e)'
  <2>1. CASE e = c
    <3>1. ClientHas(c) /\ Nobody # "done"
      BY Constants DEF TalkInv, Response
    <3>2. inbox'[c] # "done"
      BY <1>0, <1>2, <3>1 DEF ClientHas
    <3>3. QED
      BY <1>6, <2>1, <3>2 DEF Free
  <2>2. CASE e # c
    <3>1. ~Starting(e)
      BY <1>0, <2>2 DEF FileInv, StartersStart, OneStarter
    <3>2. ~Restarting(e)' /\ client'[e] # "spawn"
      BY <1>2, <1>6, <2>2, <3>1 DEF FileInv, StartersStart, Starting, Restarting
    <3>3. QED
      BY <3>2 DEF Free
  <2>3. QED
    BY <2>1, <2>2
<1>11. QED
  BY <1>5, <1>7, <1>8, <1>9, <1>10 DEF FileInv

-----------------------------------------------------------------------------
(* The steps of a server, and the end of one. *)

OthersRest(p) ==
  \A q \in Pid \ {p} : /\ server'[q] = server[q] /\ command'[q] = command[q]
                       /\ handle'[q] = handle[q] /\ serving'[q] = serving[q]

\* What a server may do to the file.
MayWrite(p) == UNCHANGED file \/ (Current(p) /\ \A q \in Pid \ {p} : ~Names(q)')

LEMMA ServerFile ==
  ASSUME TalkInv, FileInv, NEW p \in Pid, OthersRest(p), MayWrite(p), FileOf(p)', Stopped(p)',
         Current(p)' => Current(p), server'[p] \in {"init", "open"} => server[p] \in {"init", "open"}
  PROVE  /\ OneCurrent' /\ (NoneCurrent => NoneCurrent')
         /\ (UNCHANGED client => Awaited')
         /\ \A q \in Pid : FileOf(q)'
         /\ (UNCHANGED doing => \A q \in Pid : Stopped(q)')
<1>1. \A q \in Pid : Current(q)' => Current(q)
  BY DEF OthersRest, Current, Settled
<1>2. OneCurrent' /\ (NoneCurrent => NoneCurrent')
  BY <1>1 DEF FileInv, OneCurrent, NoneCurrent
<1>3. UNCHANGED client => Awaited'
  BY DEF FileInv, Awaited, OthersRest
<1>4. ASSUME NEW q \in Pid \ {p} PROVE FileOf(q)' /\ (UNCHANGED doing => Stopped(q)')
  <2>1. server'[q] = server[q] /\ command'[q] = command[q] /\ handle'[q] = handle[q] /\ serving'[q] = serving[q]
        /\ FileOf(q) /\ Stopped(q)
    BY DEF OthersRest, FileInv
  <2>2. CASE UNCHANGED file
    <3>1. FileOf(q)'
      BY <2>1, <2>2 DEF FileOf, Settled, Names
    <3>2. QED
      BY <1>2, <2>1, <3>1 DEF Stopped, Starting
  <2>3. CASE Current(p) /\ ~Names(q)'
    <3>1. ~Current(q)
      BY <2>3 DEF FileInv, OneCurrent
    <3>2. ~Settled(q)' /\ server'[q] \notin {"init", "open"}
      BY <2>1, <3>1 DEF Current, Settled
    <3>3. FileOf(q)'
      BY <2>3, <3>2 DEF FileOf
    <3>4. QED
      BY <1>2, <2>1, <3>3 DEF Stopped, Starting
  <2>4. QED
    BY <2>2, <2>3 DEF MayWrite
<1>5. QED
  BY <1>2, <1>3, <1>4

LEMMA ServerKeeps ==
  ASSUME TalkInv, FileInv, NEW p \in Pid, OthersRest(p), MayWrite(p), FileOf(p)', Stopped(p)',
         Current(p)' => Current(p), server'[p] \in {"init", "open"} => server[p] \in {"init", "open"},
         UNCHANGED <<clients, inbox>>
  PROVE  FileInv'
<1>1. OneCurrent' /\ (NoneCurrent => NoneCurrent') /\ Awaited' /\ \A q \in Pid : FileOf(q)' /\ Stopped(q)'
  BY ServerFile DEF clients
<1>2. StartersStart'
  BY DEF FileInv, StartersStart, Starting, clients
<1>3. \A c \in Client : Free(c)'
  BY <1>1 DEF FileInv, Free, Restarting, clients
<1>4. QED
  BY <1>1, <1>2, <1>3 DEF FileInv

LEMMA OpenFile ==
  ASSUME TalkInv, FileInv, NEW p \in Pid, Open(p)
  PROVE  FileInv'
<1>0. Typed /\ file = Nobody /\ server[p] = "init"
  BY DEF TalkInv, FileInv, FileOf, Open, ServerTurn
<1>1. /\ server'[p] = "open" /\ handle'[p] = p /\ file' = [creator |-> p, pid |-> Nobody]
      /\ OthersRest(p) /\ UNCHANGED <<clients, inbox>>
  BY <1>0 DEF Typed, Open, ServerTurn, OthersRest, connections
<1>2. \A q \in Pid : ~Names(q)'
  BY <1>1, Constants DEF Names
<1>3. MayWrite(p) /\ FileOf(p)' /\ Stopped(p)' /\ Current(p)
  BY <1>0, <1>1, <1>2 DEF MayWrite, FileOf, Stopped, Settled, Current
<1>4. QED
  BY <1>0, <1>1, <1>3, ServerKeeps

LEMMA WritePidFile ==
  ASSUME TalkInv, FileInv, NEW p \in Pid, WritePid(p)
  PROVE  FileInv'
<1>0. Typed /\ server[p] = "open" /\ file = [creator |-> p, pid |-> Nobody] /\ handle[p] = p /\ file # Nobody
  <2>1. Typed /\ server[p] = "open" /\ file = [creator |-> p, pid |-> Nobody] /\ handle[p] = p
    BY DEF TalkInv, FileInv, FileOf, WritePid, ServerTurn
  <2>2. [creator |-> p, pid |-> Nobody] \in File
    BY DEF File
  <2>3. QED
    BY <2>1, <2>2, Constants
<1>1. /\ server'[p] = "accept" /\ file' = [creator |-> p, pid |-> p]
      /\ OthersRest(p) /\ UNCHANGED <<clients, inbox>>
  BY <1>0 DEF Typed, WritePid, ServerTurn, OthersRest, connections
<1>2. Names(p)' /\ \A q \in Pid \ {p} : ~Names(q)'
  <2>1. [creator |-> p, pid |-> p] \in File
    BY DEF File
  <2>2. QED
    BY <1>1, <2>1, Constants DEF Names
<1>3. MayWrite(p) /\ FileOf(p)' /\ Stopped(p)' /\ Current(p)
  BY <1>0, <1>1, <1>2 DEF MayWrite, FileOf, Stopped, Settled, Current
<1>4. QED
  BY <1>0, <1>1, <1>3, ServerKeeps

\* Steps of a server that stays what it is for the file.
LEMMA SettledFile ==
  ASSUME TalkInv, FileInv, NEW p \in Pid, AcceptClient(p) \/ IdleTimeout(p) \/ Read(p) \/ ReadFails(p)
  PROVE  FileInv'
<1>0. Typed /\ Talk /\ ServerHas(p) /\ FileOf(p) /\ Settled(p)
  BY DEF TalkInv, Typed, FileInv, Settled, AcceptClient, IdleTimeout, Read, ReadFails, ServerTurn
<1>1. /\ server'[p] \in {"read", "run", "exit"} /\ OthersRest(p) /\ UNCHANGED <<file, clients, inbox>>
      /\ server'[p] = "exit" => command'[p] # "stop"
  <2>1. CASE AcceptClient(p)
    BY <1>0, <2>1 DEF AcceptClient, ServerTurn, OthersRest, Typed, Talk
  <2>2. CASE IdleTimeout(p)
    BY <1>0, <2>2 DEF IdleTimeout, ServerTurn, OthersRest, ServerHas, Typed, connections
  <2>3. CASE Read(p)
    BY <1>0, <2>3 DEF Read, OthersRest, Typed, connections
  <2>4. CASE ReadFails(p)
    BY <1>0, <2>4 DEF ReadFails, OthersRest, ServerHas, Typed, connections
  <2>5. QED
    BY <2>1, <2>2, <2>3, <2>4
<1>2. Settled(p)' /\ Names(p)'
  BY <1>0, <1>1 DEF Settled, FileOf, Names
<1>3. MayWrite(p) /\ FileOf(p)' /\ Stopped(p)' /\ Current(p)
  BY <1>0, <1>1, <1>2 DEF MayWrite, FileOf, Stopped, Current
<1>4. QED
  BY <1>0, <1>1, <1>3, ServerKeeps

LEMMA RunFile ==
  ASSUME TalkInv, FileInv, NEW p \in Pid, Run(p)
  PROVE  FileInv'
<1>0. Typed /\ FileOf(p) /\ server[p] = "run" /\ Settled(p) /\ Names(p) /\ Current(p)
  BY DEF TalkInv, FileInv, FileOf, Settled, Current, Run, ServerTurn
<1>1. /\ server'[p] = "reply" /\ OthersRest(p) /\ UNCHANGED <<clients, inbox, command>>
      /\ command[p] = "stop" => file' = Nobody
      /\ command[p] # "stop" => file' = file
  BY <1>0 DEF Run, ServerTurn, OthersRest, Typed, connections, Names
<1>2. CASE command[p] = "stop"
  <2>1. \A q \in Pid : ~Names(q)'
    BY <1>1, <1>2 DEF Names
  <2>2. ~Current(p)' /\ ~Settled(p)'
    BY <1>1, <1>2 DEF Current, Settled
  <2>3. \A q \in Pid \ {p} : ~Current(q)'
    BY <1>0, <1>1 DEF FileInv, OneCurrent, OthersRest, Current, Settled
  <2>4. Stopped(p)'
    BY <2>2, <2>3 DEF Stopped, NoneCurrent
  <2>5. MayWrite(p) /\ FileOf(p)'
    BY <1>0, <1>1, <2>1, <2>2 DEF MayWrite, FileOf
  <2>6. QED
    BY <1>1, <2>2, <2>4, <2>5, ServerKeeps
<1>3. CASE command[p] # "stop"
  <2>1. Settled(p)' /\ Names(p)' /\ Stopped(p)'
    BY <1>0, <1>1, <1>3 DEF Settled, Names, Stopped
  <2>2. MayWrite(p) /\ FileOf(p)'
    BY <1>1, <1>3, <2>1 DEF MayWrite, FileOf
  <2>3. QED
    BY <1>0, <1>1, <2>1, <2>2, ServerKeeps
<1>4. QED
  BY <1>2, <1>3

LEMMA ReplyFile ==
  ASSUME TalkInv, FileInv, NEW p \in Pid, Reply(p)
  PROVE  FileInv'
<1>0. Typed /\ Talk /\ FileOf(p) /\ Stopped(p) /\ server[p] = "reply"
  BY DEF TalkInv, Typed, FileInv, Reply
<1>1. /\ server'[p] \in {"exit", "accept"} /\ (server'[p] = "accept" => command[p] # "stop")
      /\ OthersRest(p) /\ UNCHANGED <<file, clients, command>>
  BY <1>0 DEF Reply, OthersRest, Typed, Talk
<1>2. Settled(p)' <=> Settled(p)
  BY <1>0, <1>1 DEF Settled
<1>3. FileOf(p)' /\ Stopped(p)' /\ MayWrite(p) /\ (Current(p)' => Current(p))
  BY <1>0, <1>1, <1>2 DEF FileOf, Stopped, MayWrite, Current, Names
<1>4. OneCurrent' /\ (NoneCurrent => NoneCurrent') /\ Awaited' /\ \A q \in Pid : FileOf(q)' /\ Stopped(q)'
  BY <1>1, <1>3, ServerFile DEF clients
<1>5. StartersStart'
  BY <1>1 DEF FileInv, StartersStart, Starting, clients
<1>6. ASSUME NEW c \in Client PROVE Free(c)'
  <2> SUFFICES ASSUME client'[c] = "spawn" \/ (Restarting(c)' /\ inbox'[c] = "done") PROVE NoneCurrent
    BY <1>4 DEF Free
  <2>1. client' = client /\ doing' = doing /\ asking' = asking /\ Free(c)
    BY <1>1 DEF clients, FileInv
  <2>2. CASE client[c] = "spawn" \/ (Restarting(c) /\ inbox[c] = "done")
    BY <2>1, <2>2 DEF Free
  <2>3. CASE Restarting(c) /\ inbox'[c] = "done" /\ inbox[c] # inbox'[c]
    <3>1. serving[p].client = c /\ serving[p].up /\ asking[c] = command[p]
      BY <2>3, ReplyKeeps
    <3>2. command[p] = "stop" /\ Starting(serving[p].client)
      BY <2>3, <3>1 DEF Restarting, Starting
    <3>3. QED
      BY <1>0, <3>1, <3>2 DEF Stopped
  <2>4. QED
    BY <2>1, <2>2, <2>3 DEF Restarting
<1>7. QED
  BY <1>4, <1>5, <1>6 DEF FileInv

LEMMA ExitFile ==
  ASSUME TalkInv, FileInv, NEW p \in Pid, Exit(p)
  PROVE  FileInv'
<1>0. Typed /\ FileOf(p) /\ server[p] = "exit"
  BY DEF TalkInv, FileInv, Exit, ServerTurn
<1>1. /\ server'[p] = "leave" /\ OthersRest(p) /\ UNCHANGED <<clients, inbox, command>>
      /\ command[p] # "stop" => file' = Nobody
      /\ command[p] = "stop" => file' = file
  BY <1>0 DEF Exit, ServerTurn, OthersRest, Typed, connections
<1>2. ~Settled(p)' /\ ~Current(p)' /\ Stopped(p)'
  BY <1>1 DEF Settled, Current, Stopped
<1>3. ~Names(p)'
  BY <1>0, <1>1 DEF FileOf, Settled, Names
<1>4. FileOf(p)'
  BY <1>1, <1>2, <1>3 DEF FileOf
<1>5. MayWrite(p)
  BY <1>0, <1>1 DEF MayWrite, Current, Settled, Names
<1>6. QED
  BY <1>1, <1>2, <1>4, <1>5, ServerKeeps

LEMMA VanishFile ==
  ASSUME TalkInv, NEW p \in Pid, Vanish(p)
  PROVE  OthersRest(p) /\ server'[p] = "dead"
BY DEF TalkInv, Typed, Talk, Vanish, OthersRest

LEMMA EndServerFile ==
  ASSUME TalkInv, FileInv, NEW p \in Pid, EndServer(p)
  PROVE  FileInv'
<1>1. OthersRest(p) /\ server'[p] = "dead" /\ UNCHANGED <<file, clients, inbox>>
  BY VanishFile DEF EndServer
<1>2. ~Settled(p)' /\ ~Current(p)' /\ Stopped(p)' /\ FileOf(p)' /\ MayWrite(p)
  BY <1>1 DEF Settled, Current, Stopped, FileOf, MayWrite
<1>3. QED
  BY <1>1, <1>2, ServerKeeps

LEMMA KillFile ==
  ASSUME OneStarter, TalkInv, FileInv, TalkInv', NEW c \in Client, Kill(c)
  PROVE  FileInv'
<1>0. Typed /\ client[c] = "kill" /\ target[c] \in Pid /\ inbox[c] = Nobody /\ ~Connected(c)
      /\ (Starting(c) => c \in Starters)
  <2>1. Typed /\ client[c] = "kill" /\ ClientHas(c) /\ (Starting(c) => c \in Starters)
    BY DEF TalkInv, FileInv, StartersStart, Kill
  <2>2. QED
    BY <2>1, NothingUnderWay DEF ClientHas
<1>1. Finish(c) /\ UNCHANGED <<file, inbox>>
  BY DEF Kill
<1>2. client'[c] = Idle /\ ~Starting(c)'
  BY <1>0, <1>1, FinishFacts DEF Starting
<1>3. \A e \in Client \ {c} : client'[e] = client[e] /\ doing'[e] = doing[e] /\ asking'[e] = asking[e]
  BY <1>0, <1>1, FinishFacts
<1>4. CASE ~Alive(target[c])
  <2>1. UNCHANGED <<servers, connections>>
    BY <1>4 DEF Kill
  <2>2. QED
    BY <1>0, <1>1, <1>2, <1>3, <2>1, QuietFile DEF Idle
<1>5. CASE Alive(target[c])
  <2>0. PICK p \in Pid : p = target[c]
    BY <1>0
  <2>1. OthersRest(p) /\ server'[p] = "dead"
    BY <1>0, <1>5, <2>0, VanishFile DEF Kill
  <2>2. p \in Pid
    BY <2>0
  <2>3. server'[p] = "dead" /\ server'[p] # "reply"
    BY <2>1
  <2>4. /\ FileOf(p)' /\ Stopped(p)' /\ MayWrite(p) /\ ~Current(p)'
    BY <1>1, <2>3 DEF FileOf, Settled, Stopped, MayWrite, Current
  <2>5. OneCurrent' /\ (NoneCurrent => NoneCurrent') /\ \A q \in Pid : FileOf(q)'
    BY <2>1, <2>2, <2>3, <2>4, ServerFile
  <2>6. Awaited'
    BY <1>0, <1>3, <2>1, <2>2 DEF FileInv, Awaited, OthersRest
  <2>7. StartersStart'
    BY <1>2, <1>3 DEF FileInv, StartersStart, Starting, Idle
  <2>8. ASSUME NEW q \in Pid PROVE Stopped(q)'
    <3> SUFFICES ASSUME q # p, server'[q] = "reply", command'[q] = "stop", serving'[q].up, Starting(serving[q].client)'
                 PROVE  NoneCurrent'
      BY <2>4 DEF Stopped
    <3>1. server[q] = "reply" /\ command[q] = "stop" /\ serving'[q] = serving[q] /\ serving[q].up
      BY <2>1 DEF OthersRest
    <3>2. serving[q].client \in Client \ {c}
      BY <1>0, <3>1, WaitsForReply
    <3>3. Starting(serving[q].client)
      BY <1>3, <3>1, <3>2 DEF Starting
    <3>4. QED
      BY <2>5, <3>1, <3>3 DEF FileInv, Stopped
  <2>9. ASSUME NEW e \in Client PROVE Free(e)'
    <3>1. CASE e = c
      <4>1. Nobody # "done"
        BY Constants DEF Response
      <4>2. QED
        BY <1>0, <1>1, <1>2, <3>1, <4>1 DEF Free, Idle
    <3>2. CASE e # c
      <4>1. Free(e) /\ client'[e] = client[e] /\ doing'[e] = doing[e] /\ asking'[e] = asking[e] /\ inbox' = inbox
        BY <1>1, <1>3, <3>2 DEF FileInv
      <4>2. QED
        BY <2>5, <4>1 DEF Free, Restarting
    <3>3. QED
      BY <3>1, <3>2
  <2>10. QED
    BY <2>5, <2>6, <2>7, <2>8, <2>9 DEF FileInv
<1>6. QED
  BY <1>4, <1>5

-----------------------------------------------------------------------------
(* The second part is an invariant, and what follows from it. *)

LEMMA FileInit == DaemonInit => FileInv
<1> SUFFICES ASSUME DaemonInit PROVE FileInv
  OBVIOUS
<1>1. \A p \in Pid : server[p] = "unborn"
  BY DEF DaemonInit
<1>2. NoneCurrent /\ OneCurrent /\ Awaited /\ \A p \in Pid : Stopped(p)
  BY <1>1 DEF NoneCurrent, OneCurrent, Awaited, Stopped, Current, Settled
<1>3. \A p \in Pid : FileOf(p)
  BY <1>1 DEF DaemonInit, FileOf, Settled, Names
<1>4. \A c \in Client : ~Starting(c) /\ client[c] = "idle"
  BY DaemonAssumption DEF DaemonInit, Starting, Command, Idle
<1>5. StartersStart
  BY <1>4 DEF StartersStart
<1>6. QED
  BY <1>2, <1>3, <1>5 DEF FileInv, Free

LEMMA FileStep ==
  ASSUME OneStarter, TalkInv, TalkInv', FileInv, [DaemonNext]_daemonVars
  PROVE  FileInv'
<1>1. ASSUME NEW c \in Client, ClientStep(c) PROVE FileInv'
  BY <1>1, ProbeFile, SpawnFile, ConnectFile, SendFile, HangingUpFile, KillFile DEF ClientStep
<1>2. ASSUME NEW c \in Client, NEW d \in Command, Begin(c, d) PROVE FileInv'
  BY <1>2, BeginFile
<1>3. ASSUME NEW p \in Pid, ServerStep(p) PROVE FileInv'
  BY <1>3, OpenFile, WritePidFile, SettledFile, RunFile, ReplyFile, ExitFile, EndServerFile DEF ServerStep
<1>4. CASE Disturbance
  BY <1>4, HangingUpFile, SettledFile DEF Disturbance
<1>5. CASE UNCHANGED daemonVars
  <2>1. UNCHANGED <<file, server, handle, serving, command, client, doing, asking, inbox>>
    BY <1>5 DEF daemonVars, clients
  <2>2. (NoneCurrent <=> NoneCurrent') /\ OneCurrent' /\ Awaited' /\ StartersStart'
    BY <2>1 DEF FileInv, NoneCurrent, OneCurrent, Awaited, StartersStart, Current, Settled, Starting
  <2>3. \A p \in Pid : FileOf(p)' /\ Stopped(p)'
    BY <2>1, <2>2 DEF FileInv, FileOf, Settled, Names, Stopped, Starting
  <2>4. \A c \in Client : Free(c)'
    BY <2>1, <2>2 DEF FileInv, Free, Restarting
  <2>5. QED
    BY <2>2, <2>3, <2>4 DEF FileInv
<1>6. QED
  BY <1>1, <1>2, <1>3, <1>4, <1>5 DEF DaemonNext

LEMMA AlwaysFileInv ==
  ASSUME OneStarter
  PROVE  DaemonSpec => [](TalkInv /\ FileInv)
<1>1. DaemonInit => TalkInv /\ FileInv
  BY TalkInit, FileInit
<1>2. TalkInv /\ FileInv /\ [DaemonNext]_daemonVars => (TalkInv /\ FileInv)'
  BY TalkStep, FileStep
<1>3. QED
  BY <1>1, <1>2, PTL DEF DaemonSpec

\* The status file names the server that waits for requests or handles one, and no
\* server that a client was told was stopped (Server.serve, cmd_stop, start_server,
\* wait_for_server).  Two clients that start servers, or a client that gives up
\* waiting too early, may leave a server that no status file names: the hypothesis.
THEOREM AlwaysStatusIsTrue ==
  ASSUME OneStarter
  PROVE  DaemonSpec => []StatusIsTrue
<1>1. TalkInv /\ FileInv => StatusIsTrue
  BY DEF FileInv, FileOf, StatusIsTrue, Settled, Serves
<1>2. QED
  BY <1>1, AlwaysFileInv, PTL

\* A server that removes a status file removes its own: neither cmd_stop nor the
\* finally clause of Server.serve reaches the file of a later server.
THEOREM AlwaysRemovesOwnFile ==
  ASSUME OneStarter
  PROVE  DaemonSpec => RemovesOwnFile
<1> DEFINE OwnFile == \A p \in Pid : ServerStep(p) /\ file # Nobody /\ file' = Nobody => file.pid = p
<1>1. ASSUME TalkInv, FileInv PROVE OwnFile
  <2> SUFFICES ASSUME NEW p \in Pid, ServerStep(p), file # Nobody, file' = Nobody
               PROVE  file.pid = p
    OBVIOUS
  <2>0. Typed /\ FileOf(p)
    BY <1>1 DEF TalkInv, FileInv
  <2>1. CASE Run(p) \/ Exit(p)
    <3>1. Settled(p)
      BY <2>1 DEF Run, Exit, ServerTurn, Settled
    <3>2. QED
      BY <2>0, <3>1 DEF FileOf, Names
  <2>2. CASE Open(p)
    <3>1. server[p] = "init"
      BY <2>2 DEF Open, ServerTurn
    <3>2. QED
      BY <2>0, <3>1 DEF FileOf
  <2>3. CASE WritePid(p)
    <3>1. server[p] = "open"
      BY <2>3 DEF WritePid, ServerTurn
    <3>2. file = [creator |-> p, pid |-> Nobody] /\ handle[p] = p
      BY <2>0, <3>1 DEF FileOf
    <3>3. file' = [creator |-> p, pid |-> p]
      BY <2>3, <3>2 DEF WritePid
    <3>4. QED
      BY <3>3, Constants DEF File
  <2>4. CASE AcceptClient(p) \/ Read(p) \/ ReadFails(p) \/ Reply(p) \/ EndServer(p)
    BY <2>4 DEF AcceptClient, Read, ReadFails, Reply, EndServer
  <2>5. QED
    BY <2>1, <2>2, <2>3, <2>4 DEF ServerStep
<1>2. TalkInv /\ FileInv => [OwnFile]_daemonVars
  BY <1>1
<1>3. QED
  BY <1>2, AlwaysFileInv, PTL DEF RemovesOwnFile

-----------------------------------------------------------------------------
(* Framing. *)

(***************************************************************************)
(* The inductive invariant.  All that a peer has begun to send on a        *)
(* connection is one stream of bytes, cut into frames.  What was read, the *)
(* buffer, what is on its way and what is still to be handed over follow   *)
(* one another in it, and reading stops at the end of a frame.             *)
(***************************************************************************)
Byte == {Header(n)[d] : n \in Sizes, d \in 1..HeaderSize} \cup (Nat \X Nat)

StreamTyped ==
  /\ sent \in [Conn -> Nat] /\ open \in [Conn -> BOOLEAN]
  /\ unsent \in [Conn -> Seq(Byte)] /\ wire \in [Conn -> Seq(Byte)] /\ buffer \in [Conn -> Seq(Byte)]
  /\ received \in [Conn -> Seq(Seq(Byte))]
  /\ messageSize \in [Conn -> Sizes \cup {Nothing}]
  /\ ready \subseteq Conn /\ reading \in Conn \cup {Nothing} /\ dropped \subseteq Conn

\* q is what the stream holds after its first a bytes.
At(q, stream, a) == /\ a + Len(q) <= Len(stream)
                    /\ \A j \in 1..Len(q) : q[j] = stream[a + j]

\* The stream is the frames of the first n messages; frame k ends at cut[k].
Cut(i, n, stream, cut) ==
  /\ cut[0] = 0 /\ cut[n] = Len(stream)
  /\ \A k \in 1..n : /\ cut[k] = cut[k - 1] + (HeaderSize + Messages[i][k])
                     /\ \A j \in 1..(HeaderSize + Messages[i][k]) : stream[cut[k - 1] + j] = Framed(i, k)[j]
  /\ \A j, k \in 0..n : j <= k => cut[j] <= cut[k]

\* The connection, with m messages read.
Layout(i, m, stream, cut) ==
  /\ At(buffer[i], stream, cut[m])
  /\ At(wire[i], stream, cut[m] + Len(buffer[i]))
  /\ At(unsent[i], stream, cut[m] + Len(buffer[i]) + Len(wire[i]))
  /\ open[i] => cut[m] + Len(buffer[i]) + Len(wire[i]) + Len(unsent[i]) = Len(stream)

InStream(i) ==
  /\ sent[i] <= Len(Messages[i]) /\ Len(received[i]) <= sent[i]
  /\ \A k \in DOMAIN received[i] : received[i][k] = Body(i, k)
  /\ messageSize[i] # Nothing => /\ Len(buffer[i]) >= HeaderSize
                                 /\ messageSize[i] = Messages[i][Len(received[i]) + 1]
  /\ \E stream \in Seq(Byte), cut \in [0..sent[i] -> Nat] :
       Cut(i, sent[i], stream, cut) /\ Layout(i, Len(received[i]), stream, cut)

FInv == StreamTyped /\ \A i \in Conn : InStream(i)

(***************************************************************************)
(* Frames and pieces.                                                      *)
(***************************************************************************)
LEMMA SizesFacts == Sizes \subseteq Nat
BY DEF Sizes

LEMMA HeaderFacts ==
  ASSUME NEW n \in Sizes
  PROVE  Header(n) \in Seq(Byte) /\ Len(Header(n)) = HeaderSize
<1>1. Header(n) \in [1..HeaderSize -> Byte]
  BY DEF Header, Byte
<1>2. HeaderSize \in Nat
  BY FramingAssumption
<1>3. QED
  BY <1>1, <1>2 DEF Header

LEMMA MessageFacts ==
  ASSUME NEW i \in Conn, NEW k \in 1..Len(Messages[i])
  PROVE  /\ Messages[i][k] \in Sizes /\ Messages[i][k] \in Nat \ {0}
         /\ Body(i, k) \in Seq(Byte) /\ Len(Body(i, k)) = Messages[i][k]
         /\ Framed(i, k) \in Seq(Byte) /\ Len(Framed(i, k)) = HeaderSize + Messages[i][k]
         /\ \A j \in 1..HeaderSize : Framed(i, k)[j] = Header(Messages[i][k])[j]
         /\ \A j \in 1..Messages[i][k] : Framed(i, k)[HeaderSize + j] = Body(i, k)[j]
<1>1. Messages[i][k] \in Sizes \ {0} /\ Len(Messages[i]) \in Nat
  BY FramingAssumption, ElementOfSeq, LenProperties
<1>2. Messages[i][k] \in Nat \ {0} /\ HeaderSize \in Nat \ {0}
  BY <1>1, SizesFacts, FramingAssumption
<1>3. Body(i, k) \in [1..Messages[i][k] -> Byte]
  BY <1>1, <1>2 DEF Body, Byte
<1>4. Body(i, k) \in Seq(Byte) /\ Len(Body(i, k)) = Messages[i][k]
  BY <1>2, <1>3 DEF Body
<1>5. Header(Messages[i][k]) \in Seq(Byte) /\ Len(Header(Messages[i][k])) = HeaderSize
  BY <1>1, HeaderFacts
<1> DEFINE h == Header(Messages[i][k])
           b == Body(i, k)
<1> HIDE DEF h, b
<1>6. h \in Seq(Byte) /\ b \in Seq(Byte) /\ Len(h) = HeaderSize /\ Len(b) = Messages[i][k]
  BY <1>4, <1>5 DEF h, b
<1>7. /\ h \o b \in Seq(Byte) /\ Len(h \o b) = HeaderSize + Messages[i][k]
      /\ \A j \in 1..HeaderSize + Messages[i][k] : (h \o b)[j] = IF j <= HeaderSize THEN h[j] ELSE b[j - HeaderSize]
  <2>1. /\ h \o b \in Seq(Byte) /\ Len(h \o b) = Len(h) + Len(b)
        /\ \A j \in 1..Len(h) + Len(b) : (h \o b)[j] = IF j <= Len(h) THEN h[j] ELSE b[j - Len(h)]
    BY <1>6, ConcatProperties
  <2>2. QED
    BY <1>6, <2>1
<1>8. \A j \in 1..HeaderSize : (h \o b)[j] = h[j]
  BY <1>2, <1>7
<1>9. \A j \in 1..Messages[i][k] : (h \o b)[HeaderSize + j] = b[j]
  BY <1>2, <1>7
<1>10. Framed(i, k) = h \o b
  BY DEF Framed, h, b
<1>11. QED
  BY <1>1, <1>2, <1>4, <1>7, <1>8, <1>9, <1>10, SMTT(30) DEF h, b

\* Bytes that are cut off the front of a sequence.
LEMMA SubSeqFacts ==
  ASSUME NEW T, NEW q \in Seq(T), NEW m \in 1..Len(q) + 1, NEW n \in 0..Len(q), m <= n + 1
  PROVE  /\ SubSeq(q, m, n) \in Seq(T) /\ Len(SubSeq(q, m, n)) = n - m + 1
         /\ \A j \in 1..(n - m + 1) : SubSeq(q, m, n)[j] = q[m - 1 + j]
<1>1. Len(q) \in Nat
  BY LenProperties
<1>2. \A j \in m..n : q[j] \in T
  BY <1>1, ElementOfSeq
<1>3. m \in Int /\ n \in Int
  BY <1>1
<1>4. /\ SubSeq(q, m, n) \in Seq(T) /\ Len(SubSeq(q, m, n)) = IF m <= n THEN n - m + 1 ELSE 0
      /\ \A j \in 1 .. n - m + 1 : SubSeq(q, m, n)[j] = q[m + j - 1]
  BY <1>2, <1>3, SubSeqProperties
<1>5. QED
  BY <1>1, <1>3, <1>4

\* A piece from the middle.
LEMMA SliceFacts ==
  ASSUME NEW T, NEW q \in Seq(T), NEW a \in Nat, NEW n \in Nat, a + n <= Len(q)
  PROVE  /\ SubSeq(q, a + 1, a + n) \in Seq(T) /\ Len(SubSeq(q, a + 1, a + n)) = n
         /\ \A j \in 1..n : SubSeq(q, a + 1, a + n)[j] = q[a + j]
<1>1. Len(q) \in Nat
  BY LenProperties
<1>2. \A j \in (a + 1)..(a + n) : q[j] \in T
  BY <1>1, ElementOfSeq
<1>3. a + 1 \in Int /\ a + n \in Int
  OBVIOUS
<1> DEFINE x == a + 1
           y == a + n
<1>4. \A j \in x..y : q[j] \in T
  BY <1>2
<1>5. x \in Int /\ y \in Int
  BY <1>3
<1> HIDE DEF x, y
<1>6. /\ SubSeq(q, x, y) \in Seq(T) /\ Len(SubSeq(q, x, y)) = IF x <= y THEN y - x + 1 ELSE 0
      /\ \A j \in 1 .. y - x + 1 : SubSeq(q, x, y)[j] = q[x + j - 1]
  BY <1>4, <1>5, SubSeqProperties
<1>7. y - x + 1 = n /\ (IF x <= y THEN y - x + 1 ELSE 0) = n /\ \A j \in 1..n : x + j - 1 = a + j
  BY DEF x, y
<1>8. QED
  BY <1>6, <1>7 DEF x, y

\* Bytes move from one place to the next and stay where they are in the stream.
Moved(T, p, q, p1, q1) ==
  /\ p1 \in Seq(T) /\ q1 \in Seq(T)
  /\ Len(p) <= Len(p1) /\ Len(p1) + Len(q1) = Len(p) + Len(q)
  /\ \A stream \in Seq(T), a \in Nat : At(p, stream, a) /\ At(q, stream, a + Len(p))
                                       => At(p1, stream, a) /\ At(q1, stream, a + Len(p1))
LEMMA MoveFacts ==
  ASSUME NEW T, NEW p \in Seq(T), NEW q \in Seq(T), NEW n \in 1..Len(q)
  PROVE  Moved(T, p, q, p \o SubSeq(q, 1, n), SubSeq(q, n + 1, Len(q)))
<1> DEFINE f == SubSeq(q, 1, n)
           q1 == SubSeq(q, n + 1, Len(q))
<1>0. Len(p) \in Nat /\ Len(q) \in Nat /\ n \in Nat
  BY LenProperties
<1>1. f \in Seq(T) /\ Len(f) = n /\ \A j \in 1..n : f[j] = q[j]
  BY <1>0, SubSeqFacts
<1>2. q1 \in Seq(T) /\ Len(q1) = Len(q) - n /\ \A j \in 1..(Len(q) - n) : q1[j] = q[n + j]
  BY <1>0, SubSeqFacts
<1> HIDE DEF f, q1
<1> DEFINE p1 == p \o f
<1>3. /\ p1 \in Seq(T) /\ Len(p1) = Len(p) + n
      /\ \A j \in 1..Len(p) + n : p1[j] = IF j <= Len(p) THEN p[j] ELSE f[j - Len(p)]
  BY <1>1, ConcatProperties
<1> HIDE DEF p1
<1>4. ASSUME NEW stream \in Seq(T), NEW a \in Nat, At(p, stream, a), At(q, stream, a + Len(p))
      PROVE  At(p1, stream, a) /\ At(q1, stream, a + Len(p1))
  <2>1. Len(stream) \in Nat
    BY LenProperties
  <2>2. /\ a + Len(p) + Len(q) <= Len(stream)
        /\ \A j \in 1..Len(p) : p[j] = stream[a + j]
        /\ \A j \in 1..Len(q) : q[j] = stream[a + Len(p) + j]
    BY <1>4 DEF At
  <2>3. ASSUME NEW j \in 1..Len(p1) PROVE p1[j] = stream[a + j]
    <3>1. CASE j <= Len(p)
      BY <1>0, <1>3, <2>2, <3>1
    <3>2. CASE ~(j <= Len(p))
      <4>1. j - Len(p) \in 1..n /\ j - Len(p) \in 1..Len(q) /\ a + Len(p) + (j - Len(p)) = a + j
        BY <1>0, <1>3, <3>2
      <4>2. p1[j] = q[j - Len(p)]
        BY <1>1, <1>3, <3>2, <4>1
      <4>3. QED
        BY <2>2, <4>1, <4>2
    <3>3. QED
      BY <3>1, <3>2
  <2>4. ASSUME NEW j \in 1..Len(q1) PROVE q1[j] = stream[a + Len(p1) + j]
    <3>1. n + j \in 1..Len(q) /\ a + Len(p) + (n + j) = a + Len(p1) + j
      BY <1>0, <1>2, <1>3
    <3>2. QED
      BY <1>2, <2>2, <3>1
  <2>5. QED
    BY <1>0, <1>2, <1>3, <2>1, <2>2, <2>3, <2>4 DEF At
<1>5. p1 \in Seq(T) /\ q1 \in Seq(T) /\ Len(p) <= Len(p1) /\ Len(p1) + Len(q1) = Len(p) + Len(q)
  BY <1>0, <1>2, <1>3
<1>6. Moved(T, p, q, p1, q1)
  BY <1>4, <1>5 DEF Moved
<1>7. QED
  BY <1>6 DEF p1, q1, f

(***************************************************************************)
(* What the reader finds at the front of its buffer.                       *)
(***************************************************************************)
\* Where the next frame is.
LEMMA NextFrame ==
  ASSUME NEW i \in Conn, StreamTyped, InStream(i), Len(buffer[i]) >= HeaderSize
  PROVE  /\ Len(received[i]) + 1 \in 1..Len(Messages[i]) /\ Len(received[i]) + 1 \in 1..sent[i]
         /\ SizeKnown(i) = Messages[i][Len(received[i]) + 1]
         /\ HeaderSize + Messages[i][Len(received[i]) + 1] <= Len(buffer[i])
              => SubSeq(buffer[i], HeaderSize + 1, HeaderSize + Messages[i][Len(received[i]) + 1])
                   = Body(i, Len(received[i]) + 1)
<1> DEFINE m == Len(received[i])
           L == Messages[i][m + 1]
<1>0. PICK stream \in Seq(Byte), cut \in [0..sent[i] -> Nat] :
        Cut(i, sent[i], stream, cut) /\ Layout(i, m, stream, cut)
  BY DEF InStream
<1>1. buffer[i] \in Seq(Byte) /\ received[i] \in Seq(Seq(Byte)) /\ sent[i] \in Nat
      /\ Messages[i] \in Seq(Sizes \ {0}) /\ HeaderSize \in Nat \ {0}
  BY FramingAssumption DEF StreamTyped
<1>2. /\ Len(buffer[i]) \in Nat /\ m \in Nat /\ Len(Messages[i]) \in Nat /\ Len(stream) \in Nat
      /\ m <= sent[i] /\ sent[i] <= Len(Messages[i])
  BY <1>1, LenProperties DEF InStream
<1>3. /\ cut[m] + Len(buffer[i]) <= cut[sent[i]] /\ cut[m] \in Nat /\ cut[sent[i]] \in Nat
      /\ \A j \in 1..Len(buffer[i]) : buffer[i][j] = stream[cut[m] + j]
  <2>1. m \in 0..sent[i] /\ sent[i] \in 0..sent[i]
    BY <1>1, <1>2
  <2>2. cut[m] \in Nat /\ cut[sent[i]] \in Nat
    BY <2>1
  <2>3. cut[sent[i]] = Len(stream) /\ At(buffer[i], stream, cut[m])
    BY <1>0 DEF Cut, Layout
  <2>4. QED
    BY <2>2, <2>3 DEF At
<1>4. m # sent[i]
  BY <1>1, <1>2, <1>3
<1>5. m + 1 \in 1..sent[i] /\ m + 1 \in 1..Len(Messages[i]) /\ m + 1 - 1 = m
  BY <1>1, <1>2, <1>4
<1>6. L \in Sizes /\ L \in Nat /\ \A j \in 1..HeaderSize : Framed(i, m + 1)[j] = Header(L)[j]
  BY <1>5, MessageFacts
<1>7. \A j \in 1..(HeaderSize + L) : stream[cut[m] + j] = Framed(i, m + 1)[j]
  BY <1>0, <1>5 DEF Cut
<1>8. SubSeq(buffer[i], 1, HeaderSize) = Header(L)
  <2> DEFINE f == SubSeq(buffer[i], 1, HeaderSize)
             h == Header(L)
  <2>1. f \in Seq(Byte) /\ Len(f) = HeaderSize /\ \A j \in 1..HeaderSize : f[j] = buffer[i][j]
    BY <1>1, <1>2, SubSeqFacts
  <2>2. h \in Seq(Byte) /\ Len(h) = HeaderSize
    BY <1>6, HeaderFacts
  <2>3. \A j \in 1..HeaderSize : f[j] = h[j]
    <3> SUFFICES ASSUME NEW j \in 1..HeaderSize PROVE f[j] = h[j]
      OBVIOUS
    <3>1. j \in 1..Len(buffer[i]) /\ j \in 1..(HeaderSize + L)
      BY <1>1, <1>2, <1>6
    <3>2. QED
      BY <1>3, <1>6, <1>7, <2>1, <3>1
  <2> HIDE DEF f, h
  <2>4. f = h
    BY <2>1, <2>2, <2>3, SeqEqual
  <2>5. QED
    BY <2>4 DEF f, h
<1>9. SizeKnown(i) = L
  <2>1. CASE messageSize[i] # Nothing
    BY <2>1 DEF SizeKnown, InStream
  <2>2. CASE messageSize[i] = Nothing
    <3>1. ~(Len(buffer[i]) < HeaderSize)
      BY <1>1, <1>2
    <3>2. SizeKnown(i) = Unpack(SubSeq(buffer[i], 1, HeaderSize))
      BY <2>2, <3>1 DEF SizeKnown
    <3>3. QED
      BY <1>6, <1>8, <3>2, HeaderAssumption
  <2>3. QED
    BY <2>1, <2>2
<1>10. ASSUME HeaderSize + L <= Len(buffer[i])
       PROVE  SubSeq(buffer[i], HeaderSize + 1, HeaderSize + L) = Body(i, m + 1)
  <2> DEFINE f == SubSeq(buffer[i], HeaderSize + 1, HeaderSize + L)
             b == Body(i, m + 1)
  <2>2. f \in Seq(Byte) /\ Len(f) = L /\ \A j \in 1..L : f[j] = buffer[i][HeaderSize + j]
    <3>1. buffer[i] \in Seq(Byte) /\ HeaderSize \in Nat /\ L \in Nat /\ HeaderSize + L <= Len(buffer[i])
      BY <1>1, <1>6, <1>10
    <3> HIDE DEF L
    <3>2. QED
      BY <3>1, SliceFacts
  <2>3. b \in Seq(Byte) /\ Len(b) = L /\ \A j \in 1..L : Framed(i, m + 1)[HeaderSize + j] = b[j]
    BY <1>5, MessageFacts
  <2>4. \A j \in 1..L : f[j] = b[j]
    <3> SUFFICES ASSUME NEW j \in 1..L PROVE f[j] = b[j]
      OBVIOUS
    <3>1. HeaderSize + j \in 1..Len(buffer[i]) /\ HeaderSize + j \in 1..(HeaderSize + L)
      <4> DEFINE n == Len(buffer[i])
      <4>1. n \in Nat /\ HeaderSize \in Nat /\ L \in Nat /\ HeaderSize + L <= n /\ j \in 1..L
        BY <1>1, <1>2, <1>6, <1>10
      <4> HIDE DEF n, L
      <4>2. HeaderSize + j \in 1..n /\ HeaderSize + j \in 1..(HeaderSize + L)
        BY <4>1
      <4>3. QED
        BY <4>2 DEF n
    <3>2. buffer[i][HeaderSize + j] = Framed(i, m + 1)[HeaderSize + j]
      BY <1>3, <1>7, <3>1
    <3>3. QED
      BY <2>2, <2>3, <3>2
  <2> HIDE DEF f, b
  <2>5. f = b
    BY <2>2, <2>3, <2>4, SeqEqual
  <2>6. QED
    BY <2>5 DEF f, b
<1>11. QED
  BY <1>5, <1>9, <1>10

(***************************************************************************)
(* Streams that grow.                                                      *)
(***************************************************************************)
\* What was in the stream stays where it was, and what is new follows it.
LEMMA GrowFacts ==
  ASSUME NEW T, NEW stream \in Seq(T), NEW f \in Seq(T)
  PROVE  /\ stream \o f \in Seq(T) /\ Len(stream \o f) = Len(stream) + Len(f)
         /\ \A j \in 1..Len(stream) : (stream \o f)[j] = stream[j]
         /\ \A j \in 1..Len(f) : (stream \o f)[Len(stream) + j] = f[j]
         /\ \A q \in Seq(T), a \in Nat : At(q, stream, a) => At(q, stream \o f, a)
<1> DEFINE s == stream \o f
<1>0. Len(stream) \in Nat /\ Len(f) \in Nat
  BY LenProperties
<1>1. /\ s \in Seq(T) /\ Len(s) = Len(stream) + Len(f)
      /\ \A j \in 1..Len(stream) + Len(f) : s[j] = IF j <= Len(stream) THEN stream[j] ELSE f[j - Len(stream)]
  BY ConcatProperties
<1> HIDE DEF s
<1>2. \A j \in 1..Len(stream) : s[j] = stream[j]
  BY <1>0, <1>1
<1>3. \A j \in 1..Len(f) : s[Len(stream) + j] = f[j]
  BY <1>0, <1>1
<1>4. ASSUME NEW q \in Seq(T), NEW a \in Nat, At(q, stream, a)
      PROVE  At(q, s, a)
  <2>1. Len(q) \in Nat
    BY LenProperties
  <2>2. \A j \in 1..Len(q) : a + j \in 1..Len(stream)
    BY <1>0, <1>4, <2>1 DEF At
  <2>3. QED
    BY <1>0, <1>1, <1>2, <1>4, <2>1, <2>2 DEF At
<1>5. QED
  BY <1>1, <1>2, <1>3, <1>4 DEF s

(***************************************************************************)
(* The invariant is kept on every connection.                              *)
(***************************************************************************)
Untouched(i) ==
  /\ sent'[i] = sent[i] /\ unsent'[i] = unsent[i] /\ open'[i] = open[i] /\ wire'[i] = wire[i]
  /\ buffer'[i] = buffer[i] /\ messageSize'[i] = messageSize[i] /\ received'[i] = received[i]

LEMMA FrameKeeps ==
  ASSUME NEW i \in Conn, InStream(i), Untouched(i)
  PROVE  InStream(i)'
BY DEF Untouched, InStream, Layout

\* What the proofs take out of the invariant for one connection.
LEMMA Contents ==
  ASSUME NEW i \in Conn, StreamTyped, InStream(i)
  PROVE  /\ sent[i] \in Nat /\ HeaderSize \in Nat \ {0} /\ Messages[i] \in Seq(Sizes \ {0})
         /\ Len(Messages[i]) \in Nat /\ sent[i] <= Len(Messages[i])
         /\ buffer[i] \in Seq(Byte) /\ wire[i] \in Seq(Byte) /\ unsent[i] \in Seq(Byte)
         /\ Len(buffer[i]) \in Nat /\ Len(wire[i]) \in Nat /\ Len(unsent[i]) \in Nat
         /\ received[i] \in Seq(Seq(Byte)) /\ Len(received[i]) \in 0..sent[i]
<1>1. /\ sent[i] \in Nat /\ HeaderSize \in Nat \ {0} /\ Messages[i] \in Seq(Sizes \ {0})
      /\ buffer[i] \in Seq(Byte) /\ wire[i] \in Seq(Byte) /\ unsent[i] \in Seq(Byte)
      /\ received[i] \in Seq(Seq(Byte))
  BY FramingAssumption DEF StreamTyped
<1>2. /\ Len(Messages[i]) \in Nat /\ Len(received[i]) \in Nat
      /\ Len(buffer[i]) \in Nat /\ Len(wire[i]) \in Nat /\ Len(unsent[i]) \in Nat
  BY <1>1, LenProperties
<1>3. sent[i] <= Len(Messages[i]) /\ Len(received[i]) <= sent[i]
  BY DEF InStream
<1>4. QED
  BY <1>1, <1>2, <1>3

\* A peer begins with its next message.
LEMMA WriteKeeps ==
  ASSUME NEW i \in Conn, FInv, WriteBytes(i)
  PROVE  StreamTyped' /\ InStream(i)'
<1> DEFINE n == sent[i]
           m == Len(received[i])
           f == Framed(i, n + 1)
           size == HeaderSize + Messages[i][n + 1]
<1>1. StreamTyped /\ InStream(i)
  BY DEF FInv
<1>2. /\ n \in Nat /\ HeaderSize \in Nat \ {0} /\ n + 1 \in 1..Len(Messages[i]) /\ m \in 0..n
      /\ buffer[i] \in Seq(Byte) /\ wire[i] \in Seq(Byte) /\ Len(buffer[i]) \in Nat /\ Len(wire[i]) \in Nat
  BY <1>1, Contents DEF WriteBytes
<1>3. f \in Seq(Byte) /\ Len(f) = size /\ size \in Nat
  BY <1>2, MessageFacts
<1>4. /\ sent'[i] = n + 1 /\ unsent'[i] = f /\ open'[i] = open[i] /\ wire'[i] = wire[i]
      /\ buffer'[i] = buffer[i] /\ messageSize'[i] = messageSize[i] /\ received'[i] = received[i]
      /\ open[i] /\ unsent[i] = <<>>
  BY <1>1 DEF WriteBytes, StreamTyped
<1>5. StreamTyped'
  <2>1. sent' \in [Conn -> Nat]
    BY <1>1, <1>2 DEF WriteBytes, StreamTyped
  <2>2. unsent' = [unsent EXCEPT ![i] = f]
    BY <1>4 DEF WriteBytes
  <2>3. unsent' \in [Conn -> Seq(Byte)]
    BY <1>1, <1>3, <2>2 DEF StreamTyped
  <2>4. QED
    BY <1>1, <2>1, <2>3 DEF WriteBytes, StreamTyped, peers, reader
<1>6. PICK stream \in Seq(Byte), cut \in [0..n -> Nat] : Cut(i, n, stream, cut) /\ Layout(i, m, stream, cut)
  BY <1>1 DEF InStream
<1> HIDE DEF f
<1>7. Len(stream) \in Nat
  BY LenProperties
<1>8. PICK stream1 \in Seq(Byte) :
        /\ Len(stream1) = Len(stream) + size
        /\ \A j \in 1..Len(stream) : stream1[j] = stream[j]
        /\ \A j \in 1..size : stream1[Len(stream) + j] = f[j]
        /\ \A q \in Seq(Byte), a \in Nat : At(q, stream, a) => At(q, stream1, a)
  <2>1. f \in Seq(Byte) /\ Len(f) = size
    BY <1>3
  <2> HIDE DEF size
  <2>2. /\ stream \o f \in Seq(Byte) /\ Len(stream \o f) = Len(stream) + Len(f)
        /\ \A j \in 1..Len(stream) : (stream \o f)[j] = stream[j]
        /\ \A j \in 1..Len(f) : (stream \o f)[Len(stream) + j] = f[j]
        /\ \A q \in Seq(Byte), a \in Nat : At(q, stream, a) => At(q, stream \o f, a)
    BY <2>1, GrowFacts
  <2> DEFINE s == stream \o f
  <2> HIDE DEF s
  <2>3. /\ s \in Seq(Byte) /\ Len(s) = Len(stream) + size
        /\ \A j \in 1..Len(stream) : s[j] = stream[j]
        /\ \A j \in 1..size : s[Len(stream) + j] = f[j]
        /\ \A q \in Seq(Byte), a \in Nat : At(q, stream, a) => At(q, s, a)
    BY <2>1, <2>2 DEF s
  <2>4. QED
    BY <2>3
<1>9. PICK cut1 \in [0..(n + 1) -> Nat] :
        cut1[n + 1] = Len(stream) + size /\ \A k \in 0..n : cut1[k] = cut[k]
  <2> DEFINE c == [k \in 0..(n + 1) |-> IF k <= n THEN cut[k] ELSE Len(stream) + size]
  <2> HIDE DEF size
  <2>1. \A k \in 0..(n + 1) : k <= n => k \in 0..n
    BY <1>2
  <2>2. n + 1 \in 0..(n + 1) /\ ~(n + 1 <= n) /\ Len(stream) + size \in Nat /\ \A k \in 0..n : k \in 0..(n + 1) /\ k <= n
    BY <1>2, <1>3, <1>7
  <2>3. c \in [0..(n + 1) -> Nat]
    BY <2>1, <2>2
  <2>4. c[n + 1] = Len(stream) + size /\ \A k \in 0..n : c[k] = cut[k]
    BY <2>2
  <2>5. QED
    BY <2>3, <2>4
<1>10. Cut(i, n + 1, stream1, cut1)
  <2>1. /\ cut[0] = 0 /\ cut[n] = Len(stream)
        /\ \A k \in 1..n : /\ cut[k] = cut[k - 1] + (HeaderSize + Messages[i][k])
                           /\ \A j \in 1..(HeaderSize + Messages[i][k]) : stream[cut[k - 1] + j] = Framed(i, k)[j]
        /\ \A j, k \in 0..n : j <= k => cut[j] <= cut[k]
    BY <1>6 DEF Cut
  <2>2. cut1[0] = 0 /\ cut1[n] = Len(stream) /\ cut1[n + 1] = Len(stream1)
    BY <1>2, <1>8, <1>9, <2>1
  <2>3. ASSUME NEW k \in 1..n + 1
        PROVE  /\ cut1[k] = cut1[k - 1] + (HeaderSize + Messages[i][k])
               /\ \A j \in 1..(HeaderSize + Messages[i][k]) : stream1[cut1[k - 1] + j] = Framed(i, k)[j]
    <3>1. CASE k = n + 1
      <4>1. k - 1 = n /\ HeaderSize + Messages[i][k] = size /\ Framed(i, k) = f
        BY <1>2, <3>1 DEF size, f
      <4>2. QED
        BY <1>8, <1>9, <2>2, <3>1, <4>1
    <3>2. CASE k # n + 1
      <4>1. k \in 1..n /\ k \in 0..n /\ k - 1 \in 0..n /\ n \in 0..n
        BY <1>2, <3>2
      <4>2. cut1[k] = cut[k] /\ cut1[k - 1] = cut[k - 1] /\ cut[k] \in Nat /\ cut[k - 1] \in Nat
        BY <1>9, <4>1
      <4>3. cut[k] <= Len(stream)
        BY <2>1, <4>1
      <4>4. Messages[i][k] \in Nat
        <5>1. k \in 1..Len(Messages[i])
          BY <1>2, <4>1, Contents, <1>1
        <5>2. QED
          BY <5>1, MessageFacts
      <4>5. \A j \in 1..(HeaderSize + Messages[i][k]) : cut[k - 1] + j \in 1..Len(stream)
        <5>1. cut[k] = cut[k - 1] + (HeaderSize + Messages[i][k])
          BY <2>1, <4>1
        <5>2. HeaderSize + Messages[i][k] \in Nat /\ Len(stream) \in Nat
          BY <1>2, <1>7, <4>4
        <5> HIDE DEF size
        <5>3. ASSUME NEW j \in 1..(HeaderSize + Messages[i][k])
              PROVE  cut[k - 1] + j \in 1..Len(stream)
          BY <4>2, <4>3, <5>1, <5>2
        <5>4. QED
          BY <5>3
      <4>6. QED
        BY <1>8, <2>1, <4>1, <4>2, <4>5, SMTT(30)
    <3>3. QED
      BY <3>1, <3>2
  <2>4. ASSUME NEW j \in 0..(n + 1), NEW k \in 0..(n + 1), j <= k
        PROVE  cut1[j] <= cut1[k]
    <3>1. CASE k = n + 1 /\ j = n + 1
      BY <1>3, <1>7, <1>9, <3>1
    <3>2. CASE k = n + 1 /\ j # n + 1
      <4>1. j \in 0..n /\ n \in 0..n /\ j <= n
        BY <1>2, <3>2
      <4>2. cut1[j] = cut[j] /\ cut[j] \in Nat /\ cut[j] <= Len(stream)
        BY <1>9, <2>1, <4>1
      <4>3. QED
        BY <1>3, <1>7, <1>9, <3>2, <4>2
    <3>3. CASE k # n + 1
      <4>1. j \in 0..n /\ k \in 0..n
        BY <1>2, <2>4, <3>3
      <4>2. QED
        BY <1>9, <2>1, <2>4, <4>1
    <3>4. QED
      BY <3>1, <3>2, <3>3
  <2>5. QED
    BY <2>2, <2>3, <2>4 DEF Cut
<1>11. Layout(i, m, stream1, cut1)'
  <2>1. cut1[m] = cut[m] /\ cut[m] \in Nat
    BY <1>2, <1>9
  <2>2. /\ At(buffer[i], stream, cut[m]) /\ At(wire[i], stream, cut[m] + Len(buffer[i]))
        /\ cut[m] + Len(buffer[i]) + Len(wire[i]) + Len(unsent[i]) = Len(stream)
    BY <1>4, <1>6 DEF Layout
  <2>3. Len(unsent[i]) = 0
    BY <1>4
  <2>4. cut[m] + Len(buffer[i]) + Len(wire[i]) = Len(stream) /\ cut[m] + Len(buffer[i]) \in Nat
    BY <1>2, <2>1, <2>2, <2>3
  <2>5. At(buffer[i], stream1, cut[m]) /\ At(wire[i], stream1, cut[m] + Len(buffer[i]))
    BY <1>2, <1>8, <2>1, <2>2, <2>4
  <2>6. At(f, stream1, Len(stream))
    BY <1>3, <1>7, <1>8 DEF At
  <2>7. QED
    BY <1>3, <1>4, <1>8, <2>1, <2>4, <2>5, <2>6 DEF Layout
<1>12. InStream(i)'
  <2>1. sent'[i] <= Len(Messages[i]) /\ Len(received'[i]) <= sent'[i]
    BY <1>2, <1>4
  <2>2. /\ \A k \in DOMAIN received'[i] : received'[i][k] = Body(i, k)
        /\ messageSize'[i] # Nothing => /\ Len(buffer'[i]) >= HeaderSize
                                        /\ messageSize'[i] = Messages[i][Len(received'[i]) + 1]
    BY <1>1, <1>4 DEF InStream
  <2>3. \E stream2 \in Seq(Byte), cut2 \in [0..sent'[i] -> Nat] :
          Cut(i, sent'[i], stream2, cut2) /\ Layout(i, Len(received[i]), stream2, cut2)'
    BY <1>4, <1>8, <1>9, <1>10, <1>11
  <2>4. QED
    BY <2>1, <2>2, <2>3 DEF InStream
<1>13. QED
  BY <1>5, <1>12

\* Bytes are handed over to the connection.
LEMMA PushKeeps ==
  ASSUME NEW i \in Conn, FInv, Push(i)
  PROVE  StreamTyped' /\ InStream(i)'
<1> DEFINE m == Len(received[i])
<1>1. StreamTyped /\ InStream(i)
  BY DEF FInv
<1>2. PICK n \in 1..Len(unsent[i]) : /\ wire' = [wire EXCEPT ![i] = @ \o SubSeq(unsent[i], 1, n)]
                                     /\ unsent' = [unsent EXCEPT ![i] = SubSeq(@, n + 1, Len(@))]
  BY DEF Push
<1> DEFINE w == wire[i] \o SubSeq(unsent[i], 1, n)
           u == SubSeq(unsent[i], n + 1, Len(unsent[i]))
<1>3. /\ wire[i] \in Seq(Byte) /\ unsent[i] \in Seq(Byte) /\ Len(wire[i]) \in Nat /\ Len(unsent[i]) \in Nat
      /\ Len(buffer[i]) \in Nat /\ sent[i] \in Nat /\ m \in 0..sent[i]
  BY <1>1, Contents
<1>4. Moved(Byte, wire[i], unsent[i], w, u)
  BY <1>3, MoveFacts
<1>5. wire' = [wire EXCEPT ![i] = w] /\ unsent' = [unsent EXCEPT ![i] = u]
  BY <1>2
<1> HIDE DEF w, u
<1>6. StreamTyped'
  <2>1. wire' \in [Conn -> Seq(Byte)] /\ unsent' \in [Conn -> Seq(Byte)]
    BY <1>1, <1>4, <1>5 DEF StreamTyped, Moved
  <2>2. QED
    BY <1>1, <2>1 DEF Push, StreamTyped, reader
<1>7. /\ sent'[i] = sent[i] /\ unsent'[i] = u /\ open'[i] = open[i] /\ wire'[i] = w
      /\ buffer'[i] = buffer[i] /\ messageSize'[i] = messageSize[i] /\ received'[i] = received[i]
  BY <1>1, <1>5 DEF Push, StreamTyped
<1>0. \A c \in Nat : c + Len(w) + Len(u) = c + Len(wire[i]) + Len(unsent[i])
  <2>1. Len(w) + Len(u) = Len(wire[i]) + Len(unsent[i])
    BY <1>4 DEF Moved
  <2>2. Len(w) \in Nat /\ Len(u) \in Nat /\ Len(wire[i]) \in Nat /\ Len(unsent[i]) \in Nat
    BY <1>3, <1>4, LenProperties DEF Moved
  <2> DEFINE w1 == Len(w)
             u1 == Len(u)
             w0 == Len(wire[i])
             u0 == Len(unsent[i])
  <2>3. w1 \in Nat /\ u1 \in Nat /\ w0 \in Nat /\ u0 \in Nat /\ w1 + u1 = w0 + u0
    BY <2>1, <2>2
  <2> HIDE DEF w1, u1, w0, u0
  <2>4. \A c \in Nat : c + w1 + u1 = c + w0 + u0
    BY <2>3
  <2>5. QED
    BY <2>4 DEF w1, u1, w0, u0
<1>8. PICK stream \in Seq(Byte), cut \in [0..sent[i] -> Nat] : Cut(i, sent[i], stream, cut) /\ Layout(i, m, stream, cut)
  BY <1>1 DEF InStream
<1>9. /\ At(buffer[i], stream, cut[m]) /\ At(wire[i], stream, cut[m] + Len(buffer[i]))
      /\ At(unsent[i], stream, cut[m] + Len(buffer[i]) + Len(wire[i]))
      /\ open[i] => cut[m] + Len(buffer[i]) + Len(wire[i]) + Len(unsent[i]) = Len(stream)
  BY <1>8 DEF Layout
<1>10. cut[m] \in Nat /\ cut[m] + Len(buffer[i]) \in Nat
  BY <1>3
<1>11. At(w, stream, cut[m] + Len(buffer[i])) /\ At(u, stream, cut[m] + Len(buffer[i]) + Len(w))
  BY <1>4, <1>9, <1>10 DEF Moved
<1>12. open[i] => cut[m] + Len(buffer[i]) + Len(w) + Len(u) = Len(stream)
  BY <1>0, <1>9, <1>10
<1>13. Layout(i, m, stream, cut)'
  BY <1>7, <1>9, <1>11, <1>12 DEF Layout
<1>14. InStream(i)'
  BY <1>1, <1>7, <1>8, <1>13 DEF InStream
<1>15. QED
  BY <1>6, <1>14

\* A peer that closes leaves what it has not handed over.
LEMMA CloseKeeps ==
  ASSUME NEW i \in Conn, FInv, Close(i)
  PROVE  StreamTyped' /\ InStream(i)'
<1> DEFINE m == Len(received[i])
<1>1. StreamTyped /\ InStream(i)
  BY DEF FInv
<1>2. /\ wire[i] \in Seq(Byte) /\ Len(wire[i]) \in Nat
      /\ Len(buffer[i]) \in Nat /\ sent[i] \in Nat /\ m \in 0..sent[i]
  BY <1>1, Contents
<1>3. StreamTyped'
  BY <1>1, EmptySeq DEF Close, StreamTyped, reader
<1>4. /\ sent'[i] = sent[i] /\ unsent'[i] = <<>> /\ ~open'[i] /\ wire'[i] = wire[i]
      /\ buffer'[i] = buffer[i] /\ messageSize'[i] = messageSize[i] /\ received'[i] = received[i]
  BY <1>1 DEF Close, StreamTyped
<1>5. PICK stream \in Seq(Byte), cut \in [0..sent[i] -> Nat] : Cut(i, sent[i], stream, cut) /\ Layout(i, m, stream, cut)
  BY <1>1 DEF InStream
<1>6. At(buffer[i], stream, cut[m]) /\ At(wire[i], stream, cut[m] + Len(buffer[i])) /\ cut[m] \in Nat
  BY <1>2, <1>5 DEF Layout
<1>7. At(<<>>, stream, cut[m] + Len(buffer[i]) + Len(wire[i]))
  <2>1. Len(stream) \in Nat /\ cut[m] + Len(buffer[i]) + Len(wire[i]) <= Len(stream)
    BY <1>6, LenProperties DEF At
  <2>2. Len(<<>>) = 0
    OBVIOUS
  <2>3. QED
    BY <1>2, <1>6, <2>1, <2>2 DEF At
<1>8. Layout(i, m, stream, cut)'
  BY <1>4, <1>6, <1>7 DEF Layout
<1>9. InStream(i)'
  BY <1>1, <1>4, <1>5, <1>8 DEF InStream
<1>10. QED
  BY <1>3, <1>9

\* The reader takes what has arrived into its buffer.
LEMMA RecvKeeps ==
  ASSUME NEW i \in Conn, FInv, Recv(i)
  PROVE  StreamTyped' /\ InStream(i)'
<1> DEFINE m == Len(received[i])
<1>1. StreamTyped /\ InStream(i)
  BY DEF FInv
<1>2. PICK n \in 1..Len(wire[i]) : /\ buffer' = [buffer EXCEPT ![i] = @ \o SubSeq(wire[i], 1, n)]
                                   /\ wire' = [wire EXCEPT ![i] = SubSeq(@, n + 1, Len(@))]
  BY DEF Recv
<1> DEFINE b == buffer[i] \o SubSeq(wire[i], 1, n)
           w == SubSeq(wire[i], n + 1, Len(wire[i]))
<1>3. /\ buffer[i] \in Seq(Byte) /\ wire[i] \in Seq(Byte) /\ Len(buffer[i]) \in Nat /\ Len(wire[i]) \in Nat
      /\ Len(unsent[i]) \in Nat /\ sent[i] \in Nat /\ m \in 0..sent[i] /\ HeaderSize \in Nat
  BY <1>1, Contents
<1>4. Moved(Byte, buffer[i], wire[i], b, w)
  BY <1>3, MoveFacts
<1>5. buffer' = [buffer EXCEPT ![i] = b] /\ wire' = [wire EXCEPT ![i] = w]
  BY <1>2
<1> HIDE DEF b, w
<1>6. Len(b) \in Nat /\ Len(w) \in Nat /\ Len(buffer[i]) <= Len(b) /\ Len(b) + Len(w) = Len(buffer[i]) + Len(wire[i])
  BY <1>4, LenProperties DEF Moved
<1>0. \A c \in Nat : c + Len(b) + Len(w) = c + Len(buffer[i]) + Len(wire[i])
  <2> DEFINE b1 == Len(b)
             w1 == Len(w)
             b0 == Len(buffer[i])
             w0 == Len(wire[i])
  <2>1. b1 \in Nat /\ w1 \in Nat /\ b0 \in Nat /\ w0 \in Nat /\ b1 + w1 = b0 + w0
    BY <1>3, <1>6
  <2> HIDE DEF b1, w1, b0, w0
  <2>2. \A c \in Nat : c + b1 + w1 = c + b0 + w0
    BY <2>1
  <2>3. QED
    BY <2>2 DEF b1, w1, b0, w0
<1>7. SizeKnown(i) # Nothing => Len(buffer[i]) >= HeaderSize /\ SizeKnown(i) = Messages[i][m + 1]
                                /\ SizeKnown(i) \in Sizes
  <2>1. CASE Len(buffer[i]) >= HeaderSize
    <3>1. m + 1 \in 1..Len(Messages[i]) /\ SizeKnown(i) = Messages[i][m + 1]
      BY <1>1, <2>1, NextFrame
    <3>2. QED
      BY <2>1, <3>1, MessageFacts
  <2>2. CASE ~(Len(buffer[i]) >= HeaderSize)
    <3>1. messageSize[i] = Nothing /\ Len(buffer[i]) < HeaderSize
      BY <1>1, <1>3, <2>2 DEF InStream
    <3>2. QED
      BY <3>1 DEF SizeKnown
  <2>3. QED
    BY <2>1, <2>2
<1>8. StreamTyped'
  <2>1. wire' \in [Conn -> Seq(Byte)] /\ buffer' \in [Conn -> Seq(Byte)]
    BY <1>1, <1>4, <1>5 DEF StreamTyped, Moved
  <2>2. messageSize' \in [Conn -> Sizes \cup {Nothing}]
    BY <1>1, <1>7 DEF Recv, StreamTyped
  <2>3. QED
    BY <1>1, <2>1, <2>2 DEF Recv, StreamTyped, peers, reader
<1>9. /\ sent'[i] = sent[i] /\ unsent'[i] = unsent[i] /\ open'[i] = open[i] /\ wire'[i] = w
      /\ buffer'[i] = b /\ messageSize'[i] = SizeKnown(i) /\ received'[i] = received[i]
  BY <1>1, <1>5 DEF Recv, StreamTyped, peers
<1>10. PICK stream \in Seq(Byte), cut \in [0..sent[i] -> Nat] : Cut(i, sent[i], stream, cut) /\ Layout(i, m, stream, cut)
  BY <1>1 DEF InStream
<1>11. /\ At(buffer[i], stream, cut[m]) /\ At(wire[i], stream, cut[m] + Len(buffer[i]))
       /\ At(unsent[i], stream, cut[m] + Len(buffer[i]) + Len(wire[i]))
       /\ open[i] => cut[m] + Len(buffer[i]) + Len(wire[i]) + Len(unsent[i]) = Len(stream)
  BY <1>10 DEF Layout
<1>12. cut[m] \in Nat
  BY <1>3
<1>13. At(b, stream, cut[m]) /\ At(w, stream, cut[m] + Len(b))
  BY <1>4, <1>11, <1>12 DEF Moved
<1>14. cut[m] + Len(b) + Len(w) = cut[m] + Len(buffer[i]) + Len(wire[i])
  BY <1>0, <1>12
<1>15. Layout(i, m, stream, cut)'
  BY <1>9, <1>11, <1>13, <1>14 DEF Layout
<1>16. messageSize'[i] # Nothing => /\ Len(buffer'[i]) >= HeaderSize
                                   /\ messageSize'[i] = Messages[i][Len(received'[i]) + 1]
  BY <1>3, <1>6, <1>7, <1>9
<1>17. InStream(i)'
  BY <1>1, <1>9, <1>10, <1>15, <1>16 DEF InStream
<1>18. QED
  BY <1>8, <1>17

\* The reader takes a message out of its buffer.
LEMMA TakeKeeps ==
  ASSUME NEW i \in Conn, FInv, TakeFrame(i)
  PROVE  StreamTyped' /\ InStream(i)'
<1> DEFINE m == Len(received[i])
           size == HeaderSize + Messages[i][m + 1]
           b == SubSeq(buffer[i], size + 1, Len(buffer[i]))
<1>1. StreamTyped /\ InStream(i)
  BY DEF FInv
<1>2. /\ buffer[i] \in Seq(Byte) /\ Len(buffer[i]) \in Nat /\ Len(wire[i]) \in Nat /\ Len(unsent[i]) \in Nat
      /\ sent[i] \in Nat /\ m \in 0..sent[i] /\ HeaderSize \in Nat /\ received[i] \in Seq(Seq(Byte))
  BY <1>1, Contents
<1>3. Len(buffer[i]) >= HeaderSize /\ Len(buffer[i]) >= HeaderSize + SizeKnown(i)
  BY DEF TakeFrame, HasFrame
<1>4. m + 1 \in 1..Len(Messages[i]) /\ m + 1 \in 1..sent[i] /\ SizeKnown(i) = Messages[i][m + 1]
  BY <1>1, <1>3, NextFrame
<1>5. size \in Nat /\ size <= Len(buffer[i]) /\ Body(i, m + 1) \in Seq(Byte)
  <2>1. Messages[i][m + 1] \in Nat /\ Body(i, m + 1) \in Seq(Byte)
    BY <1>4, MessageFacts
  <2>2. QED
    BY <1>2, <1>3, <1>4, <2>1
<1>6. SubSeq(buffer[i], HeaderSize + 1, size) = Body(i, m + 1)
  <2>1. HeaderSize + Messages[i][m + 1] <= Len(buffer[i])
    BY <1>5
  <2>2. QED
    BY <1>1, <1>3, <2>1, NextFrame
<1>7. received' = [received EXCEPT ![i] = Append(@, Body(i, m + 1))] /\ buffer' = [buffer EXCEPT ![i] = b]
  BY <1>4, <1>6 DEF TakeFrame
<1>8. b \in Seq(Byte) /\ Len(b) = Len(buffer[i]) - size /\ \A j \in 1..(Len(buffer[i]) - size) : b[j] = buffer[i][size + j]
  <2>1. size \in Nat /\ Len(buffer[i]) - size \in Nat /\ size + (Len(buffer[i]) - size) = Len(buffer[i])
    BY <1>2, <1>5, SMTT(30)
  <2> DEFINE rest == Len(buffer[i]) - size
  <2>2. rest \in Nat /\ size + rest = Len(buffer[i]) /\ size + rest <= Len(buffer[i])
    BY <1>2, <2>1
  <2> HIDE DEF size, rest
  <2>3. /\ SubSeq(buffer[i], size + 1, size + rest) \in Seq(Byte) /\ Len(SubSeq(buffer[i], size + 1, size + rest)) = rest
        /\ \A j \in 1..rest : SubSeq(buffer[i], size + 1, size + rest)[j] = buffer[i][size + j]
    BY <1>2, <2>1, <2>2, SliceFacts
  <2>4. QED
    BY <2>2, <2>3 DEF rest
<1> HIDE DEF b
<1>0. \A c \in Nat : (c + size) + Len(b) = c + Len(buffer[i])
  <2> DEFINE b1 == Len(b)
             b0 == Len(buffer[i])
  <2>1. b0 \in Nat /\ size \in Nat /\ b1 = b0 - size
    BY <1>2, <1>5, <1>8
  <2> HIDE DEF b1, b0, size
  <2>2. \A c \in Nat : (c + size) + b1 = c + b0
    BY <2>1
  <2>3. QED
    BY <2>2 DEF b1, b0
<1>9. /\ Append(received[i], Body(i, m + 1)) \in Seq(Seq(Byte)) /\ Len(Append(received[i], Body(i, m + 1))) = m + 1
      /\ \A k \in 1..m : Append(received[i], Body(i, m + 1))[k] = received[i][k]
      /\ Append(received[i], Body(i, m + 1))[m + 1] = Body(i, m + 1)
  BY <1>2, <1>5, AppendProperties
<1>10. StreamTyped'
  <2>1. received' \in [Conn -> Seq(Seq(Byte))] /\ buffer' \in [Conn -> Seq(Byte)]
    BY <1>1, <1>7, <1>8, <1>9 DEF StreamTyped
  <2>2. QED
    BY <1>1, <2>1 DEF TakeFrame, StreamTyped, peers
<1>11. /\ sent'[i] = sent[i] /\ unsent'[i] = unsent[i] /\ open'[i] = open[i] /\ wire'[i] = wire[i]
       /\ buffer'[i] = b /\ messageSize'[i] = Nothing /\ received'[i] = Append(received[i], Body(i, m + 1))
  BY <1>1, <1>7 DEF TakeFrame, StreamTyped, peers
<1>12. Len(received'[i]) = m + 1 /\ \A k \in DOMAIN received'[i] : received'[i][k] = Body(i, k)
  <2>1. \A k \in 1..m : received[i][k] = Body(i, k)
    BY <1>1, <1>2 DEF InStream
  <2>2. DOMAIN received'[i] = 1..(m + 1) /\ Len(received'[i]) = m + 1
    BY <1>9, <1>11
  <2>3. \A k \in 1..(m + 1) : k \in 1..m \/ k = m + 1
    BY <1>2
  <2>4. QED
    BY <1>9, <1>11, <2>1, <2>2, <2>3
<1>13. PICK stream \in Seq(Byte), cut \in [0..sent[i] -> Nat] : Cut(i, sent[i], stream, cut) /\ Layout(i, m, stream, cut)
  BY <1>1 DEF InStream
<1>14. /\ At(buffer[i], stream, cut[m]) /\ At(wire[i], stream, cut[m] + Len(buffer[i]))
       /\ At(unsent[i], stream, cut[m] + Len(buffer[i]) + Len(wire[i]))
       /\ open[i] => cut[m] + Len(buffer[i]) + Len(wire[i]) + Len(unsent[i]) = Len(stream)
  BY <1>13 DEF Layout
<1>15. cut[m] \in Nat /\ cut[m + 1] = cut[m] + size
  <2>1. m + 1 - 1 = m /\ m \in 0..sent[i]
    BY <1>2
  <2>2. QED
    BY <1>4, <1>13, <2>1 DEF Cut
<1>16. cut[m + 1] + Len(b) = cut[m] + Len(buffer[i])
  BY <1>0, <1>15
<1>17. At(b, stream, cut[m + 1])
  <2> DEFINE c == cut[m]
  <2>1. /\ c \in Nat /\ size \in Nat /\ Len(b) = Len(buffer[i]) - size /\ size <= Len(buffer[i])
        /\ c + Len(buffer[i]) <= Len(stream) /\ Len(stream) \in Nat /\ cut[m + 1] = c + size
        /\ \A j \in 1..Len(buffer[i]) : buffer[i][j] = stream[c + j]
    BY <1>5, <1>8, <1>14, <1>15, LenProperties DEF At
  <2> HIDE DEF c, size
  <2>2. ASSUME NEW j \in 1..Len(b)
        PROVE  b[j] = stream[(c + size) + j]
    <3>1. j \in 1..(Len(buffer[i]) - size) /\ size + j \in 1..Len(buffer[i]) /\ c + (size + j) = (c + size) + j
      BY <1>2, <2>1
    <3>2. QED
      BY <1>8, <2>1, <3>1
  <2>3. (c + size) + Len(b) <= Len(stream)
    BY <1>0, <2>1
  <2>4. At(b, stream, c + size)
    BY <2>2, <2>3 DEF At
  <2>5. QED
    BY <2>1, <2>4
<1>18. Layout(i, Len(received[i]), stream, cut)'
  BY <1>11, <1>12, <1>14, <1>16, <1>17 DEF Layout
<1>19. InStream(i)'
  <2>1. sent'[i] <= Len(Messages[i]) /\ Len(received'[i]) <= sent'[i]
    BY <1>1, <1>2, <1>4, <1>11, <1>12 DEF InStream
  <2>2. \E stream1 \in Seq(Byte), cut1 \in [0..sent'[i] -> Nat] :
          Cut(i, sent'[i], stream1, cut1) /\ Layout(i, Len(received[i]), stream1, cut1)'
    BY <1>11, <1>13, <1>18
  <2>3. QED
    BY <1>11, <1>12, <2>1, <2>2 DEF InStream
<1>20. QED
  BY <1>10, <1>19

(***************************************************************************)
(* The invariant holds of every behaviour.                                 *)
(***************************************************************************)
LEMMA StreamInitInv == FramingInit => FInv
<1> SUFFICES ASSUME FramingInit PROVE FInv
  OBVIOUS
<1>1. StreamTyped
  <2>1. <<>> \in Seq(Byte) /\ <<>> \in Seq(Seq(Byte))
    BY EmptySeq
  <2>2. QED
    BY <2>1 DEF FramingInit, StreamTyped
<1>2. ASSUME NEW i \in Conn PROVE InStream(i)
  <2>1. /\ sent[i] = 0 /\ received[i] = <<>> /\ messageSize[i] = Nothing
        /\ buffer[i] = <<>> /\ wire[i] = <<>> /\ unsent[i] = <<>>
    BY DEF FramingInit
  <2>2. Len(Messages[i]) \in Nat
    BY FramingAssumption, LenProperties
  <2>3. Len(received[i]) = 0 /\ DOMAIN received[i] = {} /\ sent[i] <= Len(Messages[i]) /\ Len(received[i]) <= sent[i]
    BY <2>1, <2>2
  <2> DEFINE cut == [k \in 0..0 |-> 0]
  <2>4. cut \in [0..sent[i] -> Nat] /\ cut[0] = 0 /\ <<>> \in Seq(Byte)
    BY <2>1, EmptySeq
  <2>5. Cut(i, 0, <<>>, cut)
    BY <2>4 DEF Cut
  <2>6. Layout(i, 0, <<>>, cut)
    BY <2>1, <2>4 DEF Layout, At
  <2> HIDE DEF cut
  <2>7. \E stream \in Seq(Byte), c \in [0..sent[i] -> Nat] : Cut(i, sent[i], stream, c) /\ Layout(i, Len(received[i]), stream, c)
    BY <2>1, <2>3, <2>4, <2>5, <2>6
  <2>8. QED
    BY <2>1, <2>3, <2>7 DEF InStream
<1>3. QED
  BY <1>1, <1>2 DEF FInv

\* An action of one connection leaves the others alone.
LEMMA OthersKeep ==
  ASSUME FInv, StreamTyped', NEW i \in Conn, InStream(i)', \A k \in Conn \ {i} : Untouched(k)
  PROVE  FInv'
BY FrameKeeps DEF FInv

\* Steps of the reader that move no byte.
LEMMA QuietKeeps ==
  ASSUME FInv, UNCHANGED <<peers, wire, buffer, messageSize, received>>,
         ready' \subseteq Conn, reading' \in Conn \cup {Nothing}, dropped' \subseteq Conn
  PROVE  FInv'
<1>1. StreamTyped'
  BY DEF FInv, StreamTyped, peers
<1>2. \A i \in Conn : Untouched(i)
  BY DEF Untouched, peers
<1>3. QED
  BY <1>1, <1>2, FrameKeeps DEF FInv

LEMMA NextInv == FInv /\ [FramingNext]_streamVars => FInv'
<1> SUFFICES ASSUME FInv, [FramingNext]_streamVars PROVE FInv'
  OBVIOUS
<1>0. /\ ready \subseteq Conn /\ reading \in Conn \cup {Nothing} /\ dropped \subseteq Conn
      /\ sent \in [Conn -> Nat] /\ open \in [Conn -> BOOLEAN]
      /\ unsent \in [Conn -> Seq(Byte)] /\ wire \in [Conn -> Seq(Byte)] /\ buffer \in [Conn -> Seq(Byte)]
      /\ received \in [Conn -> Seq(Seq(Byte))] /\ messageSize \in [Conn -> Sizes \cup {Nothing}]
  BY DEF FInv, StreamTyped
<1>1. ASSUME NEW i \in Conn, WriteBytes(i) PROVE FInv'
  <2>1. \A k \in Conn \ {i} : Untouched(k)
    BY <1>0, <1>1 DEF WriteBytes, Untouched
  <2>2. QED
    BY <1>1, <2>1, WriteKeeps, OthersKeep
<1>2. ASSUME NEW i \in Conn, Push(i) PROVE FInv'
  <2>1. \A k \in Conn \ {i} : Untouched(k)
    BY <1>0, <1>2 DEF Push, Untouched
  <2>2. QED
    BY <1>2, <2>1, PushKeeps, OthersKeep
<1>3. ASSUME NEW i \in Conn, Close(i) PROVE FInv'
  <2>1. \A k \in Conn \ {i} : Untouched(k)
    BY <1>0, <1>3 DEF Close, Untouched
  <2>2. QED
    BY <1>3, <2>1, CloseKeeps, OthersKeep
<1>4. CASE ReadyToRead
  <2>1. Readable \subseteq Conn
    BY DEF Readable, Buffered, Selectable
  <2>2. QED
    BY <1>0, <1>4, <2>1, QuietKeeps DEF ReadyToRead
<1>5. ASSUME NEW i \in Conn, Turn(i) PROVE FInv'
  BY <1>0, <1>5, QuietKeeps DEF Turn
<1>6. ASSUME NEW i \in Conn, TakeFrame(i) PROVE FInv'
  <2>1. \A k \in Conn \ {i} : Untouched(k)
    BY <1>0, <1>6 DEF TakeFrame, Untouched, peers
  <2>2. QED
    BY <1>6, <2>1, TakeKeeps, OthersKeep
<1>7. ASSUME NEW i \in Conn, Recv(i) PROVE FInv'
  <2>1. \A k \in Conn \ {i} : Untouched(k)
    BY <1>0, <1>7 DEF Recv, Untouched, peers
  <2>2. QED
    BY <1>7, <2>1, RecvKeeps, OthersKeep
<1>8. ASSUME NEW i \in Conn, Eof(i) PROVE FInv'
  BY <1>0, <1>8, QuietKeeps DEF Eof
<1>9. CASE NothingMore \/ UNCHANGED streamVars
  BY <1>0, <1>9, QuietKeeps DEF NothingMore, streamVars, reader
<1>10. QED
  BY <1>1, <1>2, <1>3, <1>4, <1>5, <1>6, <1>7, <1>8, <1>9 DEF FramingNext, Peer, Reader

LEMMA AlwaysInv == FramingSpec => []FInv
BY StreamInitInv, NextInv, PTL DEF FramingSpec

(***************************************************************************)
(* Theorems.                                                               *)
(***************************************************************************)
\* Every variable keeps its type (IPCBase, ready_to_read).
THEOREM AlwaysFramingTypeOK == FramingSpec => []FramingTypeOK
<1>1. FInv => FramingTypeOK
  BY DEF FInv, StreamTyped, FramingTypeOK
<1>2. QED
  BY <1>1, AlwaysInv, PTL

\* What read_bytes() returns are the first messages that the peer has sent, whole
\* and in order, in whatever pieces recv() returns the stream.
THEOREM AlwaysMessagesInOrder == FramingSpec => []MessagesInOrder
<1>1. FInv => MessagesInOrder
  BY DEF FInv, InStream, MessagesInOrder
<1>2. QED
  BY <1>1, AlwaysInv, PTL

\* ready_to_read() does not let the caller wait for more while a whole message is
\* in a buffer or at the socket.
THEOREM AlwaysNothingLeftUnread == FramingSpec => []NothingLeftUnread
<1>1. FInv => NothingLeftUnread
  <2> SUFFICES ASSUME FInv, Readable = {}, NEW i \in Conn \ dropped PROVE ~Complete(i)
    BY DEF NothingLeftUnread
  <2>1. Buffered = {} /\ Selectable = {}
    BY DEF Readable
  <2>2. buffer[i] = <<>> /\ wire[i] = <<>>
    BY <2>1 DEF Buffered, Selectable
  <2>3. buffer[i] \o wire[i] = <<>>
    BY <2>2
  <2>4. Len(<<>>) = 0 /\ ~(0 >= HeaderSize)
    BY FramingAssumption
  <2>5. QED
    BY <2>3, <2>4 DEF Complete
<1>2. QED
  BY <1>1, AlwaysInv, PTL

\* Nothing of the stream is lost or read twice: once all that the peer handed over
\* has left the connection and the buffer, every message it began to send was read.
NothingIsLost ==
  \A i \in Conn : open[i] /\ unsent[i] = <<>> /\ wire[i] = <<>> /\ buffer[i] = <<>>
                    => Len(received[i]) = sent[i]

THEOREM AlwaysNothingIsLost == FramingSpec => []NothingIsLost
<1>1. FInv => NothingIsLost
  <2> SUFFICES ASSUME FInv, NEW i \in Conn, open[i], unsent[i] = <<>>, wire[i] = <<>>, buffer[i] = <<>>,
                      Len(received[i]) # sent[i]
               PROVE  FALSE
    BY DEF NothingIsLost
  <2> DEFINE m == Len(received[i])
             n == sent[i]
  <2>1. StreamTyped /\ InStream(i)
    BY DEF FInv
  <2>2. n \in Nat /\ m \in 0..n /\ n <= Len(Messages[i]) /\ Len(Messages[i]) \in Nat /\ HeaderSize \in Nat \ {0}
    BY <2>1, Contents
  <2>3. m + 1 \in 1..n /\ m + 1 \in 0..n /\ n \in 0..n /\ m + 1 - 1 = m /\ m + 1 <= n /\ m + 1 \in 1..Len(Messages[i])
    BY <2>2
  <2>4. Messages[i][m + 1] \in Nat
    BY <2>3, MessageFacts
  <2>5. PICK stream \in Seq(Byte), cut \in [0..n -> Nat] : Cut(i, n, stream, cut) /\ Layout(i, m, stream, cut)
    BY <2>1 DEF InStream
  <2>6. cut[m + 1] = cut[m] + (HeaderSize + Messages[i][m + 1]) /\ cut[m + 1] <= cut[n] /\ cut[n] = Len(stream)
    <3>1. /\ \A k \in 1..n : cut[k] = cut[k - 1] + (HeaderSize + Messages[i][k])
          /\ \A j, k \in 0..n : j <= k => cut[j] <= cut[k]
          /\ cut[n] = Len(stream)
      BY <2>5 DEF Cut
    <3>2. cut[m + 1] = cut[m + 1 - 1] + (HeaderSize + Messages[i][m + 1])
      BY <2>3, <3>1
    <3> HIDE DEF m, n
    <3>3. QED
      BY <2>3, <3>1, <3>2
  <2>7. Len(buffer[i]) = 0 /\ Len(wire[i]) = 0 /\ Len(unsent[i]) = 0
    OBVIOUS
  <2>8. cut[m] \in Nat /\ cut[n] \in Nat /\ cut[m] = Len(stream)
    BY <2>2, <2>5, <2>7 DEF Layout
  <2>9. QED
    BY <2>2, <2>4, <2>6, <2>8
<1>2. QED
  BY <1>1, AlwaysInv, PTL

-----------------------------------------------------------------------------
(* The three of them side by side. *)

\* Each has its variables for itself, so it takes one of its steps or none.
LEMMA StepOfParts ==
  ASSUME [AllNext]_allVars
  PROVE  [Next]_vars /\ [DaemonNext]_daemonVars /\ [FramingNext]_streamVars
<1>1. CASE UNCHANGED allVars
  BY <1>1 DEF allVars
<1>2. CASE WorkersStep(Next)
  BY <1>2 DEF WorkersStep
<1>3. CASE DaemonStep(DaemonNext)
  BY <1>3 DEF DaemonStep
<1>4. CASE StreamStep(FramingNext)
  BY <1>4 DEF StreamStep
<1>5. QED
  BY <1>1, <1>2, <1>3, <1>4 DEF AllNext

\* Every variable of the workers, of the daemon with its clients and of the
\* connections keeps its type, when the three are run side by side.
THEOREM ProcessesTyped == ProcessesSpec => []TypesOK
<1> DEFINE Inv == IInv /\ TalkInv /\ FInv
<1>1. AllInit => Inv
  BY InitInv, TalkInit, StreamInitInv DEF AllInit
<1>2. Inv /\ [AllNext]_allVars => Inv'
  BY StepOfParts, StepInv, TalkStep, NextInv
<1>3. Inv => TypesOK
  BY DEF TypesOK, IInv, TalkInv, Typed, Talk, ServerHas, DaemonTypeOK, ServerState, ClientState, Response,
         FInv, StreamTyped, FramingTypeOK
<1>4. QED
  BY <1>1, <1>2, <1>3, PTL DEF ProcessesSpec
=============================================================================
