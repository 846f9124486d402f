----------------------- MODULE WorkerLifecycleProofs ------------------------
(***************************************************************************)
(* Proofs about WorkerLifecycle: the handshake never gets out of step, and *)
(* the build starts and ends in a clean state, for any number of workers,  *)
(* of deaths and of writes that time out.                                  *)
(***************************************************************************)
EXTENDS WorkerLifecycle, SequenceTheorems, TLAPS

Closing     == cpc \in {"close", "returned"}
Handshaking == cpc \in {"load", "join", "ack"}

\* A worker that has not filled its status file yet.
Unstarted(w) == wpc[w] \in {"starting", "listening", "stating"}

\* The message that the worker waits for has not been taken yet.
Expects(w) == wstage[w] <= 3 /\ wpc[w] # "setup"

\* What may be under way to a worker, oldest frame first: at most one message of
\* the handshake, and it is the expected one, then at most the order to stop.
InOrderOf(w) ==
  \/ toWorker[w] \in {<<>>, <<"torn">>}
  \/ Expects(w) /\ toWorker[w] = <<Steps[wstage[w]]>>
  \/ /\ Closing
     /\ \E e \in {"shutdown", "torn"} :
          \/ toWorker[w] \in {<<e>>, <<"torn", e>>}
          \/ Expects(w) /\ toWorker[w] = <<Steps[wstage[w]], e>>

InOrder == \A w \in Worker : InOrderOf(w)

\* Where a worker is says which steps of the handshake it has behind it; nothing
\* has been exchanged with a worker as long as its connect thread runs.
StagedOf(w) ==
  /\ wpc[w] \notin {"idle", "busy", "exited", "dead"} => wstage[w] <= 3
  /\ wpc[w] \in {"idle", "busy"} => wstage[w] = 4
  /\ wpc[w] = "setup" /\ ~Closing => toWorker[w] = <<>>
  /\ tpc[w] # "ended" => /\ wstage[w] = 1 /\ wpc[w] # "setup"
                         /\ toWorker[w] = <<>> /\ toCoord[w] = <<>>

Staged == \A w \in Worker : StagedOf(w)

\* The worker has taken the step that the coordinator is at.
Stepped(w) ==
  /\ wstage[w] = stage + 1 /\ toWorker[w] = <<>>
  /\ wpc[w] \in {"dead", IF stage = 3 THEN "idle" ELSE "receive"}

\* During the handshake, coordinator and worker are at most one step apart.
InStep(w) ==
  \/ w > idx /\ wstage[w] = stage /\ toCoord[w] = <<>>
  \/ w > idx /\ Stepped(w) /\ toCoord[w] = <<"ack">>
  \/ w <= idx /\ Stepped(w) /\ toCoord[w] = <<>>

Progress ==
  /\ Handshaking => \A w \in Worker : InStep(w)
  /\ cpc \in {"load", "join"} => stage = 1 /\ idx = 0
  /\ cpc = "process" => stage = 3 /\ \A w \in Worker : Stepped(w) /\ toCoord[w] = <<>>

\* Connections and files, and who still needs them.
Linked ==
  /\ \A w \in Worker : /\ connected[w] \/ status[w] = "written" => ~Unstarted(w)
                       /\ connected[w] /\ w \in waited => status[w] = "none"
  /\ cpc \in {"ack", "process"} => \A w \in Worker : connected[w]
  /\ cpc \notin {"load", "join", "finally"} => AllJoined
  /\ cpc = "returned" => waited = Worker
  /\ waited \subseteq closed /\ signalled \subseteq waited
  /\ closed # {} \/ ~options => Closing

IInv == TypeOK /\ InOrder /\ Staged /\ Progress /\ Linked

(***************************************************************************)
(* Short sequences of frames.                                              *)
(***************************************************************************)
\* What the operators on sequences do to the one or two frames under way.
LEMMA Frames ==
  ASSUME NEW a, NEW b
  PROVE  /\ <<>> \o <<a>> = <<a>> /\ <<a>> \o <<>> = <<a>> /\ <<>> \o <<>> = <<>>
         /\ <<a>> \o <<b>> = <<a, b>>
         /\ Tail(<<a>>) = <<>> /\ Tail(<<a, b>>) = <<b>>
         /\ Head(<<a>>) = a /\ Head(<<a, b>>) = a
         /\ <<a>> # <<>> /\ <<a, b>> # <<>> /\ <<a>> # <<a, b>>
<1> DEFINE F == {a, b}
<1>1. <<>> \in Seq(F) /\ <<a>> \in Seq(F) /\ <<b>> \in Seq(F) /\ <<a, b>> \in Seq(F)
  OBVIOUS
<1>2. <<>> \o <<a>> = <<a>> /\ <<a>> \o <<>> = <<a>> /\ <<>> \o <<>> = <<>>
  BY <1>1, ConcatEmptySeq
<1>3. <<a>> \o <<b>> = <<a, b>>
  <2> DEFINE c == <<a>> \o <<b>>
  <2>1. c \in Seq(F) /\ Len(c) = 2 /\ c[1] = a /\ c[2] = b
    BY <1>1, ConcatProperties
  <2> HIDE DEF c
  <2>2. \A i \in 1 .. Len(c) : c[i] = <<a, b>>[i]
    BY <2>1
  <2>3. c = <<a, b>>
    BY <1>1, <2>1, <2>2, SeqEqual
  <2> QED
    BY <2>3 DEF c
<1>4. /\ Tail(<<a>>) = <<>> /\ Tail(<<a, b>>) = <<b>>
      /\ Head(<<a>>) = a /\ Head(<<a, b>>) = a
      /\ <<a>> # <<>> /\ <<a, b>> # <<>> /\ <<a>> # <<a, b>>
  OBVIOUS
<1> QED
  BY <1>2, <1>3, <1>4

\* The messages of the handshake.
LEMMA StepFrames == \A i \in 1 .. 3 : Steps[i] \in Frame \ {"shutdown", "torn"}
  BY DEF Steps, Frame

\* What a write of the coordinator leaves in the channels of its receivers.
LEMMA WriteFrames ==
  ASSUME TypeOK, NEW S \in SUBSET Worker, NEW m \in Frame, Write(S, m)
  PROVE  /\ torn' \in 0 .. MaxTorn
         /\ toWorker' \in [Worker -> Seq(Frame)]
         /\ \A w \in Worker : w \notin S => toWorker'[w] = toWorker[w]
         /\ \A w \in S : toWorker[w] = <<>> => toWorker'[w] \in {<<>>, <<m>>, <<"torn">>}
         /\ \A w \in S, x \in Frame :
              toWorker[w] = <<x>> => toWorker'[w] \in {<<x>>, <<x, m>>, <<x, "torn">>}
<1>1. PICK sent \in [S -> {<<m>>, <<"torn">>, <<>>}] :
        /\ torn' = torn + (IF \A w \in S : sent[w] = <<m>> THEN 0 ELSE 1) /\ torn' <= MaxTorn
        /\ toWorker' = [w \in Worker |-> IF w \in S THEN toWorker[w] \o sent[w] ELSE toWorker[w]]
  BY DEF Write
<1>2. torn' \in 0 .. MaxTorn
  BY <1>1, LifecycleBounds DEF TypeOK
<1>3. \A w \in S : sent[w] \in Seq(Frame)
  <2>1. <<m>> \in Seq(Frame) /\ <<>> \in Seq(Frame)
    OBVIOUS
  <2>2. "torn" \in Frame
    BY DEF Frame
  <2>3. <<"torn">> \in Seq(Frame)
    BY <2>2
  <2> QED
    BY <2>1, <2>3, <1>1
<1>4. \A w \in S : toWorker[w] \o sent[w] \in Seq(Frame)
  BY <1>3, ConcatProperties DEF TypeOK
<1>5. toWorker' \in [Worker -> Seq(Frame)]
  BY <1>1, <1>4 DEF TypeOK
<1>6. \A w \in S : toWorker'[w] \in {toWorker[w] \o <<m>>, toWorker[w] \o <<"torn">>, toWorker[w] \o <<>>}
  BY <1>1
<1>7. ASSUME NEW w \in S, toWorker[w] = <<>>
      PROVE  toWorker'[w] \in {<<>>, <<m>>, <<"torn">>}
  BY <1>6, <1>7, Frames
<1>8. ASSUME NEW w \in S, NEW x \in Frame, toWorker[w] = <<x>>
      PROVE  toWorker'[w] \in {<<x>>, <<x, m>>, <<x, "torn">>}
  <2>1. <<x>> \o <<m>> = <<x, m>> /\ <<x>> \o <<"torn">> = <<x, "torn">> /\ <<x>> \o <<>> = <<x>>
    BY Frames
  <2> QED
    BY <1>6, <1>8, <2>1
<1> QED
  BY <1>1, <1>2, <1>5, <1>7, <1>8

(***************************************************************************)
(* The invariant holds initially, and every step preserves it.             *)
(***************************************************************************)
LEMMA InitInv == Init => IInv
<1> SUFFICES ASSUME Init PROVE IInv
  OBVIOUS
<1>1. TypeOK
  BY NumWorkersAssumption, LifecycleBounds DEF Init, TypeOK, Worker, Frame
<1>2. InOrder /\ Staged /\ Progress /\ Linked
  BY NumWorkersAssumption
     DEF Init, InOrder, Staged, Progress, Linked, InOrderOf, StagedOf, InStep, Stepped,
         Expects, Closing, Handshaking, Unstarted, Worker
<1> QED
  BY <1>1, <1>2 DEF IInv

\* A worker that takes a whole frame leaves at most the order to stop.
LEMMA FirstFrameTaken ==
  ASSUME IInv, NEW w \in Worker, toWorker[w] # <<>>, Head(toWorker[w]) # "torn"
  PROVE  \/ Tail(toWorker[w]) = <<>>
         \/ Closing /\ Tail(toWorker[w]) \in {<<"shutdown">>, <<"torn">>}
<1>1. InOrderOf(w)
  BY DEF IInv, InOrder
<1>2. CASE toWorker[w] \in {<<>>, <<"torn">>}
  BY <1>2, Frames
<1>3. CASE toWorker[w] = <<Steps[wstage[w]]>>
  BY <1>3, Frames
<1>4. ASSUME Closing, NEW e \in {"shutdown", "torn"},
             toWorker[w] \in {<<e>>, <<"torn", e>>, <<Steps[wstage[w]], e>>}
      PROVE  Tail(toWorker[w]) \in {<<>>, <<e>>}
  <2>1. /\ Head(<<"torn", e>>) = "torn" /\ Tail(<<e>>) = <<>>
        /\ Tail(<<Steps[wstage[w]], e>>) = <<e>>
    BY Frames
  <2> QED
    BY <1>4, <2>1
<1> QED
  BY <1>1, <1>2, <1>3, <1>4 DEF InOrderOf

LEMMA ConnectInv ==
  ASSUME IInv, NEW w \in Worker, Connect(w)
  PROVE  IInv'
<1> USE NumWorkersAssumption, LifecycleBounds
    DEF IInv, Connect, Goto, Leave, Closing, Handshaking, Unstarted, Expects, Stepped,
        InOrderOf, StagedOf, InStep, AllJoined, Gone, Worker, mainVars, connVars,
        fileVars, workerVars, faultVars
<1>1. TypeOK'
  BY DEF TypeOK, Frame
<1>2. InOrder'
  BY DEF TypeOK, InOrder
<1>3. Staged'
  BY DEF TypeOK, Staged
<1>4. Progress'
  BY DEF TypeOK, Progress
<1>5. Linked'
  BY DEF TypeOK, Linked
<1> QED
  BY <1>1, <1>2, <1>3, <1>4, <1>5

LEMMA GiveUpInv ==
  ASSUME IInv, NEW w \in Worker, GiveUp(w)
  PROVE  IInv'
<1> USE NumWorkersAssumption, LifecycleBounds
    DEF IInv, GiveUp, Goto, Leave, Closing, Handshaking, Unstarted, Expects, Stepped,
        InOrderOf, StagedOf, InStep, AllJoined, Gone, Worker, mainVars, connVars,
        fileVars, workerVars, faultVars
<1>1. TypeOK'
  BY DEF TypeOK, Frame
<1>2. InOrder'
  BY DEF TypeOK, InOrder
<1>3. Staged'
  BY DEF TypeOK, Staged
<1>4. Progress'
  BY DEF TypeOK, Progress
<1>5. Linked'
  BY DEF TypeOK, Linked
<1> QED
  BY <1>1, <1>2, <1>3, <1>4, <1>5

LEMMA SendSourcesInv ==
  ASSUME IInv, NEW w \in Worker, SendSources(w)
  PROVE  IInv'
<1> USE NumWorkersAssumption, LifecycleBounds
    DEF IInv, SendSources, Goto, Leave, Closing, Handshaking, Unstarted, Expects, Stepped,
        InOrderOf, StagedOf, InStep, AllJoined, Gone, Worker, mainVars, connVars,
        fileVars, workerVars, faultVars
<1>0. /\ torn' \in 0 .. MaxTorn /\ toWorker' \in [Worker -> Seq(Frame)]
      /\ toWorker'[w] \in {<<>>, <<Steps[1]>>, <<"torn">>}
      /\ \A v \in Worker : v # w => toWorker'[v] = toWorker[v]
  <2>1. {w} \in SUBSET Worker /\ Steps[1] \in Frame /\ toWorker[w] = <<>>
    BY StepFrames DEF Staged
  <2> QED
    BY <2>1, WriteFrames
<1>1. TypeOK'
  BY <1>0 DEF TypeOK
<1>2. InOrder'
  <2> SUFFICES ASSUME NEW v \in Worker PROVE InOrderOf(v)'
    BY DEF InOrder
  <2>1. CASE v = w
    <3>1. wstage[w] = 1 /\ wpc[w] # "setup" /\ Steps[1] = Steps[wstage[w]]
      BY DEF Staged
    <3> QED
      BY <1>0, <2>1, <3>1
  <2>2. CASE v # w
    BY <1>0, <2>2 DEF InOrder
  <2> QED
    BY <2>1, <2>2
<1>3. Staged'
  BY <1>0 DEF TypeOK, Staged
<1>4. Progress'
  <2>1. cpc \in {"load", "join", "finally"}
    BY DEF Linked, TypeOK
  <2>2. ASSUME Handshaking, NEW v \in Worker PROVE InStep(v)'
    <3>1. CASE v = w
      BY <2>1, <2>2, <3>1 DEF Staged, Progress, TypeOK
    <3>2. CASE v # w
      BY <1>0, <2>2, <3>2 DEF Progress
    <3> QED
      BY <3>1, <3>2
  <2> QED
    BY <2>1, <2>2 DEF Progress
<1>5. Linked'
  BY DEF TypeOK, Linked
<1> QED
  BY <1>1, <1>2, <1>3, <1>4, <1>5

LEMMA LoadInv ==
  ASSUME IInv, Load
  PROVE  IInv'
<1> USE NumWorkersAssumption, LifecycleBounds
    DEF IInv, Load, Goto, Leave, Closing, Handshaking, Unstarted, Expects, Stepped,
        InOrderOf, StagedOf, InStep, AllJoined, Gone, Worker, mainVars, connVars,
        fileVars, workerVars, faultVars
<1>1. TypeOK'
  BY DEF TypeOK, Frame
<1>2. InOrder'
  BY DEF TypeOK, InOrder
<1>3. Staged'
  BY DEF TypeOK, Staged
<1>4. Progress'
  BY DEF TypeOK, Progress
<1>5. Linked'
  BY DEF TypeOK, Linked
<1> QED
  BY <1>1, <1>2, <1>3, <1>4, <1>5

LEMMA JoinInv ==
  ASSUME IInv, Join
  PROVE  IInv'
<1> USE NumWorkersAssumption, LifecycleBounds
    DEF IInv, Join, Goto, Leave, Closing, Handshaking, Unstarted, Expects, Stepped,
        InOrderOf, StagedOf, InStep, AllJoined, Gone, Worker, mainVars, connVars,
        fileVars, workerVars, faultVars
<1>1. TypeOK'
  BY DEF TypeOK, Frame
<1>2. InOrder'
  BY DEF TypeOK, InOrder
<1>3. Staged'
  BY DEF TypeOK, Staged
<1>4. Progress'
  BY DEF TypeOK, Progress
<1>5. Linked'
  BY DEF TypeOK, Linked
<1> QED
  BY <1>1, <1>2, <1>3, <1>4, <1>5

LEMMA WaitAckInv ==
  ASSUME IInv, WaitAck
  PROVE  IInv'
<1> USE NumWorkersAssumption, LifecycleBounds
    DEF IInv, WaitAck, Goto, Leave, Closing, Handshaking, Unstarted, Expects, Stepped,
        InOrderOf, StagedOf, InStep, AllJoined, Gone, Worker, mainVars, connVars,
        fileVars, workerVars, faultVars
<1>1. TypeOK'
  BY DEF TypeOK, Frame
<1>2. InOrder'
  BY DEF TypeOK, InOrder
<1>3. Staged'
  BY DEF TypeOK, Staged
<1>4. Progress'
  <2>1. Tail(<<"ack">>) = <<>> /\ <<>> # <<"ack">>
    BY Frames
  <2>2. ASSUME NEW w \in Worker PROVE InStep(w)'
    <3>1. InStep(w)
      BY DEF Progress
    <3>2. CASE w = idx + 1
      <4>1. Stepped(w) /\ toCoord[w] = <<"ack">>
        BY <2>1, <3>1, <3>2 DEF TypeOK
      <4>2. toCoord'[w] = <<>> /\ Stepped(w)' /\ w <= idx'
        BY <2>1, <3>2, <4>1 DEF TypeOK
      <4> QED
        BY <4>2
    <3>3. CASE w # idx + 1
      BY <3>1, <3>3 DEF TypeOK
    <3> QED
      BY <3>2, <3>3
  <2> QED
    BY <2>2 DEF Progress
<1>5. Linked'
  BY DEF TypeOK, Linked
<1> QED
  BY <1>1, <1>2, <1>3, <1>4, <1>5

LEMMA AckFailsInv ==
  ASSUME IInv, AckFails
  PROVE  IInv'
<1> USE NumWorkersAssumption, LifecycleBounds
    DEF IInv, AckFails, Goto, Leave, Closing, Handshaking, Unstarted, Expects, Stepped,
        InOrderOf, StagedOf, InStep, AllJoined, Gone, Worker, mainVars, connVars,
        fileVars, workerVars, faultVars
<1>1. TypeOK'
  BY DEF TypeOK, Frame
<1>2. InOrder'
  BY DEF TypeOK, InOrder
<1>3. Staged'
  BY DEF TypeOK, Staged
<1>4. Progress'
  BY DEF TypeOK, Progress
<1>5. Linked'
  BY DEF TypeOK, Linked
<1> QED
  BY <1>1, <1>2, <1>3, <1>4, <1>5

LEMMA BroadcastInv ==
  ASSUME IInv, Broadcast
  PROVE  IInv'
<1> USE NumWorkersAssumption, LifecycleBounds
    DEF IInv, Broadcast, Goto, Leave, Closing, Handshaking, Unstarted, Expects, Stepped,
        InOrderOf, StagedOf, InStep, AllJoined, Gone, Worker, mainVars, connVars,
        fileVars, workerVars, faultVars
<1>0. /\ torn' \in 0 .. MaxTorn /\ toWorker' \in [Worker -> Seq(Frame)]
      /\ \A w \in Worker : toWorker'[w] \in {<<>>, <<Steps[stage + 1]>>, <<"torn">>}
  <2>1. Worker \in SUBSET Worker /\ stage + 1 \in 1 .. 3
    BY DEF TypeOK
  <2>2. Steps[stage + 1] \in Frame /\ \A w \in Worker : toWorker[w] = <<>>
    BY <2>1, StepFrames DEF Progress
  <2> QED
    BY <2>1, <2>2, WriteFrames
<1>1. TypeOK'
  BY <1>0 DEF TypeOK
<1>2. InOrder'
  <2> SUFFICES ASSUME NEW w \in Worker PROVE InOrderOf(w)'
    BY DEF InOrder
  <2>1. wstage[w] = stage + 1 /\ wpc[w] # "setup"
    <3>1. InStep(w) /\ ~(w > idx)
      BY DEF Progress, TypeOK
    <3>2. Stepped(w)
      BY <3>1
    <3> QED
      BY <3>2 DEF Linked
  <2> QED
    BY <1>0, <2>1 DEF TypeOK
<1>3. Staged'
  <2> SUFFICES ASSUME NEW w \in Worker PROVE StagedOf(w)'
    BY DEF Staged
  <2>1. wpc[w] # "setup" /\ tpc[w] = "ended"
    <3>1. InStep(w) /\ ~(w > idx)
      BY DEF Progress, TypeOK
    <3>2. Stepped(w)
      BY <3>1
    <3> QED
      BY <3>2 DEF Linked
  <2>2. StagedOf(w)
    BY DEF Staged
  <2> QED
    BY <2>1, <2>2
<1>4. Progress'
  BY DEF TypeOK, Progress
<1>5. Linked'
  BY DEF TypeOK, Linked
<1> QED
  BY <1>1, <1>2, <1>3, <1>4, <1>5

LEMMA StartProcessingInv ==
  ASSUME IInv, StartProcessing
  PROVE  IInv'
<1> USE NumWorkersAssumption, LifecycleBounds
    DEF IInv, StartProcessing, Goto, Leave, Closing, Handshaking, Unstarted, Expects,
        Stepped, InOrderOf, StagedOf, InStep, AllJoined, Gone, Worker, mainVars,
        connVars, fileVars, workerVars, faultVars
<1>1. TypeOK'
  BY DEF TypeOK, Frame
<1>2. InOrder'
  BY DEF TypeOK, InOrder
<1>3. Staged'
  BY DEF TypeOK, Staged
<1>4. Progress'
  BY DEF TypeOK, Progress
<1>5. Linked'
  BY DEF TypeOK, Linked
<1> QED
  BY <1>1, <1>2, <1>3, <1>4, <1>5

LEMMA ProcessGraphInv ==
  ASSUME IInv, ProcessGraph
  PROVE  IInv'
<1> USE NumWorkersAssumption, LifecycleBounds
    DEF IInv, ProcessGraph, Goto, Leave, Closing, Handshaking, Unstarted, Expects,
        Stepped, InOrderOf, StagedOf, InStep, AllJoined, Gone, Worker, mainVars,
        connVars, fileVars, workerVars, faultVars
<1>1. TypeOK'
  BY DEF TypeOK, Frame
<1>2. InOrder'
  BY DEF TypeOK, InOrder
<1>3. Staged'
  BY DEF TypeOK, Staged
<1>4. Progress'
  BY DEF TypeOK, Progress
<1>5. Linked'
  BY DEF TypeOK, Linked
<1> QED
  BY <1>1, <1>2, <1>3, <1>4, <1>5

LEMMA FinallyInv ==
  ASSUME IInv, Finally
  PROVE  IInv'
<1> USE NumWorkersAssumption, LifecycleBounds
    DEF IInv, Finally, Goto, Leave, Closing, Handshaking, Unstarted, Expects, Stepped,
        InOrderOf, StagedOf, InStep, AllJoined, Gone, Worker, mainVars, connVars,
        fileVars, workerVars, faultVars
<1> DEFINE S == {w \in Worker : connected[w]}
<1>0. /\ torn' \in 0 .. MaxTorn /\ toWorker' \in [Worker -> Seq(Frame)]
      /\ \A w \in Worker : w \notin S => toWorker'[w] = toWorker[w]
      /\ \A w \in S : toWorker[w] = <<>> => toWorker'[w] \in {<<>>, <<"shutdown">>, <<"torn">>}
      /\ \A w \in S, x \in Frame :
           toWorker[w] = <<x>> => toWorker'[w] \in {<<x>>, <<x, "shutdown">>, <<x, "torn">>}
  BY WriteFrames DEF Frame
<1>1. TypeOK'
  BY <1>0 DEF TypeOK
<1>2. InOrder'
  <2> SUFFICES ASSUME NEW w \in Worker PROVE InOrderOf(w)'
    BY DEF InOrder
  <2>1. \/ toWorker[w] \in {<<>>, <<"torn">>}
        \/ Expects(w) /\ toWorker[w] = <<Steps[wstage[w]]>>
    BY DEF InOrder
  <2>2. CASE w \notin S
    BY <1>0, <2>1, <2>2
  <2>3. CASE w \in S /\ toWorker[w] = <<>>
    BY <1>0, <2>3
  <2>4. CASE w \in S /\ toWorker[w] = <<"torn">>
    <3>1. toWorker'[w] \in {<<"torn">>, <<"torn", "shutdown">>, <<"torn", "torn">>}
      BY <1>0, <2>4 DEF Frame
    <3> QED
      BY <3>1
  <2>5. CASE w \in S /\ Expects(w) /\ toWorker[w] = <<Steps[wstage[w]]>>
    <3>1. Steps[wstage[w]] \in Frame
      <4>1. wstage[w] \in 1 .. 3
        BY <2>5 DEF TypeOK
      <4> QED
        BY <4>1, StepFrames
    <3>2. toWorker'[w] \in {<<Steps[wstage[w]]>>, <<Steps[wstage[w]], "shutdown">>,
                            <<Steps[wstage[w]], "torn">>}
      BY <1>0, <2>5, <3>1
    <3> QED
      BY <2>5, <3>2
  <2> QED
    BY <2>1, <2>2, <2>3, <2>4, <2>5
<1>3. Staged'
  BY DEF TypeOK, Staged
<1>4. Progress'
  BY DEF TypeOK, Progress
<1>5. Linked'
  BY DEF TypeOK, Linked
<1> QED
  BY <1>1, <1>2, <1>3, <1>4, <1>5

LEMMA CloseConnectionInv ==
  ASSUME IInv, NEW w \in Worker, CloseConnection(w)
  PROVE  IInv'
<1> USE NumWorkersAssumption, LifecycleBounds
    DEF IInv, CloseConnection, Goto, Leave, Closing, Handshaking, Unstarted, Expects,
        Stepped, InOrderOf, StagedOf, InStep, AllJoined, Gone, Worker, mainVars,
        connVars, fileVars, workerVars, faultVars
<1>1. TypeOK'
  BY DEF TypeOK, Frame
<1>2. InOrder'
  BY DEF TypeOK, InOrder
<1>3. Staged'
  BY DEF TypeOK, Staged
<1>4. Progress'
  BY DEF TypeOK, Progress
<1>5. Linked'
  BY DEF TypeOK, Linked
<1> QED
  BY <1>1, <1>2, <1>3, <1>4, <1>5

LEMMA AwaitExitInv ==
  ASSUME IInv, NEW w \in Worker, AwaitExit(w)
  PROVE  IInv'
<1> USE NumWorkersAssumption, LifecycleBounds
    DEF IInv, AwaitExit, Goto, Leave, Closing, Handshaking, Unstarted, Expects, Stepped,
        InOrderOf, StagedOf, InStep, AllJoined, Gone, Worker, mainVars, connVars,
        fileVars, workerVars, faultVars
<1>1. TypeOK'
  BY DEF TypeOK, Frame
<1>2. InOrder'
  BY DEF TypeOK, InOrder
<1>3. Staged'
  BY DEF TypeOK, Staged
<1>4. Progress'
  BY DEF TypeOK, Progress
<1>5. Linked'
  BY DEF TypeOK, Linked
<1> QED
  BY <1>1, <1>2, <1>3, <1>4, <1>5

LEMMA BuildReturnsInv ==
  ASSUME IInv, BuildReturns
  PROVE  IInv'
<1> USE NumWorkersAssumption, LifecycleBounds
    DEF IInv, BuildReturns, Goto, Leave, Closing, Handshaking, Unstarted, Expects,
        Stepped, InOrderOf, StagedOf, InStep, AllJoined, Gone, Worker, mainVars,
        connVars, fileVars, workerVars, faultVars
<1>1. TypeOK'
  BY DEF TypeOK, Frame
<1>2. InOrder'
  BY DEF TypeOK, InOrder
<1>3. Staged'
  BY DEF TypeOK, Staged
<1>4. Progress'
  BY DEF TypeOK, Progress
<1>5. Linked'
  BY DEF TypeOK, Linked
<1> QED
  BY <1>1, <1>2, <1>3, <1>4, <1>5

LEMMA ReadOptionsInv ==
  ASSUME IInv, NEW w \in Worker, ReadOptions(w)
  PROVE  IInv'
<1> USE NumWorkersAssumption, LifecycleBounds
    DEF IInv, ReadOptions, Goto, Leave, Closing, Handshaking, Unstarted, Expects, Stepped,
        InOrderOf, StagedOf, InStep, AllJoined, Gone, Worker, mainVars, connVars,
        fileVars, workerVars, faultVars
<1>1. TypeOK'
  BY DEF TypeOK, Frame
<1>2. InOrder'
  BY DEF TypeOK, InOrder
<1>3. Staged'
  BY DEF TypeOK, Staged
<1>4. Progress'
  BY DEF TypeOK, Progress
<1>5. Linked'
  BY DEF TypeOK, Linked
<1> QED
  BY <1>1, <1>2, <1>3, <1>4, <1>5

LEMMA NoOptionsInv ==
  ASSUME IInv, NEW w \in Worker, NoOptions(w)
  PROVE  IInv'
<1> USE NumWorkersAssumption, LifecycleBounds
    DEF IInv, NoOptions, Goto, Leave, Closing, Handshaking, Unstarted, Expects, Stepped,
        InOrderOf, StagedOf, InStep, AllJoined, Gone, Worker, mainVars, connVars,
        fileVars, workerVars, faultVars
<1>1. TypeOK'
  BY DEF TypeOK, Frame
<1>2. InOrder'
  BY DEF TypeOK, InOrder
<1>3. Staged'
  BY DEF TypeOK, Staged
<1>4. Progress'
  BY DEF TypeOK, Progress
<1>5. Linked'
  BY DEF TypeOK, Linked
<1> QED
  BY <1>1, <1>2, <1>3, <1>4, <1>5

LEMMA OpenStatusInv ==
  ASSUME IInv, NEW w \in Worker, OpenStatus(w)
  PROVE  IInv'
<1> USE NumWorkersAssumption, LifecycleBounds
    DEF IInv, OpenStatus, Goto, Leave, Closing, Handshaking, Unstarted, Expects, Stepped,
        InOrderOf, StagedOf, InStep, AllJoined, Gone, Worker, mainVars, connVars,
        fileVars, workerVars, faultVars
<1>1. TypeOK'
  BY DEF TypeOK, Frame
<1>2. InOrder'
  BY DEF TypeOK, InOrder
<1>3. Staged'
  BY DEF TypeOK, Staged
<1>4. Progress'
  BY DEF TypeOK, Progress
<1>5. Linked'
  BY DEF TypeOK, Linked
<1> QED
  BY <1>1, <1>2, <1>3, <1>4, <1>5

LEMMA WriteStatusInv ==
  ASSUME IInv, NEW w \in Worker, WriteStatus(w)
  PROVE  IInv'
<1> USE NumWorkersAssumption, LifecycleBounds
    DEF IInv, WriteStatus, Goto, Leave, Closing, Handshaking, Unstarted, Expects, Stepped,
        InOrderOf, StagedOf, InStep, AllJoined, Gone, Worker, mainVars, connVars,
        fileVars, workerVars, faultVars
<1>1. TypeOK'
  BY DEF TypeOK, Frame
<1>2. InOrder'
  BY DEF TypeOK, InOrder
<1>3. Staged'
  BY DEF TypeOK, Staged
<1>4. Progress'
  BY DEF TypeOK, Progress
<1>5. Linked'
  BY DEF TypeOK, Linked
<1> QED
  BY <1>1, <1>2, <1>3, <1>4, <1>5

LEMMA AcceptInv ==
  ASSUME IInv, NEW w \in Worker, Accept(w)
  PROVE  IInv'
<1> USE NumWorkersAssumption, LifecycleBounds
    DEF IInv, Accept, Goto, Leave, Closing, Handshaking, Unstarted, Expects, Stepped,
        InOrderOf, StagedOf, InStep, AllJoined, Gone, Worker, mainVars, connVars,
        fileVars, workerVars, faultVars
<1>1. TypeOK'
  BY DEF TypeOK, Frame
<1>2. InOrder'
  BY DEF TypeOK, InOrder
<1>3. Staged'
  BY DEF TypeOK, Staged
<1>4. Progress'
  BY DEF TypeOK, Progress
<1>5. Linked'
  BY DEF TypeOK, Linked
<1> QED
  BY <1>1, <1>2, <1>3, <1>4, <1>5

LEMMA AcceptTimesOutInv ==
  ASSUME IInv, NEW w \in Worker, AcceptTimesOut(w)
  PROVE  IInv'
<1> USE NumWorkersAssumption, LifecycleBounds
    DEF IInv, AcceptTimesOut, Goto, Leave, Closing, Handshaking, Unstarted, Expects,
        Stepped, InOrderOf, StagedOf, InStep, AllJoined, Gone, Worker, mainVars,
        connVars, fileVars, workerVars, faultVars
<1>1. TypeOK'
  BY DEF TypeOK, Frame
<1>2. InOrder'
  BY DEF TypeOK, InOrder
<1>3. Staged'
  BY DEF TypeOK, Staged
<1>4. Progress'
  BY DEF TypeOK, Progress
<1>5. Linked'
  BY DEF TypeOK, Linked
<1> QED
  BY <1>1, <1>2, <1>3, <1>4, <1>5

LEMMA ReceiveStepInv ==
  ASSUME IInv, NEW w \in Worker, ReceiveStep(w)
  PROVE  IInv'
<1> USE NumWorkersAssumption, LifecycleBounds
    DEF IInv, ReceiveStep, Goto, Leave, Closing, Handshaking, Unstarted, Expects, Stepped,
        InOrderOf, StagedOf, InStep, AllJoined, Gone, Worker, mainVars, connVars,
        fileVars, workerVars, faultVars
<1>0. \/ toWorker'[w] = <<>>
      \/ Closing /\ toWorker'[w] \in {<<"shutdown">>, <<"torn">>}
  BY FirstFrameTaken DEF TypeOK
<1>1. TypeOK'
  BY SMTT(30) DEF TypeOK, Frame
<1>2. InOrder'
  <2> SUFFICES ASSUME NEW v \in Worker PROVE InOrderOf(v)'
    BY DEF InOrder
  <2>1. CASE v = w
    BY <1>0, <2>1
  <2>2. CASE v # w
    BY <2>2 DEF InOrder, TypeOK
  <2> QED
    BY <2>1, <2>2
<1>3. Staged'
  <2> SUFFICES ASSUME NEW v \in Worker PROVE StagedOf(v)'
    BY DEF Staged
  <2>1. CASE v = w
    BY <1>0, <2>1 DEF Staged, TypeOK
  <2>2. CASE v # w
    BY <2>2 DEF Staged, TypeOK
  <2> QED
    BY <2>1, <2>2
<1>4. Progress'
  BY DEF TypeOK, Progress
<1>5. Linked'
  BY DEF TypeOK, Linked
<1> QED
  BY <1>1, <1>2, <1>3, <1>4, <1>5

LEMMA ReceiveTornInv ==
  ASSUME IInv, NEW w \in Worker, ReceiveTorn(w)
  PROVE  IInv'
<1> USE NumWorkersAssumption, LifecycleBounds
    DEF IInv, ReceiveTorn, Goto, Leave, Closing, Handshaking, Unstarted, Expects, Stepped,
        InOrderOf, StagedOf, InStep, AllJoined, Gone, Worker, mainVars, connVars,
        fileVars, workerVars, faultVars
<1>1. TypeOK'
  BY DEF TypeOK, Frame
<1>2. InOrder'
  BY DEF TypeOK, InOrder
<1>3. Staged'
  BY DEF TypeOK, Staged
<1>4. Progress'
  BY DEF TypeOK, Progress
<1>5. Linked'
  BY DEF TypeOK, Linked
<1> QED
  BY <1>1, <1>2, <1>3, <1>4, <1>5

LEMMA AcknowledgeInv ==
  ASSUME IInv, NEW w \in Worker, Acknowledge(w)
  PROVE  IInv'
<1> USE NumWorkersAssumption, LifecycleBounds
    DEF IInv, Acknowledge, Goto, Leave, Closing, Handshaking, Unstarted, Expects, Stepped,
        InOrderOf, StagedOf, InStep, AllJoined, Gone, Worker, mainVars, connVars,
        fileVars, workerVars, faultVars
<1>0. wstage[w] \in 1 .. 3 /\ (~Closing => toWorker[w] = <<>>) /\ tpc[w] = "ended"
  <2>1. StagedOf(w) /\ wpc[w] = "setup" /\ wstage[w] \in 1 .. 4 /\ tpc[w] \in {"polling", "writing", "ended"}
    BY DEF Staged, TypeOK
  <2> QED
    BY <2>1
<1>a. /\ toCoord' \in [Worker -> Seq({"ack", "response"})]
      /\ wstage' \in [Worker -> 1 .. 4] /\ wstage'[w] \in {wstage[w], wstage[w] + 1}
      /\ wpc'[w] = "exited" \/ (wstage'[w] = wstage[w] + 1
                                /\ wpc'[w] = IF wstage[w] = 3 THEN "idle" ELSE "receive")
      /\ \A v \in Worker : v # w => /\ toCoord'[v] = toCoord[v] /\ wstage'[v] = wstage[v]
                                    /\ wpc'[v] = wpc[v]
  <2>1. CASE w \notin closed /\ toCoord' = [toCoord EXCEPT ![w] = Append(@, "ack")]
             /\ wstage' = [wstage EXCEPT ![w] = @ + 1]
             /\ wpc' = [wpc EXCEPT ![w] = IF wstage[w] = 3 THEN "idle" ELSE "receive"]
    <3>1. Append(toCoord[w], "ack") \in Seq({"ack", "response"})
      BY DEF TypeOK
    <3> QED
      BY <1>0, <2>1, <3>1 DEF TypeOK
  <2>2. CASE toCoord' = toCoord /\ wstage' = wstage /\ wpc' = [wpc EXCEPT ![w] = "exited"]
    BY <1>0, <2>2 DEF TypeOK
  <2> QED
    BY <2>1, <2>2
<1>1. TypeOK'
  <2>1. wpc' \in [Worker -> {"starting", "listening", "stating", "accepting", "receive", "setup",
                            "idle", "busy", "exited", "dead"}]
    BY SMTT(30) DEF TypeOK
  <2> QED
    BY <1>a, <2>1 DEF TypeOK
<1>2. InOrder'
  BY DEF TypeOK, InOrder
<1>3. Staged'
  <2> SUFFICES ASSUME NEW v \in Worker PROVE StagedOf(v)'
    BY DEF Staged
  <2>1. CASE v = w
    BY <1>0, <1>a, <2>1
  <2>2. CASE v # w
    BY <1>a, <2>2 DEF Staged
  <2> QED
    BY <2>1, <2>2
<1>4. Progress'
  <2>1. Append(<<>>, "ack") = <<"ack">>
    OBVIOUS
  <2>2. cpc # "process"
    BY DEF Progress, TypeOK
  <2>3. ASSUME Handshaking, NEW v \in Worker PROVE InStep(v)'
    <3>1. InStep(v)
      BY <2>3 DEF Progress
    <3>2. CASE v = w
      <4>1. w > idx /\ wstage[w] = stage /\ toCoord[w] = <<>> /\ toWorker[w] = <<>> /\ w \notin closed
        BY <1>0, <2>3, <3>1, <3>2 DEF Linked
      <4>2. CASE wpc'[w] = "exited" /\ toCoord' = toCoord /\ wstage' = wstage
        BY <3>2, <4>1, <4>2
      <4>3. CASE /\ toCoord' = [toCoord EXCEPT ![w] = Append(@, "ack")]
                 /\ wstage' = [wstage EXCEPT ![w] = @ + 1]
                 /\ wpc' = [wpc EXCEPT ![w] = IF wstage[w] = 3 THEN "idle" ELSE "receive"]
        BY <2>1, <3>2, <4>1, <4>3 DEF TypeOK
      <4> QED
        BY <4>2, <4>3 DEF TypeOK
    <3>3. CASE v # w
      BY <1>a, <3>1, <3>3
    <3> QED
      BY <3>2, <3>3
  <2> QED
    BY <2>2, <2>3 DEF Progress
<1>5. Linked'
  BY SMTT(30) DEF TypeOK, Linked
<1> QED
  BY <1>1, <1>2, <1>3, <1>4, <1>5

LEMMA ReceiveShutdownInv ==
  ASSUME IInv, NEW w \in Worker, ReceiveShutdown(w)
  PROVE  IInv'
<1> USE NumWorkersAssumption, LifecycleBounds
    DEF IInv, ReceiveShutdown, Goto, Leave, Closing, Handshaking, Unstarted, Expects,
        Stepped, InOrderOf, StagedOf, InStep, AllJoined, Gone, Worker, mainVars,
        connVars, fileVars, workerVars, faultVars
<1>0. \/ toWorker'[w] = <<>>
      \/ Closing /\ toWorker'[w] \in {<<"shutdown">>, <<"torn">>}
  BY FirstFrameTaken DEF TypeOK
<1>1. TypeOK'
  BY DEF TypeOK, Frame
<1>2. InOrder'
  <2> SUFFICES ASSUME NEW v \in Worker PROVE InOrderOf(v)'
    BY DEF InOrder
  <2>1. CASE v = w
    BY <1>0, <2>1
  <2>2. CASE v # w
    BY <2>2 DEF InOrder, TypeOK
  <2> QED
    BY <2>1, <2>2
<1>3. Staged'
  BY DEF TypeOK, Staged
<1>4. Progress'
  BY DEF TypeOK, Progress
<1>5. Linked'
  BY DEF TypeOK, Linked
<1> QED
  BY <1>1, <1>2, <1>3, <1>4, <1>5

LEMMA FinishBatchInv ==
  ASSUME IInv, NEW w \in Worker, FinishBatch(w)
  PROVE  IInv'
<1> USE NumWorkersAssumption, LifecycleBounds
    DEF IInv, FinishBatch, Goto, Leave, Closing, Handshaking, Unstarted, Expects, Stepped,
        InOrderOf, StagedOf, InStep, AllJoined, Gone, Worker, mainVars, connVars,
        fileVars, workerVars, faultVars
<1>0. /\ toCoord' \in [Worker -> Seq({"ack", "response"})]
      /\ wpc'[w] \in {"idle", "exited"} /\ wstage[w] = 4 /\ tpc[w] = "ended"
      /\ \A v \in Worker : v # w => toCoord'[v] = toCoord[v] /\ wpc'[v] = wpc[v]
  <2>1. Append(toCoord[w], "response") \in Seq({"ack", "response"})
    BY DEF TypeOK
  <2>2. wstage[w] = 4 /\ tpc[w] = "ended"
    BY DEF Staged, TypeOK
  <2>3. toCoord' \in [Worker -> Seq({"ack", "response"})]
    BY <2>1 DEF TypeOK
  <2> QED
    BY <2>2, <2>3 DEF TypeOK
<1>a. ~Handshaking /\ cpc # "process"
  <2>1. wpc[w] = "busy" /\ stage \in 1 .. 3
    BY DEF TypeOK
  <2>2. ~Stepped(w) /\ ~InStep(w)
    BY <1>0, <2>1
  <2> QED
    BY <2>2 DEF Progress
<1>1. TypeOK'
  <2>1. wpc' \in [Worker -> {"starting", "listening", "stating", "accepting", "receive", "setup",
                            "idle", "busy", "exited", "dead"}]
    <3>1. wpc' \in {[wpc EXCEPT ![w] = "exited"], [wpc EXCEPT ![w] = "idle"]}
      OBVIOUS
    <3> QED
      BY <3>1 DEF TypeOK
  <2> QED
    BY <1>0, <2>1 DEF TypeOK
<1>2. InOrder'
  BY DEF TypeOK, InOrder
<1>3. Staged'
  BY <1>0 DEF Staged
<1>4. Progress'
  BY <1>a DEF Progress
<1>5. Linked'
  BY DEF TypeOK, Linked
<1> QED
  BY <1>1, <1>2, <1>3, <1>4, <1>5

LEMMA EndOfStreamInv ==
  ASSUME IInv, NEW w \in Worker, EndOfStream(w)
  PROVE  IInv'
<1> USE NumWorkersAssumption, LifecycleBounds
    DEF IInv, EndOfStream, Goto, Leave, Closing, Handshaking, Unstarted, Expects, Stepped,
        InOrderOf, StagedOf, InStep, AllJoined, Gone, Worker, mainVars, connVars,
        fileVars, workerVars, faultVars
<1>1. TypeOK'
  BY DEF TypeOK, Frame
<1>2. InOrder'
  BY DEF TypeOK, InOrder
<1>3. Staged'
  BY DEF TypeOK, Staged
<1>4. Progress'
  BY DEF TypeOK, Progress, Linked
<1>5. Linked'
  BY DEF TypeOK, Linked
<1> QED
  BY <1>1, <1>2, <1>3, <1>4, <1>5

LEMMA HandleSignalInv ==
  ASSUME IInv, NEW w \in Worker, HandleSignal(w)
  PROVE  IInv'
<1> USE NumWorkersAssumption, LifecycleBounds
    DEF IInv, HandleSignal, Goto, Leave, Closing, Handshaking, Unstarted, Expects,
        Stepped, InOrderOf, StagedOf, InStep, AllJoined, Gone, Worker, mainVars,
        connVars, fileVars, workerVars, faultVars
<1>1. TypeOK'
  BY DEF TypeOK, Frame
<1>2. InOrder'
  BY DEF TypeOK, InOrder
<1>3. Staged'
  BY DEF TypeOK, Staged
<1>4. Progress'
  BY DEF TypeOK, Progress
<1>5. Linked'
  BY DEF TypeOK, Linked
<1> QED
  BY <1>1, <1>2, <1>3, <1>4, <1>5

LEMMA DieInv ==
  ASSUME IInv, NEW w \in Worker, Die(w)
  PROVE  IInv'
<1> USE NumWorkersAssumption, LifecycleBounds
    DEF IInv, Die, Goto, Leave, Closing, Handshaking, Unstarted, Expects, Stepped,
        InOrderOf, StagedOf, InStep, AllJoined, Gone, Worker, mainVars, connVars,
        fileVars, workerVars, faultVars
<1>1. TypeOK'
  BY DEF TypeOK, Frame
<1>2. InOrder'
  BY DEF TypeOK, InOrder
<1>3. Staged'
  BY DEF TypeOK, Staged
<1>4. Progress'
  BY DEF TypeOK, Progress
<1>5. Linked'
  BY DEF TypeOK, Linked
<1> QED
  BY <1>1, <1>2, <1>3, <1>4, <1>5

LEMMA StepInv == IInv /\ [Next]_vars => IInv'
<1> SUFFICES ASSUME IInv, [Next]_vars PROVE IInv'
  OBVIOUS
<1>1. CASE Main
  <2>1. CASE Load
    BY <2>1, LoadInv
  <2>2. CASE Join
    BY <2>2, JoinInv
  <2>3. CASE WaitAck
    BY <2>3, WaitAckInv
  <2>4. CASE AckFails
    BY <2>4, AckFailsInv
  <2>5. CASE Broadcast
    BY <2>5, BroadcastInv
  <2>6. CASE StartProcessing
    BY <2>6, StartProcessingInv
  <2>7. CASE ProcessGraph
    BY <2>7, ProcessGraphInv
  <2>8. CASE Finally
    BY <2>8, FinallyInv
  <2>9. CASE BuildReturns
    BY <2>9, BuildReturnsInv
  <2>10. ASSUME NEW w \in Worker, CloseConnection(w) PROVE IInv'
    BY <2>10, CloseConnectionInv
  <2>11. ASSUME NEW w \in Worker, AwaitExit(w) PROVE IInv'
    BY <2>11, AwaitExitInv
  <2> QED
    BY <1>1, <2>1, <2>2, <2>3, <2>4, <2>5, <2>6, <2>7, <2>8, <2>9, <2>10, <2>11 DEF Main
<1>2. ASSUME NEW w \in Worker, ConnectThread(w) PROVE IInv'
  BY <1>2, ConnectInv, GiveUpInv, SendSourcesInv DEF ConnectThread
<1>3. ASSUME NEW w \in Worker, Serve(w) PROVE IInv'
  <2>1. CASE ReadOptions(w)
    BY <2>1, ReadOptionsInv
  <2>2. CASE NoOptions(w)
    BY <2>2, NoOptionsInv
  <2>3. CASE OpenStatus(w)
    BY <2>3, OpenStatusInv
  <2>4. CASE WriteStatus(w)
    BY <2>4, WriteStatusInv
  <2>5. CASE Accept(w)
    BY <2>5, AcceptInv
  <2>6. CASE AcceptTimesOut(w)
    BY <2>6, AcceptTimesOutInv
  <2>7. CASE ReceiveStep(w)
    BY <2>7, ReceiveStepInv
  <2>8. CASE ReceiveTorn(w)
    BY <2>8, ReceiveTornInv
  <2>9. CASE Acknowledge(w)
    BY <2>9, AcknowledgeInv
  <2>10. CASE ReceiveShutdown(w)
    BY <2>10, ReceiveShutdownInv
  <2>11. CASE FinishBatch(w)
    BY <2>11, FinishBatchInv
  <2>12. CASE EndOfStream(w)
    BY <2>12, EndOfStreamInv
  <2> QED
    BY <1>3, <2>1, <2>2, <2>3, <2>4, <2>5, <2>6, <2>7, <2>8, <2>9, <2>10, <2>11, <2>12 DEF Serve
<1>4. ASSUME NEW w \in Worker, HandleSignal(w) \/ Die(w) PROVE IInv'
  BY <1>4, HandleSignalInv, DieInv
<1>5. CASE UNCHANGED vars
  BY <1>5 DEF IInv, TypeOK, InOrder, Staged, Progress, Linked, InOrderOf, StagedOf, InStep, Stepped,
              Expects, Closing, Handshaking, Unstarted, AllJoined,
              vars, mainVars, connVars, fileVars, workerVars, faultVars
<1> QED
  BY <1>1, <1>2, <1>3, <1>4, <1>5 DEF Next, Over

LEMMA AlwaysIInv == Spec => []IInv
  BY InitInv, StepInv, PTL DEF Spec

(***************************************************************************)
(* The theorems.                                                           *)
(***************************************************************************)
\* Every variable keeps its type: no step of the handshake is counted twice.
THEOREM AlwaysTypeOK == Spec => []TypeOK
<1>1. IInv => TypeOK
  BY DEF IInv
<1> QED
  BY AlwaysIInv, <1>1, PTL

\* should_shutdown's assertion never fails, whenever the build ends, and though
\* connect threads and the main thread write to the same workers.
THEOREM AlwaysNoProtocolError == Spec => []NoProtocolError
<1>1. IInv => NoProtocolError
  <2> SUFFICES ASSUME IInv, NEW w \in Worker, toWorker[w] # <<>>
               PROVE  /\ wpc[w] = "receive" => Head(toWorker[w]) \in {Steps[wstage[w]], "shutdown", "torn"}
                      /\ wpc[w] \in {"idle", "busy"} => Head(toWorker[w]) \in {"shutdown", "torn"}
    BY DEF NoProtocolError
  <2>1. /\ Head(toWorker[w]) \in {Steps[wstage[w]], "shutdown", "torn"}
        /\ ~Expects(w) => Head(toWorker[w]) \in {"shutdown", "torn"}
    <3>1. InOrderOf(w)
      BY DEF IInv, InOrder
    <3>2. CASE toWorker[w] \in {<<>>, <<"torn">>}
      BY <3>2, Frames
    <3>3. CASE Expects(w) /\ toWorker[w] = <<Steps[wstage[w]]>>
      BY <3>3, Frames
    <3>4. ASSUME NEW e \in {"shutdown", "torn"}, toWorker[w] \in {<<e>>, <<"torn", e>>}
          PROVE  Head(toWorker[w]) \in {"shutdown", "torn"}
      BY <3>4, Frames
    <3>5. ASSUME NEW e, Expects(w), toWorker[w] = <<Steps[wstage[w]], e>>
          PROVE  Head(toWorker[w]) = Steps[wstage[w]]
      BY <3>5, Frames
    <3> QED
      BY <3>1, <3>2, <3>3, <3>4, <3>5 DEF InOrderOf
  <2>2. wpc[w] \in {"idle", "busy"} => ~Expects(w)
    BY DEF IInv, Staged, StagedOf, Expects
  <2> QED
    BY <2>1, <2>2
<1> QED
  BY AlwaysIInv, <1>1, PTL

\* Scheduling starts with every worker through the handshake and nothing under way,
\* however the steps of the workers, deaths and timed-out writes interleave.
THEOREM AlwaysHandover == Spec => []Handover
<1>1. IInv => Handover
  <2> SUFFICES ASSUME IInv, cpc = "process", NEW w \in Worker
               PROVE  /\ connected[w] /\ wpc[w] \in {"idle", "dead"}
                      /\ toWorker[w] = <<>> /\ toCoord[w] = <<>>
    BY DEF Handover
  <2>1. connected[w]
    BY DEF IInv, Linked
  <2>2. stage = 3 /\ Stepped(w) /\ toCoord[w] = <<>>
    BY DEF IInv, Progress
  <2> QED
    BY <2>1, <2>2 DEF Stepped
<1> QED
  BY AlwaysIInv, <1>1, PTL

\* The options file outlives every wait for a worker that may have to read it.
THEOREM AlwaysOptionsWhileAwaited == Spec => []OptionsWhileAwaited
<1>1. IInv => OptionsWhileAwaited
  BY DEF IInv, Linked, Closing, AllJoined, OptionsWhileAwaited
<1> QED
  BY AlwaysIInv, <1>1, PTL

\* build() leaves no status file of a worker that it was connected to.
THEOREM AlwaysNoStatusFileLeft == Spec => []NoStatusFileLeft
<1>1. IInv => NoStatusFileLeft
  BY DEF IInv, Linked, NoStatusFileLeft
<1> QED
  BY AlwaysIInv, <1>1, PTL
=============================================================================
