----------------------------- MODULE BuildProofs -----------------------------
(***************************************************************************)
(* More about ParallelBuild, for every import graph, number of workers and *)
(* cache: what workers have in memory, what the cache was trusted for, and *)
(* that a build which ends well has done everything TopoBuild promises.    *)
(***************************************************************************)
EXTENDS ParallelBuildProofs

(***************************************************************************)
(* Reachability.                                                           *)
(***************************************************************************)
LEMMA ReachLeast ==
  ASSUME NEW D, NEW roots, NEW M \in SUBSET DOMAIN D, roots \subseteq M, ClosedUnder(D, M)
  PROVE  Reach(D, roots) \subseteq M
BY DEF Reach

LEMMA ReachRoots ==
  ASSUME NEW D, NEW roots \in SUBSET DOMAIN D
  PROVE  roots \subseteq Reach(D, roots)
BY DEF Reach

LEMMA ReachClosed ==
  ASSUME NEW N, NEW D \in [N -> SUBSET N], NEW roots
  PROVE  ClosedUnder(D, Reach(D, roots)) /\ Reach(D, roots) \subseteq N
BY DEF Reach, ClosedUnder

(***************************************************************************)
(* The invariant about what workers know: part one.                        *)
(***************************************************************************)
\* process_graph has returned, or raised; and build() has told the workers.
Left   == cpc \in {"shutdown", "closing", "returned", "killed"}
Ending == cpc \in {"closing", "returned", "killed"}

\* An answer has hashes for the batch it is about, and those are what the worker
\* has in memory; until the end of the build it is about the worker's batch.
AnswerOf(w, m) ==
  /\ \A s \in SCC : m.result[s] # NoHash => m.isInterface /\ s \in m.sccs
  /\ m.isInterface /\ ~m.blocker
       => \A s \in m.sccs : m.result[s] = loaded[w][s] /\ loaded[w][s] # NoHash
  /\ ~Ending => m.sccs = batch[w]

Answers == \A w \in Worker : \A i \in DOMAIN toCoord[w] : AnswerOf(w, toCoord[w][i])

\* What has left todo in the interface phase is in memory.
Worked ==
  \A w \in Worker :
    /\ todo[w] \subseteq batch[w]
    /\ wpc[w] = "interface" => \A s \in batch[w] \ todo[w] : loaded[w][s] # NoHash

\* Before an SCC is final only the worker that was given it can have it in
\* memory, and it is in none of the coordinator's lists.
Holders ==
  \A v \in Worker : \A s \in SCC : loaded[v][s] # NoHash /\ s \notin done =>
    /\ s \notin notReady \cup Pending \cup queue
    /\ \A u \in Worker : s \in Owned(u) => u = v

\* As long as every cache entry could be written, the coordinator knows the
\* cached interface of each SCC that no worker holds, and workers have loaded
\* what is in the cache.
Known ==
  lost = 0 =>
    /\ \A s \in notReady \cup Pending \cup queue \cup doneNow \cup done : hash[s] = store[s]
    /\ \A w \in Worker : \A s \in SCC : loaded[w][s] # NoHash => loaded[w][s] = store[s]

MemInv == Answers /\ Worked /\ Holders /\ Known /\ LoadedIsClosed

(***************************************************************************)
(* What steps change.                                                      *)
(***************************************************************************)
\* Some worker sends an answer.
Answering(w) == \/ SendInterface(w) \/ SendImplementation(w)
                \/ \E s \in SCC : InterfaceBlocker(w, s) \/ ImplementationBlocker(w, s)

\* Some worker process stops.
Stopping(w) == \/ LoseConnection(w) \/ Crash(w) \/ Terminate(w) \/ \E s \in SCC : LoadFails(w, s)

\* Steps of the coordinator that touch neither sockets nor workers.
Deciding == \/ FindStale \/ SkipFresh \/ StartWaiting \/ EndSubmitStale \/ ReceiveFailure
            \/ EndSubmitMore \/ Finish \/ BuildReturns \/ KillCoordinator
            \/ \E w \in Worker : SendFails(w) \/ Close(w)

\* The kinds of steps there are.
LEMMA Kinds ==
  ASSUME [Next]_vars
  PROVE  \/ Deciding
         \/ Notify
         \/ \E R \in SUBSET Worker : Receive(R)
         \/ \E w \in Worker : \/ SendBatch(w) \/ ReceiveRequest(w) \/ Answering(w) \/ Stopping(w)
                              \/ \E s \in SCC : \/ \E h \in Hash : CheckInterface(w, s, h)
                                                \/ CheckImplementation(w, s)
         \/ UNCHANGED vars
BY DEF Next, Schedule, Shutdown, Serve, Over, Deciding, Answering, Stopping

LEMMA DecidingFrame ==
  ASSUME Deciding
  PROVE  UNCHANGED <<toWorker, toCoord, wpc, batch, todo, loaded, store, lost, hash, reported, inherent, depHash>>
<1> USE DEF workerVars, cacheVars, faultVars, loopVars
<1>1. CASE FindStale \/ SkipFresh \/ StartWaiting
  BY <1>1 DEF FindStale, SkipFresh, StartWaiting
<1>2. CASE EndSubmitStale \/ ReceiveFailure \/ EndSubmitMore \/ Finish
  BY <1>2 DEF EndSubmitStale, ReceiveFailure, EndSubmitMore, Finish
<1>3. CASE BuildReturns \/ KillCoordinator \/ \E w \in Worker : SendFails(w) \/ Close(w)
  BY <1>3 DEF BuildReturns, KillCoordinator, SendFails, Close
<1>4. QED
  BY <1>1, <1>2, <1>3 DEF Deciding

LEMMA AnsweringFrame ==
  ASSUME NEW w \in Worker, Answering(w)
  PROVE  UNCHANGED <<coordVars, cacheVars, toWorker, batch, loaded, store, lost>>
BY DEF Answering, SendInterface, SendImplementation, InterfaceBlocker, ImplementationBlocker, faultVars

LEMMA StoppingFrame ==
  ASSUME Typed, NEW w \in Worker, Stopping(w)
  PROVE  /\ UNCHANGED <<coordVars, cacheVars, toWorker, toCoord, batch, todo, loaded, store, lost>>
         /\ wpc[w] \notin {"exited", "dead"} /\ wpc'[w] \in {"exited", "dead"}
         /\ wpc'[w] = "exited" => w \in closed
         /\ \A v \in Worker : v # w => wpc'[v] = wpc[v]
BY DEF Stopping, LoseConnection, Crash, Terminate, LoadFails, faultVars, Typed, Gone

\* The end of the build has no way back.
LEMMA EndingStays ==
  ASSUME IInv, [Next]_vars
  PROVE  (Ending => Ending') /\ (Left => Left')
<1> USE DEF coordVars, Ending, Left
<1>1. CASE Deciding
  BY <1>1 DEF Deciding, FindStale, SkipFresh, StartWaiting, EndSubmitStale, ReceiveFailure, EndSubmitMore,
              Finish, BuildReturns, KillCoordinator, SendFails, Close, Advance, Leave
<1>2. CASE Notify \/ \E R \in SUBSET Worker : Receive(R)
  BY <1>2 DEF Notify, Receive
<1>3. ASSUME NEW w \in Worker, Answering(w) \/ Stopping(w) PROVE (Ending => Ending') /\ (Left => Left')
  BY <1>3, AnsweringFrame, StoppingFrame DEF IInv
<1>4. ASSUME NEW w \in Worker, SendBatch(w) \/ ReceiveRequest(w) PROVE (Ending => Ending') /\ (Left => Left')
  BY <1>4 DEF SendBatch, ReceiveRequest
<1>5. ASSUME NEW w \in Worker, NEW s \in SCC, CheckImplementation(w, s) \/ \E h \in Hash : CheckInterface(w, s, h)
      PROVE  (Ending => Ending') /\ (Left => Left')
  BY <1>5 DEF CheckImplementation, CheckInterface
<1>6. CASE UNCHANGED vars
  BY <1>6 DEF vars
<1>7. QED
  BY <1>1, <1>2, <1>3, <1>4, <1>5, <1>6, Kinds

\* What an answer adds.
LEMMA AppendFacts ==
  ASSUME NEW T, NEW q \in Seq(T), NEW e \in T
  PROVE  /\ Len(q) \in Nat /\ DOMAIN q = 1 .. Len(q)
         /\ DOMAIN Append(q, e) = 1 .. Len(q) + 1 /\ Len(Append(q, e)) = Len(q) + 1
         /\ \A i \in DOMAIN q : i \in DOMAIN Append(q, e) /\ Append(q, e)[i] = q[i]
         /\ Append(q, e)[Len(q) + 1] = e
         /\ \A i \in DOMAIN Append(q, e) : i \in DOMAIN q \/ i = Len(q) + 1
BY AppendProperties, LenProperties

LEMMA AppendOne ==
  ASSUME NEW T, NEW q \in Seq(T), NEW e \in T, NEW r, r = q \/ r = Append(q, e)
  PROVE  \A i \in DOMAIN r : r[i] = e \/ (i \in DOMAIN q /\ r[i] = q[i])
<1> DEFINE a == Append(q, e)
<1>1. \A i \in DOMAIN a : i \in DOMAIN q \/ i = Len(q) + 1
  BY AppendFacts
<1>2. a[Len(q) + 1] = e /\ \A i \in DOMAIN q : a[i] = q[i]
  BY AppendFacts
<1>3. r = q \/ r = a
  OBVIOUS
<1> HIDE DEF a
<1>4. QED
  BY <1>1, <1>2, <1>3

\* Sending m, an answer about its batch, is what w does.
Sends(w, m) ==
  /\ toCoord' = [toCoord EXCEPT ![w] = IF w \in closed THEN @ ELSE Append(@, m)]
  /\ m.sccs = batch[w]
  /\ wpc[w] = (IF m.isInterface THEN "interface" ELSE "implementation")
  /\ IF m.isInterface /\ ~m.blocker
     THEN /\ todo[w] = {}
          /\ m.result = [d \in SCC |-> IF d \in batch[w] THEN loaded[w][d] ELSE NoHash]
          /\ wpc' = [wpc EXCEPT ![w] = IF w \in closed THEN "exited" ELSE "implementation"]
     ELSE /\ m.result = [d \in SCC |-> NoHash]
          /\ wpc' = [wpc EXCEPT ![w] = IF w \in closed THEN "exited" ELSE "idle"]
  /\ \A v \in Worker : v # w => todo'[v] = todo[v]
  /\ todo'[w] \subseteq batch[w] \cup todo[w]

LEMMA AnsweringSends ==
  ASSUME Typed, NEW w \in Worker, Answering(w)
  PROVE  \E m \in Message : Sends(w, m)
<1> DEFINE none == [d \in SCC |-> NoHash]
           some == [d \in SCC |-> IF d \in batch[w] THEN loaded[w][d] ELSE NoHash]
           msg(i, b, r) == [isInterface |-> i, blocker |-> b, sccs |-> batch[w], result |-> r]
<1>1. none \in [SCC -> Hash \cup {NoHash}] /\ some \in [SCC -> Hash \cup {NoHash}]
  BY DEF Typed
<1>2. \A i, b \in BOOLEAN : msg(i, b, none) \in Message /\ msg(i, b, some) \in Message
  BY <1>1 DEF Typed, Message
<1>3. CASE SendInterface(w)
  <2>1. msg(TRUE, FALSE, some) \in Message
    BY <1>2
  <2>2. Respond(w, msg(TRUE, FALSE, some), "implementation") /\ wpc[w] = "interface" /\ todo[w] = {}
        /\ todo' = [todo EXCEPT ![w] = batch[w]]
    BY <1>3 DEF SendInterface
  <2>3. QED
    BY <2>1, <2>2 DEF Sends, Respond, Typed
<1>4. CASE SendImplementation(w)
  <2>1. msg(FALSE, FALSE, none) \in Message
    BY <1>2
  <2>2. Respond(w, msg(FALSE, FALSE, none), "idle") /\ wpc[w] = "implementation" /\ todo' = todo
    BY <1>4 DEF SendImplementation
  <2>3. QED
    BY <2>1, <2>2 DEF Sends, Respond
<1>5. ASSUME NEW s \in SCC, InterfaceBlocker(w, s)
      PROVE  \E m \in Message : Sends(w, m)
  <2>1. msg(TRUE, TRUE, none) \in Message
    BY <1>2
  <2>2. Respond(w, msg(TRUE, TRUE, none), "idle") /\ wpc[w] = "interface"
        /\ todo' = [todo EXCEPT ![w] = {}]
    BY <1>5 DEF InterfaceBlocker
  <2>3. QED
    BY <2>1, <2>2 DEF Sends, Respond, Typed
<1>6. ASSUME NEW s \in SCC, ImplementationBlocker(w, s)
      PROVE  \E m \in Message : Sends(w, m)
  <2>1. msg(FALSE, TRUE, none) \in Message
    BY <1>2
  <2>2. Respond(w, msg(FALSE, TRUE, none), "idle") /\ wpc[w] = "implementation"
        /\ todo' = [todo EXCEPT ![w] = {}]
    BY <1>6 DEF ImplementationBlocker
  <2>3. QED
    BY <2>1, <2>2 DEF Sends, Respond, Typed
<1>7. QED
  BY <1>3, <1>4, <1>5, <1>6 DEF Answering

\* What a worker takes from its socket, and what is left there.
LEMMA RequestFacts ==
  ASSUME IInv, NEW w \in Worker, ReceiveRequest(w)
  PROVE  \E B \in SUBSET Requested(w) :
           /\ B \in SUBSET SCC
           /\ batch' = [batch EXCEPT ![w] = B] /\ todo' = [todo EXCEPT ![w] = B]
           /\ wpc[w] = "idle" /\ (w \notin free \/ Ending)
           /\ wpc' = [wpc EXCEPT ![w] = IF B = {} THEN "exited" ELSE "interface"]
           /\ B # {} => toCoord[w] = <<>>
           /\ ~Ending => B # {}
           /\ Requested(w) = B /\ Requested(w)' = {}
           /\ \A v \in Worker : v # w => toWorker'[v] = toWorker[v]
           /\ \A i \in DOMAIN toWorker'[w] : toWorker'[w][i] = {}
           /\ UNCHANGED <<coordVars, cacheVars, toCoord, loaded, store, lost>>
<1> USE DEF IInv
<1> DEFINE B == Head(toWorker[w])
<1>1. /\ wpc[w] = "idle" /\ toWorker[w] # <<>>
      /\ toWorker' = [toWorker EXCEPT ![w] = Tail(@)]
      /\ wpc' = [wpc EXCEPT ![w] = IF B = {} THEN "exited" ELSE "interface"]
      /\ batch' = [batch EXCEPT ![w] = B] /\ todo' = [todo EXCEPT ![w] = B]
      /\ UNCHANGED <<coordVars, cacheVars, toCoord, loaded, store, lost>>
  BY DEF ReceiveRequest, faultVars
<1>2. toWorker[w] \in Seq(SUBSET SCC) /\ toWorker'[w] = Tail(toWorker[w])
  BY <1>1 DEF Typed
<1>3. B = toWorker[w][1] /\ 1 \in DOMAIN toWorker[w]
  BY <1>1, <1>2, SeqFacts
<1>4. B \in SUBSET SCC
  BY <1>2, <1>3
<1>5. StageOf(w)
  BY DEF OneStage
<1>6. \A i \in DOMAIN toWorker[w] : i # 1 => toWorker[w][i] = {}
  BY <1>5 DEF StageOf
<1>7. Requested(w) = B
  BY <1>3, <1>6 DEF Requested
<1>8. \A i \in DOMAIN toWorker'[w] : toWorker'[w][i] = {}
  BY <1>1, <1>2, <1>6, SeqFacts
<1>9. Requested(w)' = {}
  BY <1>8 DEF Requested
<1>10. (B # {} => toCoord[w] = <<>>) /\ (~Ending => B # {} /\ w \notin free)
  BY <1>1, <1>3, <1>5 DEF StageOf, Ending
<1>11. \A v \in Worker : v # w => toWorker'[v] = toWorker[v]
  BY <1>1 DEF Typed
<1> HIDE DEF B
<1>12. QED
  BY <1>1, <1>4, <1>7, <1>8, <1>9, <1>10, <1>11

LEMMA BatchFacts ==
  ASSUME IInv, NEW w \in Worker, SendBatch(w)
  PROVE  \E B \in SUBSET queue :
           /\ queue' = queue \ B /\ B # {} /\ w \in free /\ free' = free \ {w}
           /\ toWorker[w] = <<>> /\ toCoord[w] = <<>> /\ wpc[w] = "idle" /\ ~Ending
           /\ toWorker'[w] = <<B>> /\ Requested(w) = {} /\ Requested(w)' = B
           /\ \A v \in Worker : v # w => toWorker'[v] = toWorker[v]
           /\ UNCHANGED <<cpc, outcome, loopVars, hash, rechecked, maxBatch, closed, reported, cacheVars, toCoord,
                          workerVars, store>>
<1> USE DEF IInv
<1>1. PICK B \in Batches : queue' = queue \ B /\ toWorker' = [toWorker EXCEPT ![w] = Append(@, B)]
  BY DEF SendBatch
<1>2. B \subseteq queue /\ B # {}
  BY DEF Batches
<1>3. /\ cpc \in {"submitStale", "submitMore"} /\ w \in free /\ ~Gone(w) /\ free' = free \ {w}
      /\ UNCHANGED <<cpc, outcome, loopVars, hash, rechecked, maxBatch, closed, reported, cacheVars, toCoord,
                     workerVars, store>>
  BY DEF SendBatch
<1>4. toWorker[w] = <<>> /\ toCoord[w] = <<>> /\ wpc[w] = "idle"
  BY <1>3 DEF OneStage, StageOf, Gone
<1>5. toWorker'[w] = <<B>> /\ \A v \in Worker : v # w => toWorker'[v] = toWorker[v]
  BY <1>1, <1>4 DEF Typed
<1>6. Requested(w) = {} /\ Requested(w)' = B
  BY <1>4, <1>5 DEF Requested
<1>7. QED
  BY <1>1, <1>2, <1>3, <1>4, <1>5, <1>6 DEF Ending

(***************************************************************************)
(* Where SCCs go.                                                          *)
(***************************************************************************)
\* Nothing comes into a worker's hands but from the queue.
LEMMA OwnedFlow ==
  ASSUME IInv, [Next]_vars, NEW u \in Worker
  PROVE  Owned(u)' \subseteq Owned(u) \cup queue
<1> USE DEF IInv
<1>1. CASE Deciding
  BY <1>1, DecidingFrame DEF Owned, Requested, Checking, Answered
<1>2. CASE Notify
  <2>1. UNCHANGED <<toCoord, wpc, batch>> /\ toWorker'[u] = Append(toWorker[u], {})
    BY <1>2 DEF Notify, workerVars
  <2>2. toWorker[u] \in Seq(SUBSET SCC) /\ {} \in SUBSET SCC
    BY DEF Typed
  <2>3. Requested(u)' \subseteq Requested(u)
    BY <2>1, <2>2, AppendFacts DEF Requested
  <2>4. QED
    BY <2>1, <2>3 DEF Owned, Checking, Answered
<1>3. ASSUME NEW R \in SUBSET Worker, Receive(R) PROVE Owned(u)' \subseteq Owned(u)
  <2>1. /\ UNCHANGED <<toWorker, wpc, batch>>
        /\ toCoord'[u] = IF u \in R THEN Tail(toCoord[u]) ELSE toCoord[u]
        /\ u \in R => toCoord[u] # <<>>
    BY <1>3 DEF Receive, workerVars, Readable
  <2>2. toCoord[u] \in Seq(Message)
    BY DEF Typed
  <2>3. Answered(u)' \subseteq Answered(u)
    BY <2>1, <2>2, SeqFacts DEF Answered
  <2>4. QED
    BY <2>1, <2>3 DEF Owned, Requested, Checking
<1>4. ASSUME NEW w \in Worker, SendBatch(w) PROVE Owned(u)' \subseteq Owned(u) \cup queue
  <2>1. UNCHANGED <<toCoord, wpc, batch>> /\ Requested(w)' \subseteq queue
        /\ \A v \in Worker : v # w => toWorker'[v] = toWorker[v]
    BY <1>4, BatchFacts DEF workerVars
  <2>2. Requested(u)' \subseteq Requested(u) \cup queue
    BY <2>1 DEF Requested
  <2>3. QED
    BY <2>1, <2>2 DEF Owned, Checking, Answered
<1>5. ASSUME NEW w \in Worker, ReceiveRequest(w) PROVE Owned(u)' \subseteq Owned(u)
  <2>1. CASE u = w
    <3>1. /\ toCoord' = toCoord /\ batch'[w] \subseteq Requested(w) /\ Requested(w)' = {}
      BY <1>5, RequestFacts DEF Typed
    <3>2. QED
      BY <2>1, <3>1 DEF Owned, Checking, Answered
  <2>2. CASE u # w
    <3>1. toCoord' = toCoord /\ toWorker'[u] = toWorker[u] /\ batch'[u] = batch[u] /\ wpc'[u] = wpc[u]
      BY <1>5, <2>2, RequestFacts DEF Typed
    <3>2. QED
      BY <3>1, OwnedSame
  <2>3. QED
    BY <2>1, <2>2
<1>6. ASSUME NEW w \in Worker, Answering(w) PROVE Owned(u)' \subseteq Owned(u)
  <2>1. PICK m \in Message : Sends(w, m)
    BY <1>6, AnsweringSends
  <2>2. UNCHANGED <<toWorker, batch>>
    BY <1>6, AnsweringFrame
  <2>3. CASE u = w
    <3>1. Requested(w)' = Requested(w) /\ Checking(w)' = {}
      BY <2>1, <2>2 DEF Requested, Checking, Sends, Typed
    <3>2. toCoord[w] \in Seq(Message) /\ toCoord'[w] \in {toCoord[w], Append(toCoord[w], m)}
      BY <2>1 DEF Typed, Sends
    <3>3. \A i \in DOMAIN toCoord'[w] : \/ i \in DOMAIN toCoord[w] /\ toCoord'[w][i] = toCoord[w][i]
                                        \/ toCoord'[w][i] = m
      BY <3>2, AppendFacts
    <3>4. m.isInterface => m.sccs = Checking(w)
      BY <2>1 DEF Sends, Checking
    <3>5. Answered(w)' \subseteq Answered(w) \cup Checking(w)
      BY <3>3, <3>4 DEF Answered
    <3>6. QED
      BY <2>3, <3>1, <3>5 DEF Owned
  <2>4. CASE u # w
    <3>1. toWorker'[u] = toWorker[u] /\ toCoord'[u] = toCoord[u] /\ wpc'[u] = wpc[u] /\ batch'[u] = batch[u]
      BY <2>1, <2>2, <2>4 DEF Sends, Typed
    <3>2. QED
      BY <3>1, OwnedSame
  <2>5. QED
    BY <2>3, <2>4
<1>7. ASSUME NEW w \in Worker, Stopping(w) PROVE Owned(u)' \subseteq Owned(u)
  <2>1. UNCHANGED <<toWorker, toCoord, batch>> /\ wpc'[u] \in {wpc[u], "exited", "dead"}
    BY <1>7, StoppingFrame
  <2>2. QED
    BY <2>1 DEF Owned, Requested, Checking, Answered
<1>8. ASSUME NEW w \in Worker, NEW s \in SCC, CheckImplementation(w, s) \/ \E h \in Hash : CheckInterface(w, s, h)
      PROVE  Owned(u)' \subseteq Owned(u)
  <2>1. UNCHANGED <<toWorker, toCoord, wpc, batch>>
    BY <1>8 DEF CheckImplementation, CheckInterface
  <2>2. QED
    BY <2>1 DEF Owned, Requested, Checking, Answered
<1>9. CASE UNCHANGED vars
  BY <1>9 DEF vars, workerVars, Owned, Requested, Checking, Answered
<1>10. QED
  BY <1>1, <1>2, <1>3, <1>4, <1>5, <1>6, <1>7, <1>8, <1>9, Kinds

\* The SCCs that nobody has been given yet.
Waiting == notReady \cup Pending \cup queue

LEMMA AdvanceFlow ==
  ASSUME IInv, NEW D \in SUBSET SCC, D = doneNow \/ D = Pending, Advance(D), queue' = queue
  PROVE  /\ done' = done \cup D /\ doneNow' = {} /\ cpc' = "loop"
         /\ Waiting' \subseteq Waiting /\ notReady \subseteq notReady' \cup Pending'
<1> USE DEF IInv
<1>1. D \cap done = {} /\ \A s \in done \cup D : Deps[s] \subseteq done
  BY DEF OnePlace, Grounded
<1>2. done' = done \cup D /\ doneNow' = {} /\ cpc' = "loop" /\ ready' \subseteq notReady
  BY <1>1, AdvanceCounts
<1>3. notReady' = notReady \ ready' /\ Pending' = ready'
  BY <1>2 DEF Advance, Pending
<1>4. QED
  BY <1>2, <1>3 DEF Waiting

LEMMA DecidingFlow ==
  ASSUME IInv, Deciding
  PROVE  /\ Waiting' \subseteq Waiting
         /\ done \subseteq done' /\ done' \cup doneNow' \subseteq done \cup doneNow \cup Pending
<1>1. ready \in SUBSET SCC /\ doneNow \in SUBSET SCC
  BY DEF IInv, Typed
<1>2. CASE FindStale \/ SkipFresh \/ StartWaiting
  <2>1. CASE FindStale
    BY <2>1 DEF FindStale, Waiting, Pending
  <2>2. CASE SkipFresh
    BY <1>1, <2>2, AdvanceFlow DEF SkipFresh, Pending
  <2>3. CASE StartWaiting
    BY <2>3 DEF StartWaiting, loopVars, Waiting, Pending
  <2>4. QED
    BY <1>2, <2>1, <2>2, <2>3
<1>3. CASE EndSubmitStale
  <2>1. CASE doneNow # {}
    BY <1>1, <1>3, <2>1, AdvanceFlow DEF EndSubmitStale
  <2>2. CASE doneNow = {}
    BY <1>3, <2>2 DEF EndSubmitStale, Waiting, Pending
  <2>3. QED
    BY <2>1, <2>2
<1>4. CASE EndSubmitMore
  BY <1>1, <1>4, AdvanceFlow DEF EndSubmitMore
<1>5. CASE ReceiveFailure \/ Finish \/ BuildReturns \/ KillCoordinator
  BY <1>5 DEF ReceiveFailure, Finish, BuildReturns, KillCoordinator, Leave, loopVars, Waiting, Pending
<1>6. ASSUME NEW w \in Worker, SendFails(w)
      PROVE  Waiting' \subseteq Waiting /\ UNCHANGED <<done, doneNow>>
  BY <1>6 DEF SendFails, Leave, loopVars, Waiting, Pending
<1>7. ASSUME NEW w \in Worker, Close(w)
      PROVE  Waiting' \subseteq Waiting /\ UNCHANGED <<done, doneNow>>
  BY <1>7 DEF Close, loopVars, Waiting, Pending
<1>8. QED
  BY <1>2, <1>3, <1>4, <1>5, <1>6, <1>7 DEF Deciding

\* An SCC is given away once; it is final once it was done.
LEMMA ListFlow ==
  ASSUME IInv, [Next]_vars
  PROVE  /\ Waiting' \subseteq Waiting /\ done \subseteq done'
         /\ \/ done' \cup doneNow' \subseteq done \cup doneNow \cup Pending
            \/ done' = done /\ \E R \in SUBSET Worker : Receive(R)
<1> USE DEF coordVars, loopVars
<1>1. CASE Deciding
  BY <1>1, DecidingFlow
<1>2. CASE Notify
  BY <1>2 DEF Notify, Waiting, Pending
<1>3. ASSUME NEW R \in SUBSET Worker, Receive(R) PROVE Waiting' \subseteq Waiting /\ done' = done
  BY <1>3 DEF Receive, Waiting, Pending
<1>4. ASSUME NEW w \in Worker, SendBatch(w)
      PROVE  Waiting' \subseteq Waiting /\ UNCHANGED <<done, doneNow>>
  BY <1>4, BatchFacts DEF Waiting, Pending
<1>5. ASSUME NEW w \in Worker,
             \/ ReceiveRequest(w) \/ Answering(w) \/ Stopping(w)
             \/ \E s \in SCC : CheckImplementation(w, s) \/ \E h \in Hash : CheckInterface(w, s, h)
      PROVE  UNCHANGED coordVars
  BY <1>5, AnsweringFrame, StoppingFrame DEF IInv, ReceiveRequest, CheckImplementation, CheckInterface
<1>6. UNCHANGED coordVars => Waiting' = Waiting /\ UNCHANGED <<done, doneNow>>
  BY DEF Waiting, Pending
<1>7. CASE UNCHANGED vars
  BY <1>6, <1>7 DEF vars
<1>8. QED
  BY <1>1, <1>2, <1>3, <1>4, <1>5, <1>6, <1>7, Kinds

(***************************************************************************)
(* Part one is inductive.                                                  *)
(***************************************************************************)
\* Only a check in the interface phase changes what is in memory or in the cache.
LEMMA MemoryChange ==
  ASSUME IInv, [Next]_vars
  PROVE  \/ UNCHANGED <<loaded, store, lost>>
         \/ \E w \in Worker, s \in SCC, h \in Hash : CheckInterface(w, s, h)
<1>1. ASSUME NEW w \in Worker, SendBatch(w) \/ ReceiveRequest(w) PROVE UNCHANGED <<loaded, store, lost>>
  BY <1>1 DEF SendBatch, ReceiveRequest, workerVars, faultVars
<1>2. ASSUME NEW w \in Worker, NEW s \in SCC, CheckImplementation(w, s) PROVE UNCHANGED <<loaded, store, lost>>
  BY <1>2 DEF CheckImplementation, faultVars
<1>3. CASE Notify \/ (\E R \in SUBSET Worker : Receive(R)) \/ UNCHANGED vars
  BY <1>3 DEF Notify, Receive, workerVars, faultVars, vars
<1>4. QED
  BY <1>1, <1>2, <1>3, Kinds, DecidingFrame, AnsweringFrame, StoppingFrame DEF IInv

\* Only an answer changes what the coordinator knows, and what it reports.
LEMMA HashChange ==
  ASSUME IInv, [Next]_vars
  PROVE  UNCHANGED <<hash, reported>> \/ \E R \in SUBSET Worker : Receive(R)
<1> USE DEF coordVars
<1>1. ASSUME NEW w \in Worker, SendBatch(w) \/ ReceiveRequest(w) \/ Answering(w) \/ Stopping(w)
      PROVE  UNCHANGED <<hash, reported>>
  BY <1>1, AnsweringFrame, StoppingFrame DEF SendBatch, ReceiveRequest, IInv
<1>2. ASSUME NEW w \in Worker, NEW s \in SCC, CheckImplementation(w, s) \/ \E h \in Hash : CheckInterface(w, s, h)
      PROVE  UNCHANGED <<hash, reported>>
  BY <1>2 DEF CheckImplementation, CheckInterface
<1>3. CASE Notify \/ UNCHANGED vars
  BY <1>3 DEF Notify, vars
<1>4. QED
  BY <1>1, <1>2, <1>3, Kinds, DecidingFrame

\* What a check in the interface phase does to memory.
Checked(w, s, h) ==
  /\ s \in batch[w] /\ wpc[w] = "interface" /\ s \in Owned(w)
  /\ s \notin done \cup doneNow \cup Waiting
  /\ Deps[s] \subseteq done
  /\ Missing(w, s) \subseteq done /\ s \notin Missing(w, s)
  /\ \A d \in Missing(w, s) : loaded[w][d] = NoHash /\ store[d] # NoHash
  /\ \A d \in Deps[s] : loaded[w][d] = NoHash => d \in Missing(w, s)
  /\ \A t \in Missing(w, s) : \A d \in Deps[t] : loaded[w][d] = NoHash => d \in Missing(w, s)
  /\ loaded'[w] = [d \in SCC |-> IF d = s THEN h ELSE IF d \in Missing(w, s) THEN store[d] ELSE loaded[w][d]]
  /\ \A v \in Worker : v # w => loaded'[v] = loaded[v]
  /\ \/ store' = [store EXCEPT ![s] = h] /\ lost' = lost
     \/ store' = store /\ lost' = lost + 1
  /\ todo' = [todo EXCEPT ![w] = @ \ {s}]
  /\ UNCHANGED <<coordVars, cacheVars, toWorker, toCoord, wpc, batch>>

LEMMA CheckFacts ==
  ASSUME IInv, Worked, NEW w \in Worker, NEW s \in SCC, NEW h \in Hash, CheckInterface(w, s, h)
  PROVE  Checked(w, s, h)
<1> USE DEF IInv
<1> DEFINE absent == {d \in SCC : loaded[w][d] = NoHash}
           G == [d \in SCC |-> Deps[d] \cap absent]
<1>1. /\ wpc[w] = "interface" /\ s \in todo[w]
      /\ \A d \in Missing(w, s) : store[d] # NoHash
      /\ loaded' = [loaded EXCEPT ![w] = [d \in SCC |-> IF d = s THEN h
                                          ELSE IF d \in Missing(w, s) THEN store[d] ELSE @[d]]]
      /\ \/ store' = [store EXCEPT ![s] = h] /\ lost' = lost
         \/ store' = store /\ lost' = lost + 1
      /\ todo' = [todo EXCEPT ![w] = @ \ {s}]
      /\ UNCHANGED <<coordVars, cacheVars, toWorker, toCoord, wpc, batch>>
  BY DEF CheckInterface, LoadAndSet, IsNext
<1>2. s \in batch[w] /\ s \in Owned(w)
  BY <1>1 DEF Worked, Owned, Checking
<1>3. Deps[s] \subseteq done /\ s \notin done \cup doneNow \cup Waiting
  BY <1>2 DEF Grounded, OnePlace, Waiting, Counted
<1>4. /\ DOMAIN G = SCC /\ G \in [SCC -> SUBSET SCC] /\ done \in SUBSET DOMAIN G
      /\ Deps[s] \cap absent \in SUBSET DOMAIN G
  BY DEF Typed
<1>5. Missing(w, s) = Reach(G, Deps[s] \cap absent)
  BY DEF Missing
<1>6. \A t \in done : Deps[t] \subseteq done
  BY DEF Grounded
<1>7. Missing(w, s) \subseteq done
  <2>1. ClosedUnder(G, done) /\ Deps[s] \cap absent \subseteq done
    BY <1>3, <1>4, <1>6 DEF ClosedUnder
  <2> HIDE DEF G
  <2>2. QED
    BY <1>4, <1>5, <2>1, ReachLeast
<1>8. Missing(w, s) \subseteq absent
  <2>1. ClosedUnder(G, absent) /\ absent \in SUBSET DOMAIN G /\ Deps[s] \cap absent \subseteq absent
    BY <1>4 DEF ClosedUnder
  <2> HIDE DEF G, absent
  <2>2. QED
    BY <1>4, <1>5, <2>1, ReachLeast
<1>9. Deps[s] \cap absent \subseteq Missing(w, s)
  <2> HIDE DEF G, absent
  <2>1. QED
    BY <1>4, <1>5, ReachRoots
<1>10. \A t \in Missing(w, s) : Deps[t] \cap absent \subseteq Missing(w, s)
  <2>1. ClosedUnder(G, Missing(w, s)) /\ Missing(w, s) \subseteq SCC
    <3> HIDE DEF G, absent
    <3>1. QED
      BY <1>4, <1>5, ReachClosed
  <2>2. QED
    BY <2>1 DEF ClosedUnder
<1>11. Deps \in [SCC -> SUBSET SCC]
  BY GraphAssumption
<1>12. loaded'[w] = [d \in SCC |-> IF d = s THEN h ELSE IF d \in Missing(w, s) THEN store[d] ELSE loaded[w][d]]
       /\ \A v \in Worker : v # w => loaded'[v] = loaded[v]
  <2>1. loaded \in [Worker -> [SCC -> Hash \cup {NoHash}]]
    BY DEF Typed
  <2>2. QED
    BY <1>1, <2>1, Zenon
<1>13. QED
  BY <1>1, <1>2, <1>3, <1>7, <1>8, <1>9, <1>10, <1>11, <1>12 DEF Checked

LEMMA ClosedStep ==
  ASSUME IInv, Worked, LoadedIsClosed, [Next]_vars
  PROVE  LoadedIsClosed'
<1>1. CASE UNCHANGED <<loaded, store, lost>>
  BY <1>1 DEF LoadedIsClosed
<1>2. ASSUME NEW w \in Worker, NEW s \in SCC, NEW h \in Hash, CheckInterface(w, s, h),
             NEW v \in Worker, NEW t \in SCC, loaded'[v][t] # NoHash, NEW d \in Deps[t]
      PROVE  loaded'[v][d] # NoHash
  <2>0. Checked(w, s, h)
    BY <1>2, CheckFacts
  <2>1. d \in SCC
    BY GraphAssumption
  <2>2. CASE v # w
    BY <1>2, <2>0, <2>1, <2>2 DEF Checked, LoadedIsClosed
  <2>3. CASE v = w
    <3>1. h # NoHash
      BY HashAssumption
    <3>2. loaded[w][d] # NoHash \/ d \in Missing(w, s)
      BY <1>2, <2>0, <2>1, <2>3 DEF Checked, LoadedIsClosed
    <3>3. QED
      BY <1>2, <2>0, <2>1, <2>3, <3>1, <3>2 DEF Checked
  <2>4. QED
    BY <2>2, <2>3
<1>3. QED
  BY <1>1, <1>2, MemoryChange DEF LoadedIsClosed

LEMMA HoldersStep ==
  ASSUME IInv, Worked, Holders, [Next]_vars
  PROVE  Holders'
<1>1. /\ Waiting' \subseteq Waiting /\ done \subseteq done'
      /\ \A u \in Worker : Owned(u)' \subseteq Owned(u) \cup queue
  BY ListFlow, OwnedFlow
<1>2. \A t \in SCC, v \in Worker : loaded[v][t] # NoHash /\ t \notin done' =>
        t \notin Waiting' /\ \A u \in Worker : t \in Owned(u)' => u = v
  BY <1>1 DEF Holders, Waiting
<1>3. ASSUME NEW w \in Worker, NEW s \in SCC, NEW h \in Hash, CheckInterface(w, s, h),
             NEW v \in Worker, NEW t \in SCC, loaded'[v][t] # NoHash, t \notin done',
             loaded[v][t] = NoHash
      PROVE  t \notin Waiting' /\ \A u \in Worker : t \in Owned(u)' => u = v
  <2>0. Checked(w, s, h)
    BY <1>3, CheckFacts
  <2>1. v = w /\ (t = s \/ t \in Missing(w, s))
    BY <1>3, <2>0 DEF Checked
  <2>2. t = s /\ s \in Owned(w) /\ s \notin Waiting
    BY <1>1, <1>3, <2>0, <2>1 DEF Checked
  <2>3. \A u \in Worker : s \in Owned(u) => u = w
    BY <2>2 DEF IInv, OneWorker
  <2>4. QED
    BY <1>1, <2>1, <2>2, <2>3 DEF Waiting
<1>4. QED
  BY <1>2, <1>3, MemoryChange DEF Holders, Waiting

LEMMA WorkedStep ==
  ASSUME IInv, Worked, [Next]_vars
  PROVE  Worked'
<1> USE DEF workerVars, cacheVars, coordVars
<1>1. CASE UNCHANGED <<batch, todo, wpc, loaded>>
  BY <1>1 DEF Worked
<1>2. ASSUME NEW w \in Worker, ReceiveRequest(w) PROVE Worked'
  <2>1. /\ batch'[w] = todo'[w] /\ loaded' = loaded
        /\ \A v \in Worker : v # w => batch'[v] = batch[v] /\ todo'[v] = todo[v] /\ wpc'[v] = wpc[v]
    <3>1. PICK B \in SUBSET SCC :
            /\ batch' = [batch EXCEPT ![w] = B] /\ todo' = [todo EXCEPT ![w] = B]
            /\ wpc' = [wpc EXCEPT ![w] = IF B = {} THEN "exited" ELSE "interface"]
            /\ loaded' = loaded
      BY <1>2, RequestFacts
    <3>2. QED
      BY <3>1 DEF IInv, Typed
  <2>2. QED
    BY <2>1 DEF Worked
<1>3. ASSUME NEW w \in Worker, Answering(w) PROVE Worked'
  <2>1. PICK m \in Message : Sends(w, m)
    BY <1>3, AnsweringSends DEF IInv
  <2>2. batch' = batch /\ loaded' = loaded
    BY <1>3, AnsweringFrame
  <2>3. wpc'[w] # "interface" /\ \A v \in Worker : v # w => wpc'[v] = wpc[v]
    BY <2>1 DEF Sends, IInv, Typed
  <2>4. /\ \A v \in Worker : v # w => todo'[v] = todo[v]
        /\ todo'[w] \subseteq batch[w] \cup todo[w]
    BY <2>1 DEF Sends
  <2>5. QED
    BY <2>2, <2>3, <2>4 DEF Worked
<1>4. ASSUME NEW w \in Worker, Stopping(w) PROVE Worked'
  BY <1>4, StoppingFrame DEF Worked, IInv
<1>5. ASSUME NEW w \in Worker, NEW s \in SCC, CheckImplementation(w, s) PROVE Worked'
  BY <1>5 DEF CheckImplementation, Worked, IInv, Typed
<1>6. ASSUME NEW w \in Worker, NEW s \in SCC, NEW h \in Hash, CheckInterface(w, s, h) PROVE Worked'
  <2>0. Checked(w, s, h)
    BY <1>6, CheckFacts
  <2>1. UNCHANGED <<batch, wpc>> /\ todo'[w] = todo[w] \ {s} /\ \A v \in Worker : v # w => todo'[v] = todo[v]
    BY <2>0 DEF Checked, IInv, Typed
  <2>2. loaded'[w][s] = h /\ h # NoHash
    BY <2>0, HashAssumption DEF Checked, IInv, Typed
  <2>3. \A v \in Worker, t \in SCC : loaded[v][t] # NoHash => loaded'[v][t] # NoHash
    BY <2>0, <2>2 DEF Checked
  <2>4. batch \in [Worker -> SUBSET SCC]
    BY DEF IInv, Typed
  <2>5. QED
    BY <2>1, <2>2, <2>3, <2>4 DEF Worked
<1>7. CASE Notify \/ (\E R \in SUBSET Worker : Receive(R)) \/ UNCHANGED vars
  BY <1>1, <1>7 DEF Notify, Receive, vars
<1>8. ASSUME NEW w \in Worker, SendBatch(w) PROVE Worked'
  BY <1>1, <1>8 DEF SendBatch
<1>9. CASE Deciding
  BY <1>1, <1>9, DecidingFrame
<1>10. QED
  BY <1>2, <1>3, <1>4, <1>5, <1>6, <1>7, <1>8, <1>9, Kinds

LEMMA AnswersStep ==
  ASSUME IInv, Worked, Answers, [Next]_vars
  PROVE  Answers'
<1> USE DEF workerVars, cacheVars, coordVars
<1>0. Typed /\ (~Ending' => ~Ending)
  BY EndingStays DEF IInv
<1>1. CASE UNCHANGED <<toCoord, loaded, batch>>
  BY <1>0, <1>1 DEF Answers, AnswerOf
<1>2. ASSUME NEW w \in Worker, ReceiveRequest(w) PROVE Answers'
  <2>1. PICK B \in SUBSET SCC :
          /\ batch' = [batch EXCEPT ![w] = B]
          /\ B # {} => toCoord[w] = <<>>
          /\ ~Ending => B # {}
          /\ toCoord' = toCoord /\ loaded' = loaded
    BY <1>2, RequestFacts
  <2>2. \A v \in Worker : v # w => batch'[v] = batch[v]
    BY <2>1 DEF IInv, Typed
  <2>3. ~Ending' => DOMAIN toCoord[w] = {}
    BY <1>0, <2>1
  <2>4. QED
    BY <1>0, <2>1, <2>2, <2>3 DEF Answers, AnswerOf
<1>3. ASSUME NEW w \in Worker, Answering(w) PROVE Answers'
  <2>1. PICK m \in Message : Sends(w, m)
    BY <1>0, <1>3, AnsweringSends
  <2>2. batch' = batch /\ loaded' = loaded /\ cpc' = cpc
    BY <1>3, AnsweringFrame
  <2>3. toCoord[w] \in Seq(Message)
    BY <1>0 DEF Typed
  <2>4. \A v \in Worker : v # w => toCoord'[v] = toCoord[v]
    BY <1>0, <2>1 DEF Sends, Typed
  <2>5. \A i \in DOMAIN toCoord'[w] :
          toCoord'[w][i] = m \/ (i \in DOMAIN toCoord[w] /\ toCoord'[w][i] = toCoord[w][i])
    <3>1. toCoord'[w] = toCoord[w] \/ toCoord'[w] = Append(toCoord[w], m)
      BY <1>0, <2>1 DEF Sends, Typed
    <3>2. m \in Message
      BY <2>1
    <3>3. QED
      BY <2>3, <3>1, <3>2, AppendOne
  <2>6. AnswerOf(w, m)
    <3>1. m.isInterface /\ ~m.blocker => todo[w] = {} /\ wpc[w] = "interface"
      BY <2>1 DEF Sends
    <3>2. \A s \in SCC : m.result[s] # NoHash => m.isInterface /\ ~m.blocker /\ s \in batch[w]
      BY <2>1 DEF Sends
    <3>3. m.isInterface /\ ~m.blocker => \A s \in SCC : s \in batch[w] => m.result[s] = loaded[w][s]
      BY <2>1 DEF Sends
    <3>4. m.sccs = batch[w] /\ batch[w] \subseteq SCC
      BY <1>0, <2>1 DEF Sends, Typed
    <3>5. m.isInterface /\ ~m.blocker => \A s \in batch[w] : loaded[w][s] # NoHash
      BY <3>1 DEF Worked
    <3>6. QED
      BY <3>2, <3>3, <3>4, <3>5 DEF AnswerOf
  <2>7. \A v \in Worker : \A n : AnswerOf(v, n) => AnswerOf(v, n)'
    BY <2>2 DEF AnswerOf, Ending
  <2>8. \A v \in Worker : \A i \in DOMAIN toCoord'[v] : AnswerOf(v, toCoord'[v][i])
    BY <2>4, <2>5, <2>6 DEF Answers
  <2>9. QED
    BY <2>7, <2>8 DEF Answers
<1>4. ASSUME NEW w \in Worker, NEW s \in SCC, NEW h \in Hash, CheckInterface(w, s, h) PROVE Answers'
  <2>1. /\ wpc[w] = "interface" /\ UNCHANGED <<cpc, toCoord, batch>>
        /\ \A v \in Worker : v # w => loaded'[v] = loaded[v]
    BY <1>4, CheckFacts DEF Checked
  <2>2. DOMAIN toCoord[w] = {}
    BY <2>1 DEF IInv, OneStage, StageOf
  <2>3. QED
    BY <2>1, <2>2 DEF Answers, AnswerOf, Ending
<1>5. ASSUME NEW R \in SUBSET Worker, Receive(R) PROVE Answers'
  <2>1. UNCHANGED <<batch, loaded>>
        /\ toCoord' = [v \in Worker |-> IF v \in R THEN Tail(toCoord[v]) ELSE toCoord[v]]
        /\ R \subseteq Readable
    BY <1>5 DEF Receive
  <2>2. \A v \in Worker : \A i \in DOMAIN toCoord'[v] : \E j \in DOMAIN toCoord[v] : toCoord'[v][i] = toCoord[v][j]
    <3> TAKE v \in Worker
    <3>1. toCoord[v] \in Seq(Message)
      BY <1>0 DEF Typed
    <3>2. CASE v \in R
      <4>1. toCoord[v] # <<>> /\ toCoord'[v] = Tail(toCoord[v])
        BY <2>1, <3>2 DEF Readable
      <4>2. QED
        BY <3>1, <4>1, SeqFacts
    <3>3. QED
      BY <2>1, <3>2
  <2>3. \A v \in Worker : \A m : AnswerOf(v, m) => AnswerOf(v, m)'
    BY <1>0, <2>1 DEF AnswerOf
  <2>4. QED
    BY <2>2, <2>3 DEF Answers
<1>6. ASSUME NEW w \in Worker, SendBatch(w) \/ Stopping(w) PROVE Answers'
  BY <1>0, <1>1, <1>6, StoppingFrame DEF SendBatch
<1>7. ASSUME NEW w \in Worker, NEW s \in SCC, CheckImplementation(w, s) PROVE Answers'
  BY <1>1, <1>7 DEF CheckImplementation
<1>8. CASE Deciding \/ Notify \/ UNCHANGED vars
  BY <1>1, <1>8, DecidingFrame DEF Notify, vars
<1>9. QED
  BY <1>2, <1>3, <1>4, <1>5, <1>6, <1>7, <1>8, Kinds

\* The hashes that one round of answers brings.
LEMMA ReceiveHashes ==
  ASSUME IInv, Answers, NEW R \in SUBSET Worker, Receive(R), NEW s \in SCC
  PROVE  \/ hash'[s] = hash[s] /\ s \notin doneNow'
         \/ \E w \in Worker : /\ s \in Answered(w) /\ hash'[s] = loaded[w][s] /\ loaded[w][s] # NoHash
<1> DEFINE iface == {w \in R : Head(toCoord[w]).isInterface}
           New == {Head(toCoord[w]).result[s] : w \in iface} \ {NoHash}
<1>1. hash'[s] = IF New = {} THEN hash[s] ELSE CHOOSE h \in New : TRUE
  BY DEF Receive
<1>2. doneNow' = UNION {Head(toCoord[w]).sccs : w \in iface}
  BY DEF Receive
<1>3. ASSUME NEW w \in iface
      PROVE  /\ w \in Worker
             /\ \A t \in Head(toCoord[w]).sccs : t \in Answered(w)
             /\ ~Head(toCoord[w]).blocker
             /\ AnswerOf(w, Head(toCoord[w]))
  <2>0. R \subseteq Readable \ Blocking
    BY DEF Receive
  <2>1. w \in Worker /\ toCoord[w] \in Seq(Message) /\ toCoord[w] # <<>> /\ ~Head(toCoord[w]).blocker
    <3>1. w \in R /\ w \in Worker
      BY <1>3
    <3>2. w \in Readable /\ w \notin Blocking
      BY <2>0, <3>1
    <3>3. toCoord[w] \in Seq(Message)
      BY <3>1 DEF IInv, Typed
    <3>4. QED
      BY <3>1, <3>2, <3>3 DEF Readable, Blocking
  <2>2. 1 \in DOMAIN toCoord[w] /\ Head(toCoord[w]) = toCoord[w][1]
    BY <2>1, SeqFacts
  <2>3. toCoord[w][1].isInterface
    BY <1>3, <2>2
  <2>4. \A t \in Head(toCoord[w]).sccs : t \in Answered(w)
    BY <2>2, <2>3 DEF Answered
  <2>5. AnswerOf(w, Head(toCoord[w]))
    BY <2>1, <2>2 DEF Answers
  <2>6. QED
    BY <2>1, <2>4, <2>5
<1>4. CASE New = {}
  <2>1. ASSUME s \in doneNow' PROVE FALSE
    <3>1. PICK w \in iface : s \in Head(toCoord[w]).sccs
      BY <1>2, <2>1
    <3>2. Head(toCoord[w]).result[s] # NoHash
      BY <1>3, <3>1 DEF AnswerOf
    <3>3. QED
      BY <1>4, <3>1, <3>2
  <2>2. QED
    BY <1>1, <1>4, <2>1
<1>5. CASE New # {}
  <2>1. hash'[s] \in New
    BY <1>1, <1>5
  <2>2. PICK w \in iface : hash'[s] = Head(toCoord[w]).result[s] /\ hash'[s] # NoHash
    BY <2>1
  <2>3. QED
    BY <1>3, <2>2 DEF AnswerOf
<1>6. QED
  BY <1>4, <1>5

LEMMA KnownStep ==
  ASSUME IInv, MemInv, [Next]_vars
  PROVE  Known'
<1> USE DEF MemInv
<1>1. Waiting' \subseteq Waiting
  BY ListFlow
<1>2. lost \in Nat
  BY BoundAssumption DEF IInv, Typed
<1>3. ASSUME NEW w \in Worker, NEW s \in SCC, NEW h \in Hash, CheckInterface(w, s, h), lost' = 0
      PROVE  /\ \A t \in Waiting' \cup doneNow' \cup done' : hash'[t] = store'[t]
             /\ \A v \in Worker : \A t \in SCC : loaded'[v][t] # NoHash => loaded'[v][t] = store'[t]
  <2>0. Checked(w, s, h)
    BY <1>3, CheckFacts
  <2>1. lost = 0 /\ store' = [store EXCEPT ![s] = h] /\ store \in [SCC -> Hash \cup {NoHash}]
    BY <1>2, <1>3, <2>0 DEF Checked, IInv, Typed
  <2>2. UNCHANGED <<hash, doneNow, done>> /\ s \notin Waiting \cup doneNow \cup done
    BY <2>0 DEF Checked, coordVars, loopVars
  <2>3. \A t \in Waiting \cup doneNow \cup done : t \in SCC /\ hash[t] = store[t]
    BY <2>1 DEF Known, Waiting, IInv, Typed, Pending
  <2>4. \A t \in Waiting' \cup doneNow' \cup done' : hash'[t] = store'[t]
    BY <1>1, <2>1, <2>2, <2>3
  <2>5. \A v \in Worker : v # w => loaded[v][s] = NoHash
    BY <2>0, <2>2 DEF Checked, Holders
  <2>6. ASSUME NEW v \in Worker, NEW t \in SCC, loaded'[v][t] # NoHash
        PROVE  loaded'[v][t] = store'[t]
    <3>1. CASE v # w
      BY <2>0, <2>1, <2>5, <2>6, <3>1 DEF Checked, Known
    <3>2. CASE v = w
      BY <2>0, <2>1, <2>6, <3>2 DEF Checked, Known
    <3>3. QED
      BY <3>1, <3>2
  <2>7. QED
    BY <2>4, <2>6
<1>4. ASSUME UNCHANGED <<loaded, store, lost>>, lost' = 0
      PROVE  \A t \in Waiting' \cup doneNow' \cup done' : hash'[t] = store'[t]
  <2>1. \A t \in Waiting \cup doneNow \cup done : hash[t] = store[t]
    BY <1>4 DEF Known, Waiting
  <2>2. CASE \E R \in SUBSET Worker : Receive(R)
    <3>1. PICK R \in SUBSET Worker : Receive(R)
      BY <2>2
    <3>2. done' = done /\ doneNow' \subseteq SCC
      BY <3>1, NextInv DEF Receive, IInv, Typed
    <3>3. \A t \in SCC : hash'[t] = hash[t] \/ hash'[t] = store[t]
      BY <1>4, <3>1, ReceiveHashes DEF Known
    <3>4. \A t \in doneNow' : hash'[t] = store[t]
      BY <1>4, <3>1, <3>2, ReceiveHashes DEF Known
    <3>5. Waiting' \cup done' \subseteq SCC
      BY <3>2, NextInv DEF Waiting, Pending, IInv, Typed
    <3>6. QED
      BY <1>1, <1>4, <2>1, <3>2, <3>3, <3>4, <3>5
  <2>3. CASE ~\E R \in SUBSET Worker : Receive(R)
    <3>1. hash' = hash
      BY <2>3, HashChange
    <3>2. done' \cup doneNow' \subseteq done \cup doneNow \cup Waiting
      BY <2>3, ListFlow DEF Waiting
    <3>3. QED
      BY <1>1, <1>4, <2>1, <3>1, <3>2
  <2>4. QED
    BY <2>2, <2>3
<1>5. QED
  BY <1>3, <1>4, MemoryChange DEF Known, Waiting

\* The hash and the cache entry of a final SCC stay.
LEMMA FinalStep ==
  ASSUME IInv, MemInv, [Next]_vars, NEW s \in done
  PROVE  hash'[s] = hash[s] /\ store'[s] = store[s]
<1>1. s \in SCC /\ \A w \in Worker : s \notin Owned(w)
  BY DEF IInv, Typed, OnePlace
<1>2. hash'[s] = hash[s]
  <2>1. ASSUME NEW R \in SUBSET Worker, Receive(R) PROVE hash'[s] = hash[s]
    BY <1>1, <2>1, ReceiveHashes DEF MemInv, Owned
  <2>2. QED
    BY <2>1, HashChange
<1>3. store'[s] = store[s]
  <2>1. ASSUME NEW w \in Worker, NEW t \in SCC, NEW h \in Hash, CheckInterface(w, t, h)
        PROVE  store'[s] = store[s]
    <3>1. Checked(w, t, h)
      BY <2>1, CheckFacts DEF MemInv
    <3>2. QED
      BY <1>1, <3>1 DEF Checked, IInv, Typed
  <2>2. QED
    BY <2>1, MemoryChange
<1>4. QED
  BY <1>2, <1>3

LEMMA InitMem == Init => MemInv
<1> SUFFICES ASSUME Init PROVE MemInv
  OBVIOUS
<1>1. /\ loaded = [w \in Worker |-> [s \in SCC |-> NoHash]]
      /\ wpc = [w \in Worker |-> "idle"]
      /\ batch = [w \in Worker |-> {}] /\ todo = [w \in Worker |-> {}]
      /\ toCoord = [w \in Worker |-> <<>>]
      /\ hash = store
  BY DEF Init
<1>2. LoadedIsClosed
  BY <1>1, GraphAssumption DEF LoadedIsClosed
<1>3. QED
  BY <1>1, <1>2 DEF MemInv, Answers, Worked, Holders, Known

LEMMA AlwaysMemInv == Spec => [](IInv /\ MemInv)
<1>1. IInv /\ MemInv /\ [Next]_vars => MemInv'
  BY AnswersStep, WorkedStep, HoldersStep, KnownStep, ClosedStep DEF MemInv
<1>2. QED
  BY InitMem, AlwaysIInv, <1>1, NextInv, PTL DEF Spec

(***************************************************************************)
(* The theorems about what workers know.                                   *)
(***************************************************************************)
\* maybe_load_deps may stop at what is in done_sccs: whatever a worker has, it
\* has with all its dependencies.
THEOREM AlwaysLoadedIsClosed == Spec => []LoadedIsClosed
BY AlwaysMemInv, PTL DEF MemInv

\* As long as every cache entry could be written, no worker works with an
\* interface of an earlier run or with one that another worker has replaced.
THEOREM AlwaysWorkersAgree == Spec => [](lost = 0 => WorkersAgree)
<1>1. IInv /\ MemInv => (lost = 0 => WorkersAgree)
  BY DEF MemInv, Known, WorkersAgree
<1>2. QED
  BY AlwaysMemInv, <1>1, PTL

\* A cache that takes every entry never lets two processes disagree.
THEOREM WorkersAlwaysAgree ==
  ASSUME MaxLost = 0
  PROVE  Spec => []WorkersAgree
<1>1. IInv => lost = 0
  BY DEF IInv, Typed
<1>2. QED
  BY AlwaysWorkersAgree, AlwaysIInv, <1>1, PTL

\* The hash and the cache entry of an SCC whose dependents have been notified
\* never change again, however many cache entries are lost, processes die and
\* answers come together.
THEOREM AlwaysFinalIsFinal == Spec => FinalIsFinal
<1>1. IInv /\ MemInv /\ [Next]_vars => [\A s \in done : hash'[s] = hash[s] /\ store'[s] = store[s]]_vars
  BY FinalStep
<1>2. QED
  BY AlwaysMemInv, <1>1, PTL DEF Spec, FinalIsFinal

(***************************************************************************)
(* The invariant about what the cache was trusted for: part two.           *)
(***************************************************************************)
\* What process_graph's locals say at each point of its loop.
Phases ==
  /\ cpc \in {"loop", "wait"} => doneNow = {}
  /\ cpc = "submitStale" => stillWorking
  /\ cpc = "loop" /\ ~stillWorking => queue = {} /\ free = Worker
  /\ outcome # "running" => Left
  /\ ~Left => outcome = "running"

\* What an SCC that is not stale in itself was checked against.
FromCache ==
  \A s \in SCC \ inherent : Deps[s] = OldDeps[s] /\ Indirect(s) \subseteq TransDeps(OldDeps, s)

\* A cached interface rests on final ones, with the hashes it was checked against.
Justified(s) == \A d \in SCC : depHash[s][d] # NoHash => d \in done /\ hash[d] = depHash[s][d]
AllJustified == \A s \in (done \cup doneNow) \ rechecked : Justified(s)

\* Workers are given stale SCCs only.
Held(w) == Requested(w) \cup batch[w] \cup UNION {toCoord[w][i].sccs : i \in DOMAIN toCoord[w]}
AllRechecked == queue \subseteq rechecked /\ reported \subseteq rechecked
                /\ \A w \in Worker : Held(w) \subseteq rechecked

TrustInv == Phases /\ FromCache /\ AllJustified /\ AllRechecked

\* The indirect dependencies of an SCC that find_stale_sccs calls fresh are final,
\* because its direct ones are: this is what verify_transitive_deps is for.
LEMMA FreshGrounded ==
  ASSUME FromCache, NEW s \in SCC, Fresh(s), Deps[s] \subseteq done,
         \A t \in done : Deps[t] \subseteq done, done \in SUBSET SCC
  PROVE  \A d \in SCC : depHash[s][d] # NoHash => d \in done /\ hash[d] = depHash[s][d]
<1>1. Deps \in [SCC -> SUBSET SCC] /\ OldDeps \in [SCC -> SUBSET SCC]
  BY GraphAssumption
<1>2. TransDeps(Deps, s) \subseteq done
  <2>1. ClosedUnder(Deps, done)
    BY DEF ClosedUnder
  <2>2. QED
    BY <1>1, <2>1, ReachLeast DEF TransDeps
<1>3. CASE TransChanged(s)
  BY <1>2, <1>3 DEF Fresh, Indirect
<1>4. CASE ~TransChanged(s)
  <2> DEFINE M == TransDeps(Deps, s)
  <2>1. ClosedUnder(Deps, M) /\ M \subseteq SCC
    BY <1>1, ReachClosed DEF TransDeps
  <2>2. Deps[s] \subseteq M
    BY <1>1, ReachRoots DEF TransDeps
  <2>3. \A d \in M \cup {s} : Deps[d] = OldDeps[d]
    BY <1>4 DEF TransChanged
  <2>4. ClosedUnder(OldDeps, M) /\ OldDeps[s] \subseteq M /\ M \in SUBSET DOMAIN OldDeps
    BY <1>1, <2>1, <2>2, <2>3 DEF ClosedUnder
  <2>5. TransDeps(OldDeps, s) \subseteq M
    <3> HIDE DEF M
    <3>1. QED
      BY <2>4, ReachLeast DEF TransDeps
  <2>6. Indirect(s) \subseteq M
    BY <2>5 DEF Fresh, FromCache
  <2>7. QED
    BY <1>2, <2>6 DEF Fresh, Indirect
<1>5. QED
  BY <1>3, <1>4

LEMMA PhasesStep ==
  ASSUME Phases, IInv, [Next]_vars
  PROVE  Phases'
<1> USE DEF Phases, Left
<1>1. CASE FindStale \/ SkipFresh \/ StartWaiting
  BY <1>1 DEF FindStale, SkipFresh, StartWaiting, Advance, MoreToDo, loopVars
<1>2. CASE EndSubmitStale
  BY <1>2 DEF EndSubmitStale, Advance
<1>3. CASE EndSubmitMore
  BY <1>3 DEF EndSubmitMore, Advance
<1>4. CASE ReceiveFailure \/ Finish \/ BuildReturns \/ KillCoordinator
  BY <1>4 DEF ReceiveFailure, Finish, BuildReturns, KillCoordinator, Leave, loopVars
<1>5. ASSUME NEW w \in Worker, SendFails(w) PROVE Phases'
  BY <1>5 DEF SendFails, Leave, loopVars
<1>6. ASSUME NEW w \in Worker, Close(w) PROVE Phases'
  BY <1>6 DEF Close, loopVars
<1>7. CASE Deciding
  BY <1>1, <1>2, <1>3, <1>4, <1>5, <1>6, <1>7 DEF Deciding
<1>8. CASE Notify
  BY <1>8 DEF Notify, loopVars
<1>9. ASSUME NEW R \in SUBSET Worker, Receive(R) PROVE Phases'
  BY <1>9 DEF Receive
<1>10. ASSUME NEW w \in Worker, SendBatch(w) PROVE Phases'
  BY <1>10 DEF SendBatch, loopVars
<1>11. ASSUME UNCHANGED coordVars PROVE Phases'
  BY <1>11 DEF coordVars, loopVars
<1>12. ASSUME NEW w \in Worker, \/ ReceiveRequest(w) \/ Answering(w) \/ Stopping(w)
                                \/ \E s \in SCC : CheckImplementation(w, s) \/ \E h \in Hash : CheckInterface(w, s, h)
       PROVE  Phases'
  BY <1>11, <1>12, AnsweringFrame, StoppingFrame DEF IInv, ReceiveRequest, CheckImplementation, CheckInterface
<1>13. CASE UNCHANGED vars
  BY <1>11, <1>13 DEF vars
<1>14. QED
  BY <1>7, <1>8, <1>9, <1>10, <1>12, <1>13, Kinds

\* Whatever a worker is given or says comes from the queue.
LEMMA HeldFlow ==
  ASSUME IInv, [Next]_vars, NEW u \in Worker
  PROVE  Held(u)' \subseteq Held(u) \cup queue
<1> USE DEF IInv
<1>0. toCoord[u] \in Seq(Message) /\ toWorker[u] \in Seq(SUBSET SCC)
  BY DEF Typed
<1>1. CASE UNCHANGED <<toWorker, toCoord, batch>>
  BY <1>1 DEF Held, Requested
<1>2. CASE Notify
  <2>1. UNCHANGED <<toCoord, batch>> /\ toWorker'[u] = Append(toWorker[u], {}) /\ {} \in SUBSET SCC
    BY <1>2 DEF Notify, workerVars
  <2>2. Requested(u)' \subseteq Requested(u)
    BY <1>0, <2>1, AppendOne DEF Requested
  <2>3. QED
    BY <2>1, <2>2 DEF Held
<1>3. ASSUME NEW R \in SUBSET Worker, Receive(R) PROVE Held(u)' \subseteq Held(u)
  <2>1. /\ UNCHANGED <<toWorker, batch>>
        /\ toCoord'[u] = IF u \in R THEN Tail(toCoord[u]) ELSE toCoord[u]
        /\ u \in R => toCoord[u] # <<>>
    BY <1>3 DEF Receive, workerVars, Readable
  <2>2. \A i \in DOMAIN toCoord'[u] : \E j \in DOMAIN toCoord[u] : toCoord'[u][i] = toCoord[u][j]
    BY <1>0, <2>1, SeqFacts
  <2>3. QED
    BY <2>1, <2>2 DEF Held, Requested
<1>4. ASSUME NEW w \in Worker, SendBatch(w) PROVE Held(u)' \subseteq Held(u) \cup queue
  <2>1. UNCHANGED <<toCoord, batch>> /\ Requested(w)' \subseteq queue
        /\ \A v \in Worker : v # w => toWorker'[v] = toWorker[v]
    BY <1>4, BatchFacts DEF workerVars
  <2>2. Requested(u)' \subseteq Requested(u) \cup queue
    BY <2>1 DEF Requested
  <2>3. QED
    BY <2>1, <2>2 DEF Held
<1>5. ASSUME NEW w \in Worker, ReceiveRequest(w) PROVE Held(u)' \subseteq Held(u)
  <2>1. PICK B \in SUBSET Requested(w) :
          /\ batch' = [batch EXCEPT ![w] = B] /\ toCoord' = toCoord /\ Requested(w)' = {}
          /\ \A v \in Worker : v # w => toWorker'[v] = toWorker[v]
    BY <1>5, RequestFacts
  <2>2. batch' [u] \subseteq Held(u)
    BY <2>1 DEF Held, Typed
  <2>3. Requested(u)' \subseteq Requested(u)
    BY <2>1 DEF Requested
  <2>4. QED
    BY <2>1, <2>2, <2>3 DEF Held
<1>6. ASSUME NEW w \in Worker, Answering(w) PROVE Held(u)' \subseteq Held(u)
  <2>1. PICK m \in Message : Sends(w, m)
    BY <1>6, AnsweringSends
  <2>2. UNCHANGED <<toWorker, batch>> /\ m \in Message
    BY <1>6, <2>1, AnsweringFrame
  <2>3. CASE u = w
    <3>1. toCoord'[w] = toCoord[w] \/ toCoord'[w] = Append(toCoord[w], m)
      BY <2>1 DEF Sends, Typed
    <3>2. \A i \in DOMAIN toCoord'[w] :
            toCoord'[w][i] = m \/ (i \in DOMAIN toCoord[w] /\ toCoord'[w][i] = toCoord[w][i])
      BY <1>0, <2>2, <2>3, <3>1, AppendOne
    <3>3. m.sccs = batch[w]
      BY <2>1 DEF Sends
    <3>4. QED
      BY <2>2, <2>3, <3>2, <3>3 DEF Held, Requested
  <2>4. CASE u # w
    BY <2>1, <2>2, <2>4 DEF Sends, Typed, Held, Requested
  <2>5. QED
    BY <2>3, <2>4
<1>7. ASSUME NEW w \in Worker, Stopping(w) PROVE Held(u)' \subseteq Held(u)
  BY <1>7, StoppingFrame DEF Held, Requested
<1>8. ASSUME NEW w \in Worker, NEW s \in SCC, CheckImplementation(w, s) \/ \E h \in Hash : CheckInterface(w, s, h)
      PROVE  Held(u)' \subseteq Held(u)
  BY <1>8 DEF CheckImplementation, CheckInterface, Held, Requested
<1>9. CASE Deciding \/ UNCHANGED vars
  BY <1>1, <1>9, DecidingFrame DEF vars, workerVars
<1>10. QED
  BY <1>1, <1>2, <1>3, <1>4, <1>5, <1>6, <1>7, <1>8, <1>9, Kinds

\* What is queued has been found stale first.
LEMMA QueueFlow ==
  ASSUME IInv, [Next]_vars
  PROVE  /\ rechecked \subseteq rechecked' /\ queue' \subseteq queue \cup rechecked'
         /\ rechecked' = rechecked \/ (FindStale /\ rechecked' \ rechecked \subseteq ready)
<1> USE DEF coordVars
<1>1. CASE FindStale
  BY <1>1 DEF FindStale
<1>2. CASE SkipFresh \/ StartWaiting \/ EndSubmitStale \/ ReceiveFailure \/ EndSubmitMore \/ Finish \/ BuildReturns
           \/ KillCoordinator
  BY <1>2 DEF SkipFresh, StartWaiting, EndSubmitStale, ReceiveFailure, EndSubmitMore, Finish, BuildReturns,
              KillCoordinator
<1>3. ASSUME NEW w \in Worker, SendFails(w) \/ Close(w) \/ SendBatch(w)
      PROVE  rechecked' = rechecked /\ queue' \subseteq queue
  BY <1>3, BatchFacts DEF SendFails, Close, Batches
<1>4. CASE Notify \/ (\E R \in SUBSET Worker : Receive(R)) \/ UNCHANGED vars
  BY <1>4 DEF Notify, Receive, vars
<1>5. ASSUME NEW w \in Worker, ReceiveRequest(w) \/ Answering(w) \/ Stopping(w)
      PROVE  UNCHANGED <<rechecked, queue>>
  BY <1>5, AnsweringFrame, StoppingFrame DEF ReceiveRequest, IInv
<1>6. ASSUME NEW w \in Worker, NEW s \in SCC, CheckImplementation(w, s) \/ \E h \in Hash : CheckInterface(w, s, h)
      PROVE  UNCHANGED <<rechecked, queue>>
  BY <1>6 DEF CheckImplementation, CheckInterface
<1>7. QED
  BY <1>1, <1>2, <1>3, <1>4, <1>5, <1>6, Kinds DEF Deciding

LEMMA CacheFrame ==
  ASSUME IInv, [Next]_vars
  PROVE  UNCHANGED <<inherent, depHash>>
<1> USE DEF cacheVars
<1>1. CASE Notify \/ (\E R \in SUBSET Worker : Receive(R)) \/ UNCHANGED vars
  BY <1>1 DEF Notify, Receive, vars
<1>2. ASSUME NEW w \in Worker, SendBatch(w) \/ ReceiveRequest(w) \/ Answering(w) \/ Stopping(w)
      PROVE  UNCHANGED <<inherent, depHash>>
  BY <1>2, AnsweringFrame, StoppingFrame DEF SendBatch, ReceiveRequest, IInv
<1>3. ASSUME NEW w \in Worker, NEW s \in SCC, CheckImplementation(w, s) \/ \E h \in Hash : CheckInterface(w, s, h)
      PROVE  UNCHANGED <<inherent, depHash>>
  BY <1>3 DEF CheckImplementation, CheckInterface
<1>4. QED
  BY <1>1, <1>2, <1>3, Kinds, DecidingFrame

\* The coordinator finds something done in few places.
LEMMA DoneChange ==
  ASSUME IInv, [Next]_vars
  PROVE  \/ UNCHANGED <<done, doneNow>>
         \/ FindStale \/ SkipFresh \/ EndSubmitStale \/ EndSubmitMore
         \/ \E R \in SUBSET Worker : Receive(R)
<1> USE DEF coordVars, loopVars
<1>1. CASE StartWaiting \/ ReceiveFailure \/ Finish \/ BuildReturns \/ KillCoordinator \/ Notify \/ UNCHANGED vars
  BY <1>1 DEF StartWaiting, ReceiveFailure, Finish, BuildReturns, KillCoordinator, Notify, vars
<1>2. ASSUME NEW w \in Worker, \/ SendFails(w) \/ Close(w) \/ SendBatch(w) \/ ReceiveRequest(w)
                               \/ Answering(w) \/ Stopping(w)
      PROVE  UNCHANGED <<done, doneNow>>
  BY <1>2, AnsweringFrame, StoppingFrame DEF SendFails, Close, SendBatch, ReceiveRequest, IInv
<1>3. ASSUME NEW w \in Worker, NEW s \in SCC, CheckImplementation(w, s) \/ \E h \in Hash : CheckInterface(w, s, h)
      PROVE  UNCHANGED <<done, doneNow>>
  BY <1>3 DEF CheckImplementation, CheckInterface
<1>4. QED
  BY <1>1, <1>2, <1>3, Kinds DEF Deciding

LEMMA JustifiedStep ==
  ASSUME IInv, MemInv, TrustInv, [Next]_vars
  PROVE  AllJustified'
<1> SUFFICES ASSUME NEW s \in (done' \cup doneNow') \ rechecked' PROVE Justified(s)'
  BY DEF AllJustified
<1> USE DEF TrustInv
<1>1. /\ done \subseteq done' /\ rechecked \subseteq rechecked' /\ UNCHANGED <<inherent, depHash>>
      /\ \A d \in done : hash'[d] = hash[d]
  BY ListFlow, QueueFlow, CacheFrame, FinalStep
<1>2. Justified(s) => Justified(s)'
  BY <1>1 DEF Justified
<1>3. CASE s \in done \cup doneNow
  BY <1>1, <1>2, <1>3 DEF AllJustified
<1>4. CASE s \notin done \cup doneNow /\ s \in Pending
  <2>1. cpc = "loop" /\ s \in ready
    BY <1>4 DEF Pending
  <2>2. FindStale \/ SkipFresh
    BY <1>4, <2>1, DoneChange DEF EndSubmitStale, EndSubmitMore, Receive
  <2>3. Fresh(s)
    BY <2>1, <2>2 DEF FindStale, SkipFresh
  <2>4. /\ s \in SCC /\ Deps[s] \subseteq done /\ done \in SUBSET SCC
        /\ \A t \in done : Deps[t] \subseteq done
    BY <1>4, <2>1 DEF IInv, Grounded, Typed
  <2>5. Justified(s)
    BY <2>3, <2>4, FreshGrounded DEF Justified
  <2>6. QED
    BY <1>2, <2>5
<1>5. CASE s \notin done \cup doneNow \cup Pending
  <2>1. PICK R \in SUBSET Worker : Receive(R) /\ s \in doneNow'
    BY <1>5, ListFlow
  <2>2. doneNow' \subseteq SCC
    BY NextInv DEF IInv, Typed
  <2>3. \E w \in Worker : s \in Answered(w)
    BY <2>1, <2>2, ReceiveHashes DEF MemInv
  <2>4. s \in rechecked
    BY <2>3 DEF AllRechecked, Held, Answered
  <2>5. QED
    BY <1>1, <2>4
<1>6. QED
  BY <1>3, <1>4, <1>5

LEMMA TrustStep ==
  ASSUME IInv, MemInv, TrustInv, [Next]_vars
  PROVE  TrustInv'
<1> USE DEF TrustInv
<1>1. FromCache'
  BY CacheFrame DEF FromCache, Indirect
<1>2. AllRechecked'
  <2>1. rechecked \subseteq rechecked' /\ queue' \subseteq rechecked'
    BY QueueFlow DEF AllRechecked
  <2>2. \A w \in Worker : Held(w)' \subseteq rechecked'
    BY <2>1, HeldFlow DEF AllRechecked
  <2>3. ASSUME NEW R \in SUBSET Worker, Receive(R) PROVE reported' \subseteq rechecked
    <3>1. R \subseteq Readable
      BY <2>3 DEF Receive
    <3>2. ASSUME NEW w \in R PROVE Head(toCoord[w]).sccs \subseteq rechecked
      <4>1. w \in Worker /\ toCoord[w] \in Seq(Message) /\ toCoord[w] # <<>>
        BY <3>1 DEF Readable, IInv, Typed
      <4>2. 1 \in DOMAIN toCoord[w] /\ Head(toCoord[w]) = toCoord[w][1]
        BY <4>1, SeqFacts
      <4>3. Head(toCoord[w]).sccs \subseteq Held(w)
        BY <4>2 DEF Held
      <4>4. QED
        BY <4>1, <4>3 DEF AllRechecked
    <3>3. QED
      BY <2>3, <3>2 DEF Receive, AllRechecked
  <2>4. QED
    BY <2>1, <2>2, <2>3, HashChange DEF AllRechecked
<1>3. QED
  BY <1>1, <1>2, PhasesStep, JustifiedStep

LEMMA InitTrust == Init => TrustInv
<1> SUFFICES ASSUME Init PROVE TrustInv
  OBVIOUS
<1>1. /\ cpc = "loop" /\ outcome = "running" /\ stillWorking = FALSE
      /\ doneNow = {} /\ done = {} /\ rechecked = {} /\ reported = {} /\ queue = {} /\ free = Worker
      /\ toWorker = [w \in Worker |-> <<>>] /\ toCoord = [w \in Worker |-> <<>>]
      /\ batch = [w \in Worker |-> {}]
  BY DEF Init
<1>2. FromCache
  <2>1. \A s \in SCC : Deps[s] # OldDeps[s] => s \in inherent
    BY DEF Init
  <2>2. \A s \in SCC \ inherent : Indirect(s) \subseteq TransDeps(OldDeps, s)
    BY DEF Init
  <2>3. QED
    BY <2>1, <2>2 DEF FromCache
<1>3. AllRechecked
  BY <1>1 DEF AllRechecked, Held, Requested
<1>4. Phases /\ AllJustified
  BY <1>1 DEF Phases, Left, AllJustified
<1>5. QED
  BY <1>2, <1>3, <1>4 DEF TrustInv

LEMMA AlwaysTrustInv == Spec => [](IInv /\ MemInv /\ TrustInv)
<1>1. IInv /\ MemInv /\ TrustInv /\ [Next]_vars => TrustInv'
  BY TrustStep
<1>2. QED
  BY InitTrust, AlwaysMemInv, <1>1, PTL DEF Spec

\* A module taken over from the cache stays justified to the end of the build:
\* find_stale_sccs and verify_transitive_deps are enough, for every import graph,
\* every change of imports since the cache was written and every order of answers.
THEOREM AlwaysFreshIsJustified == Spec => []FreshIsJustified
<1>1. TrustInv => FreshIsJustified
  BY DEF TrustInv, AllJustified, Justified, FreshIsJustified
<1>2. QED
  BY AlwaysTrustInv, <1>1, PTL

(***************************************************************************)
(* The invariant about the end of a build: part three.                     *)
(***************************************************************************)
\* A worker that was given something will say nothing more.
Perished == \E w \in Worker \ free : wpc[w] = "dead" /\ toCoord[w] = <<>>

\* What a worker has been given and has not given an account of.
Given(w) == Requested(w) \cup (IF wpc[w] \in {"interface", "implementation"} THEN batch[w] ELSE {})
            \cup UNION {toCoord[w][i].sccs : i \in DOMAIN toCoord[w]}

\* While the loop runs no SCC gets lost, and neither do diagnostics, unless a
\* worker has died on them.
Placed    == SCC \subseteq Waiting \cup doneNow \cup done \cup UNION {Owned(w) : w \in Worker}
Accounted == rechecked \ reported \subseteq queue \cup UNION {Given(w) : w \in Worker \ free}
NothingLost == Left \/ Perished \/ (Placed /\ Accounted)

\* An implementation is only checked, and answered, after the answer about the
\* interface, and one follows the other.
InOrder(w) ==
  /\ (\A i \in DOMAIN toCoord[w] : ~toCoord[w][i].isInterface) /\ (wpc[w] = "implementation" \/ toCoord[w] # <<>>)
       => batch[w] \subseteq done \cup doneNow
  /\ Len(toCoord[w]) = 1 /\ toCoord[w][1].isInterface /\ ~toCoord[w][1].blocker
       => wpc[w] \in {"implementation", "dead"}

AnswerOrder == Ending \/ \A w \in Worker : InOrder(w)

\* A build that went well has nothing left to do.
GoodEnd ==
  outcome = "ok" =>
    /\ done = SCC /\ reported = rechecked
    /\ \A w \in Worker : /\ toCoord[w] = <<>> /\ wpc[w] \notin {"interface", "implementation"}
                         /\ \A i \in DOMAIN toWorker[w] : toWorker[w][i] = {}

EndInv == NothingLost /\ AnswerOrder /\ GoodEnd

LEMMA PerishedStays ==
  ASSUME IInv, [Next]_vars, Perished
  PROVE  Perished' \/ Left'
<1>1. PICK w \in Worker : w \notin free /\ wpc[w] = "dead" /\ toCoord[w] = <<>>
  BY DEF Perished
<1>2. ASSUME w \notin free', wpc'[w] = "dead", toCoord'[w] = <<>> PROVE Perished'
  BY <1>2 DEF Perished
<1>3. ASSUME UNCHANGED <<free, wpc, toCoord>> PROVE Perished'
  BY <1>1, <1>2, <1>3
<1>4. CASE Deciding
  <2>1. UNCHANGED <<wpc, toCoord>>
    BY <1>4, DecidingFrame
  <2>2. free' \subseteq free
    BY <1>4 DEF Deciding, FindStale, SkipFresh, StartWaiting, EndSubmitStale, ReceiveFailure, EndSubmitMore,
                Finish, BuildReturns, KillCoordinator, SendFails, Close
  <2>3. QED
    BY <1>1, <1>2, <2>1, <2>2
<1>5. CASE Notify
  BY <1>5 DEF Notify, Left
<1>6. ASSUME NEW R \in SUBSET Worker, Receive(R) PROVE Perished'
  <2>1. w \notin R
    BY <1>1, <1>6 DEF Receive, Readable
  <2>2. free' \subseteq free \cup R /\ toCoord'[w] = toCoord[w] /\ wpc' = wpc
    BY <1>6, <2>1 DEF Receive, workerVars
  <2>3. QED
    BY <1>1, <1>2, <2>1, <2>2
<1>7. ASSUME NEW v \in Worker, SendBatch(v) PROVE Perished'
  BY <1>1, <1>2, <1>7 DEF SendBatch, workerVars
<1>8. ASSUME NEW v \in Worker, ReceiveRequest(v) PROVE Perished'
  <2>1. v # w /\ UNCHANGED <<free, toCoord>> /\ wpc'[w] = wpc[w]
    BY <1>1, <1>8 DEF ReceiveRequest, coordVars, IInv, Typed
  <2>2. QED
    BY <1>1, <1>2, <2>1
<1>9. ASSUME NEW v \in Worker, Answering(v) PROVE Perished'
  <2>1. PICK m \in Message : Sends(v, m)
    BY <1>9, AnsweringSends DEF IInv
  <2>2. v # w /\ wpc'[w] = wpc[w] /\ toCoord'[w] = toCoord[w]
    BY <1>1, <2>1 DEF Sends, IInv, Typed
  <2>3. free' = free
    BY <1>9, AnsweringFrame DEF coordVars
  <2>4. QED
    BY <1>1, <1>2, <2>2, <2>3
<1>10. ASSUME NEW v \in Worker, Stopping(v) PROVE Perished'
  <2>1. v # w /\ UNCHANGED <<free, toCoord>> /\ wpc'[w] = wpc[w]
    BY <1>1, <1>10, StoppingFrame DEF coordVars, IInv
  <2>2. QED
    BY <1>1, <1>2, <2>1
<1>11. ASSUME NEW v \in Worker, NEW s \in SCC, CheckImplementation(v, s) \/ \E h \in Hash : CheckInterface(v, s, h)
       PROVE  Perished'
  BY <1>3, <1>11 DEF CheckImplementation, CheckInterface, coordVars
<1>12. CASE UNCHANGED vars
  BY <1>3, <1>12 DEF vars, coordVars, workerVars
<1>13. QED
  BY <1>4, <1>5, <1>6, <1>7, <1>8, <1>9, <1>10, <1>11, <1>12, Kinds

\* A worker with an unread answer has given account of all it holds.
LEMMA Unread ==
  ASSUME IInv, Answers, ~Ending, NEW w \in Worker, toCoord[w] # <<>>
  PROVE  /\ toCoord[w] \in Seq(Message) /\ 1 \in DOMAIN toCoord[w] /\ Head(toCoord[w]) = toCoord[w][1]
         /\ toCoord[w][1].sccs = batch[w]
         /\ w \notin free /\ wpc[w] # "interface" /\ Requested(w) = {}
         /\ Given(w) \subseteq batch[w]
         /\ Owned(w) \subseteq batch[w]
         /\ ~toCoord[w][1].isInterface => Owned(w) = {} /\ Tail(toCoord[w]) = <<>> /\ wpc[w] \in {"idle", "dead"}
<1> USE DEF IInv
<1>1. toCoord[w] \in Seq(Message) /\ 1 \in DOMAIN toCoord[w] /\ Head(toCoord[w]) = toCoord[w][1]
  BY SeqFacts DEF Typed
<1>2. \A i \in DOMAIN toCoord[w] : toCoord[w][i].sccs = batch[w]
  BY DEF Answers, AnswerOf
<1>3. StageOf(w)
  BY DEF OneStage
<1>4. w \notin free /\ wpc[w] # "interface" /\ \A i \in DOMAIN toWorker[w] : FALSE
  BY <1>3 DEF StageOf, Ending
<1>5. Requested(w) = {} /\ Checking(w) = {}
  BY <1>4 DEF Requested, Checking
<1>6. Given(w) \subseteq batch[w] /\ Owned(w) = Answered(w) /\ Answered(w) \subseteq batch[w]
  BY <1>2, <1>5 DEF Given, Owned, Answered
<1>7. ASSUME ~toCoord[w][1].isInterface
      PROVE  Answered(w) = {} /\ Tail(toCoord[w]) = <<>> /\ wpc[w] \in {"idle", "dead"}
  <2>1. \A i \in DOMAIN toCoord[w] : ~toCoord[w][i].isInterface
    BY <1>3, <1>7 DEF StageOf
  <2>2. 1 = Len(toCoord[w]) /\ wpc[w] \in {"idle", "exited", "dead"}
    BY <1>1, <1>3, <1>7 DEF StageOf
  <2>3. Tail(toCoord[w]) = <<>>
    BY <1>1, <2>2, SeqFacts
  <2>4. wpc[w] # "exited"
    BY DEF OpenUntilEnd, Ending
  <2>5. QED
    BY <2>1, <2>2, <2>3, <2>4 DEF Answered
<1>8. QED
  BY <1>1, <1>2, <1>4, <1>5, <1>6, <1>7

\* What u holds stays in someone's books.
Kept(u) ==
  /\ Owned(u) \subseteq Owned(u)' \cup doneNow'
  /\ u \notin free => \/ Given(u) \subseteq reported'
                      \/ u \notin free' /\ Given(u) \subseteq Given(u)'

LEMMA ReceiveKept ==
  ASSUME IInv, Answers, AnswerOrder, ~Ending, NEW R \in SUBSET Worker, Receive(R), ~Perished', NEW u \in Worker
  PROVE  Kept(u)
<1> DEFINE iface == {w \in R : Head(toCoord[w]).isInterface}
<1>1. /\ free' = free \cup (R \ iface)
      /\ reported' = reported \cup UNION {Head(toCoord[w]).sccs : w \in R \ iface}
      /\ doneNow' = UNION {Head(toCoord[w]).sccs : w \in iface}
      /\ toCoord' = [w \in Worker |-> IF w \in R THEN Tail(toCoord[w]) ELSE toCoord[w]]
      /\ R \subseteq Readable \ Blocking
  BY DEF Receive
<1>2. UNCHANGED <<toWorker, wpc, batch>>
  BY DEF Receive, workerVars
<1>3. CASE u \notin R
  <2>1. toCoord'[u] = toCoord[u] /\ (u \notin free => u \notin free')
    BY <1>1, <1>3
  <2>2. QED
    BY <1>2, <2>1 DEF Kept, Owned, Given, Requested, Checking, Answered
<1>4. CASE u \in R
  <2>0. toCoord[u] # <<>> /\ ~Head(toCoord[u]).blocker /\ toCoord'[u] = Tail(toCoord[u])
    BY <1>1, <1>4 DEF Readable, Blocking
  <2>1. /\ toCoord[u] \in Seq(Message) /\ 1 \in DOMAIN toCoord[u] /\ Head(toCoord[u]) = toCoord[u][1]
        /\ toCoord[u][1].sccs = batch[u]
        /\ u \notin free /\ wpc[u] # "interface"
        /\ Given(u) \subseteq batch[u] /\ Owned(u) \subseteq batch[u]
        /\ ~toCoord[u][1].isInterface => Owned(u) = {}
    BY <2>0, Unread
  <2>2. CASE u \notin iface
    BY <1>1, <1>4, <2>1, <2>2 DEF Kept
  <2>3. CASE u \in iface
    <3>1. Owned(u) \subseteq doneNow' /\ u \notin free'
      BY <1>1, <2>1, <2>3
    <3>2. toCoord[u][1].isInterface /\ ~toCoord[u][1].blocker
      BY <2>0, <2>1, <2>3
    <3>3. CASE Len(toCoord[u]) = 1
      <4>1. toCoord'[u] = <<>>
        BY <2>0, <2>1, <3>3, SeqFacts
      <4>2. wpc[u] \in {"implementation", "dead"}
        BY <3>2, <3>3 DEF AnswerOrder, InOrder
      <4>3. wpc'[u] = "implementation"
        BY <1>2, <3>1, <4>1, <4>2 DEF Perished
      <4>4. batch[u] \subseteq Given(u)'
        BY <1>2, <4>3 DEF Given
      <4>5. QED
        BY <2>1, <3>1, <4>4 DEF Kept
    <3>4. CASE Len(toCoord[u]) # 1
      <4>1. 2 \in DOMAIN toCoord[u]
        BY <2>0, <2>1, <3>4, SeqFacts
      <4>2. toCoord[u][2].sccs = batch[u]
        BY <4>1 DEF Answers, AnswerOf
      <4>3. 1 \in DOMAIN toCoord'[u] /\ toCoord'[u][1] = toCoord[u][2]
        <5>1. Len(toCoord[u]) \in Nat /\ DOMAIN Tail(toCoord[u]) = 1 .. Len(toCoord[u]) - 1
          BY <2>0, <2>1, SeqFacts
        <5>2. DOMAIN toCoord[u] = 1 .. Len(toCoord[u])
          BY <2>1, LenProperties
        <5>3. 1 \in DOMAIN Tail(toCoord[u])
          BY <4>1, <5>1, <5>2
        <5>4. QED
          BY <2>0, <2>1, <5>3, SeqFacts
      <4>4. batch[u] \subseteq Given(u)'
        BY <4>2, <4>3 DEF Given
      <4>5. QED
        BY <2>1, <3>1, <4>4 DEF Kept
    <3>5. QED
      BY <3>3, <3>4
  <2>4. QED
    BY <2>2, <2>3
<1>5. QED
  BY <1>3, <1>4

LEMMA WorkerKept ==
  ASSUME IInv, Answers, ~Ending, NEW w \in Worker, ReceiveRequest(w) \/ Answering(w) \/ Stopping(w),
         ~Perished', NEW u \in Worker
  PROVE  Kept(u)
<1> USE DEF IInv
<1>0. /\ closed = {} /\ toCoord[w] \in Seq(Message) /\ UNCHANGED <<free, reported, doneNow>>
  BY AnsweringFrame, StoppingFrame DEF OpenUntilEnd, Ending, Typed, ReceiveRequest, coordVars, loopVars
<1>1. CASE ReceiveRequest(w)
  <2>1. PICK B \in SUBSET SCC :
          /\ batch' = [batch EXCEPT ![w] = B]
          /\ wpc[w] = "idle"
          /\ wpc' = [wpc EXCEPT ![w] = IF B = {} THEN "exited" ELSE "interface"]
          /\ B # {} => toCoord[w] = <<>>
          /\ ~Ending => B # {}
          /\ Requested(w) = B
          /\ \A v \in Worker : v # w => toWorker'[v] = toWorker[v]
          /\ toCoord' = toCoord
    BY <1>1, RequestFacts
  <2>2. CASE u # w
    <3>1. toWorker'[u] = toWorker[u] /\ toCoord'[u] = toCoord[u] /\ wpc'[u] = wpc[u] /\ batch'[u] = batch[u]
      BY <2>1, <2>2 DEF Typed
    <3>2. QED
      BY <1>0, <3>1 DEF Kept, Owned, Given, Requested, Checking, Answered
  <2>3. CASE u = w
    <3>1. toCoord[w] = <<>> /\ wpc'[w] = "interface" /\ batch'[w] = B
      BY <2>1 DEF Typed
    <3>2. Given(w) = B /\ Owned(w) = B
      BY <2>1, <3>1 DEF Given, Owned, Checking, Answered
    <3>3. B \subseteq Given(w)' /\ B \subseteq Owned(w)'
      BY <3>1 DEF Given, Owned, Checking
    <3>4. QED
      BY <1>0, <2>3, <3>2, <3>3 DEF Kept
  <2>4. QED
    BY <2>2, <2>3
<1>2. CASE Answering(w)
  <2>1. PICK m \in Message : Sends(w, m)
    BY <1>2, AnsweringSends
  <2>2. UNCHANGED <<toWorker, batch>> /\ m \in Message
    BY <1>2, <2>1, AnsweringFrame
  <2>3. CASE u # w
    <3>1. toWorker'[u] = toWorker[u] /\ toCoord'[u] = toCoord[u] /\ wpc'[u] = wpc[u] /\ batch'[u] = batch[u]
      BY <2>1, <2>2, <2>3 DEF Sends, Typed
    <3>2. QED
      BY <1>0, <3>1 DEF Kept, Owned, Given, Requested, Checking, Answered
  <2>4. CASE u = w
    <3>1. toCoord'[w] = Append(toCoord[w], m)
      BY <1>0, <2>1 DEF Sends, Typed
    <3>2. /\ \A i \in DOMAIN toCoord[w] : i \in DOMAIN toCoord'[w] /\ toCoord'[w][i] = toCoord[w][i]
          /\ Len(toCoord[w]) + 1 \in DOMAIN toCoord'[w] /\ toCoord'[w][Len(toCoord[w]) + 1] = m
      BY <1>0, <2>2, <3>1, AppendFacts
    <3>3. m.sccs = batch[w] /\ (wpc[w] = "interface" => m.isInterface)
      BY <2>1 DEF Sends
    <3>4. Requested(w)' = Requested(w) /\ Answered(w) \subseteq Answered(w)'
      BY <2>2, <3>2 DEF Requested, Answered
    <3>5. Checking(w) \subseteq Answered(w)'
      BY <3>2, <3>3 DEF Checking, Answered
    <3>6. Given(w) \subseteq Given(w)'
      BY <3>2, <3>3, <3>4 DEF Given
    <3>7. QED
      BY <1>0, <2>4, <3>4, <3>5, <3>6 DEF Kept, Owned
  <2>5. QED
    BY <2>3, <2>4
<1>3. CASE Stopping(w)
  <2>1. /\ UNCHANGED <<toWorker, toCoord, batch>> /\ wpc'[w] = "dead"
        /\ \A v \in Worker : v # w => wpc'[v] = wpc[v]
    BY <1>0, <1>3, StoppingFrame
  <2>2. StageOf(w)
    BY DEF OneStage
  <2>3. CASE u # w
    BY <1>0, <2>1, <2>3 DEF Kept, Owned, Given, Requested, Checking, Answered
  <2>4. CASE u = w
    <3>1. wpc[w] = "interface" => toCoord[w] = <<>> /\ w \notin free
      BY <2>2 DEF StageOf, Ending
    <3>2. wpc[w] # "interface"
      BY <1>0, <2>1, <3>1 DEF Perished
    <3>3. Owned(w)' = Owned(w)
      BY <2>1, <3>2 DEF Owned, Requested, Checking, Answered
    <3>4. ASSUME wpc[w] = "implementation", w \notin free PROVE batch[w] \subseteq Given(w)'
      <4>1. toCoord[w] # <<>>
        BY <1>0, <2>1, <3>4 DEF Perished
      <4>2. 1 \in DOMAIN toCoord[w] /\ toCoord[w][1].sccs = batch[w]
        BY <4>1, Unread
      <4>3. QED
        BY <2>1, <4>2 DEF Given
    <3>5. w \notin free => Given(w) \subseteq Given(w)'
      BY <2>1, <3>2, <3>4 DEF Given, Requested
    <3>6. QED
      BY <1>0, <2>4, <3>3, <3>5 DEF Kept
  <2>5. QED
    BY <2>3, <2>4
<1>4. QED
  BY <1>1, <1>2, <1>3

\* What nobody was given yet stays on a list, or is given to somebody.
Listed == Waiting \cup doneNow \cup done

LEMMA ListedStays ==
  ASSUME IInv, Phases, [Next]_vars, ~Left', ~Left
  PROVE  /\ Listed \subseteq Listed' \cup UNION {Owned(w)' : w \in Worker}
         /\ rechecked' \subseteq rechecked \cup queue'
         /\ queue \subseteq queue' \cup UNION {Given(w)' : w \in Worker \ free'}
<1>1. ready \in SUBSET SCC /\ doneNow \in SUBSET SCC
  BY DEF IInv, Typed
<1>2. CASE FindStale
  BY <1>2 DEF FindStale, Phases, Listed, Waiting, Pending
<1>3. CASE SkipFresh
  <2>1. Advance(ready) /\ Pending = ready /\ doneNow = {} /\ UNCHANGED <<queue, rechecked>>
    BY <1>3 DEF SkipFresh, Pending, Phases
  <2>2. QED
    BY <1>1, <2>1, AdvanceFlow DEF Listed, Waiting
<1>4. CASE StartWaiting
  BY <1>4 DEF StartWaiting, loopVars, Listed, Waiting, Pending
<1>5. CASE EndSubmitStale
  <2>1. UNCHANGED <<queue, rechecked>> /\ Pending = {}
    BY <1>5 DEF EndSubmitStale, Pending
  <2>2. CASE doneNow # {}
    <3>1. Advance(doneNow)
      BY <1>5, <2>2 DEF EndSubmitStale
    <3>2. QED
      BY <1>1, <2>1, <3>1, AdvanceFlow DEF Listed, Waiting
  <2>3. CASE doneNow = {}
    BY <1>5, <2>1, <2>3 DEF EndSubmitStale, Listed, Waiting
  <2>4. QED
    BY <2>2, <2>3
<1>6. CASE EndSubmitMore
  <2>1. UNCHANGED <<queue, rechecked>> /\ Pending = {} /\ Advance(doneNow)
    BY <1>6 DEF EndSubmitMore, Pending
  <2>2. QED
    BY <1>1, <2>1, AdvanceFlow DEF Listed, Waiting
<1>7. CASE Deciding
  <2>1. ~(ReceiveFailure \/ Finish \/ BuildReturns \/ KillCoordinator \/ \E w \in Worker : SendFails(w) \/ Close(w))
    BY DEF Left, ReceiveFailure, Finish, BuildReturns, KillCoordinator, SendFails, Close, Leave
  <2>2. QED
    BY <1>2, <1>3, <1>4, <1>5, <1>6, <1>7, <2>1 DEF Deciding
<1>8. CASE Notify
  BY <1>8 DEF Notify, Left
<1>9. ASSUME NEW R \in SUBSET Worker, Receive(R)
      PROVE  Listed \subseteq Listed' /\ UNCHANGED <<queue, rechecked>>
  BY <1>9 DEF Receive, Phases, Listed, Waiting, Pending
<1>10. ASSUME NEW w \in Worker, SendBatch(w)
       PROVE  /\ Listed \subseteq Listed' \cup Owned(w)'
              /\ rechecked' = rechecked /\ w \notin free' /\ queue \subseteq queue' \cup Given(w)'
  <2>1. PICK B \in SUBSET queue :
          /\ queue' = queue \ B /\ w \in free /\ free' = free \ {w}
          /\ Requested(w)' = B
          /\ UNCHANGED <<cpc, loopVars, rechecked>>
    BY <1>10, BatchFacts
  <2>2. QED
    BY <2>1 DEF loopVars, Listed, Waiting, Pending, Owned, Given
<1>11. ASSUME UNCHANGED coordVars
       PROVE  Listed' = Listed /\ UNCHANGED <<queue, rechecked>>
  BY <1>11 DEF coordVars, loopVars, Listed, Waiting, Pending
<1>12. ASSUME NEW w \in Worker, \/ ReceiveRequest(w) \/ Answering(w) \/ Stopping(w)
                                \/ \E s \in SCC : CheckImplementation(w, s) \/ \E h \in Hash : CheckInterface(w, s, h)
       PROVE  UNCHANGED coordVars
  BY <1>12, AnsweringFrame, StoppingFrame DEF IInv, ReceiveRequest, CheckImplementation, CheckInterface
<1>13. CASE UNCHANGED vars
  BY <1>11, <1>13 DEF vars
<1>14. QED
  BY <1>7, <1>8, <1>9, <1>10, <1>11, <1>12, <1>13, Kinds

LEMMA AllKept ==
  ASSUME IInv, Answers, AnswerOrder, ~Left, [Next]_vars, ~Left', ~Perished', NEW u \in Worker
  PROVE  Kept(u)
<1>1. ~Ending
  BY DEF Left, Ending
<1>2. ASSUME UNCHANGED <<toWorker, toCoord, wpc, batch>>, free' \subseteq free PROVE Kept(u)
  BY <1>2 DEF Kept, Owned, Given, Requested, Checking, Answered
<1>3. CASE Deciding
  <2>1. free' \subseteq free
    BY <1>3 DEF Deciding, FindStale, SkipFresh, StartWaiting, EndSubmitStale, ReceiveFailure, EndSubmitMore,
                Finish, BuildReturns, KillCoordinator, SendFails, Close
  <2>2. QED
    BY <1>2, <1>3, <2>1, DecidingFrame
<1>4. CASE Notify
  BY <1>4 DEF Notify, Left
<1>5. ASSUME NEW R \in SUBSET Worker, Receive(R) PROVE Kept(u)
  BY <1>1, <1>5, ReceiveKept
<1>6. ASSUME NEW w \in Worker, SendBatch(w) PROVE Kept(u)
  <2>1. /\ w \in free /\ free' = free \ {w} /\ UNCHANGED <<toCoord, wpc, batch>> /\ Requested(w) = {}
        /\ \A v \in Worker : v # w => toWorker'[v] = toWorker[v]
    BY <1>6, BatchFacts DEF workerVars
  <2>2. Requested(u) \subseteq Requested(u)'
    BY <2>1 DEF Requested
  <2>3. QED
    BY <2>1, <2>2 DEF Kept, Owned, Given, Checking, Answered
<1>7. ASSUME NEW w \in Worker, ReceiveRequest(w) \/ Answering(w) \/ Stopping(w) PROVE Kept(u)
  BY <1>1, <1>7, WorkerKept
<1>8. ASSUME NEW w \in Worker, NEW s \in SCC, CheckImplementation(w, s) \/ \E h \in Hash : CheckInterface(w, s, h)
      PROVE  Kept(u)
  BY <1>2, <1>8 DEF CheckImplementation, CheckInterface, coordVars
<1>9. CASE UNCHANGED vars
  BY <1>2, <1>9 DEF vars, coordVars, workerVars
<1>10. QED
  BY <1>3, <1>4, <1>5, <1>6, <1>7, <1>8, <1>9, Kinds

LEMMA NothingLostStep ==
  ASSUME IInv, MemInv, TrustInv, EndInv, [Next]_vars
  PROVE  NothingLost'
<1> SUFFICES ASSUME ~Left', ~Perished' PROVE Placed' /\ Accounted'
  BY DEF NothingLost
<1>1. ~Left /\ Placed /\ Accounted /\ Answers /\ AnswerOrder /\ Phases
  BY EndingStays, PerishedStays DEF EndInv, NothingLost, MemInv, TrustInv
<1>2. \A u \in Worker : Kept(u)
  BY <1>1, AllKept
<1>3. /\ Listed \subseteq Listed' \cup UNION {Owned(w)' : w \in Worker}
      /\ rechecked' \subseteq rechecked \cup queue'
      /\ queue \subseteq queue' \cup UNION {Given(w)' : w \in Worker \ free'}
  BY <1>1, ListedStays
<1>4. Placed'
  <2> SUFFICES ASSUME NEW s \in SCC PROVE s \in Listed' \cup UNION {Owned(w)' : w \in Worker}
    BY DEF Placed, Listed
  <2>1. CASE s \in Listed
    BY <1>3, <2>1
  <2>2. CASE s \notin Listed
    <3>1. PICK w \in Worker : s \in Owned(w)
      BY <1>1, <2>2 DEF Placed, Listed
    <3>2. s \in Owned(w)' \cup doneNow'
      BY <1>2, <3>1 DEF Kept
    <3>3. QED
      BY <3>1, <3>2 DEF Listed
  <2>3. QED
    BY <2>1, <2>2
<1>5. reported \subseteq reported'
  <2>1. ASSUME NEW R \in SUBSET Worker, Receive(R) PROVE reported \subseteq reported'
    BY <2>1 DEF Receive
  <2>2. QED
    BY <2>1, HashChange
<1>6. Accounted'
  <2> SUFFICES ASSUME NEW s \in rechecked' \ reported'
               PROVE  s \in queue' \cup UNION {Given(w)' : w \in Worker \ free'}
    BY DEF Accounted
  <2>1. CASE s \notin rechecked \/ s \in queue
    BY <1>3, <2>1
  <2>2. CASE s \in rechecked \ queue
    <3>1. PICK w \in Worker \ free : s \in Given(w)
      BY <1>1, <1>5, <2>2 DEF Accounted
    <3>2. w \notin free' /\ s \in Given(w)'
      BY <1>2, <3>1 DEF Kept
    <3>3. QED
      BY <3>1, <3>2
  <2>3. QED
    BY <2>1, <2>2
<1>7. QED
  BY <1>4, <1>6

\* Nothing is done, or about to be, that does not stay so.
LEMMA DoneStays ==
  ASSUME IInv, Phases, [Next]_vars
  PROVE  done \cup doneNow \subseteq done' \cup doneNow'
<1>1. ready \in SUBSET SCC /\ doneNow \in SUBSET SCC
  BY DEF IInv, Typed
<1>2. CASE FindStale
  BY <1>2 DEF FindStale, Phases
<1>3. CASE SkipFresh
  BY <1>1, <1>3, AdvanceFlow DEF SkipFresh, Phases, Pending
<1>4. CASE EndSubmitStale
  BY <1>1, <1>4, AdvanceFlow DEF EndSubmitStale
<1>5. CASE EndSubmitMore
  BY <1>1, <1>5, AdvanceFlow DEF EndSubmitMore
<1>6. ASSUME NEW R \in SUBSET Worker, Receive(R) PROVE done \cup doneNow \subseteq done' \cup doneNow'
  BY <1>6 DEF Receive, Phases
<1>7. QED
  BY <1>2, <1>3, <1>4, <1>5, <1>6, DoneChange

\* What a worker's step or the coordinator's does to the order of answers.
LEMMA OrderStep ==
  ASSUME IInv, MemInv, TrustInv, AnswerOrder, [Next]_vars
  PROVE  AnswerOrder'
<1> SUFFICES ASSUME ~Ending', NEW u \in Worker PROVE InOrder(u)'
  BY DEF AnswerOrder
<1>1. ~Ending /\ InOrder(u) /\ Answers /\ Phases /\ closed = {}
  BY EndingStays DEF AnswerOrder, MemInv, TrustInv, IInv, OpenUntilEnd, Ending
<1>2. done \cup doneNow \subseteq done' \cup doneNow'
  BY <1>1, DoneStays
<1>3. toCoord[u] \in Seq(Message) /\ toCoord'[u] \in Seq(Message)
  BY NextInv DEF IInv, Typed
<1>4. ASSUME toCoord'[u] = toCoord[u], batch'[u] = batch[u], wpc'[u] \in {wpc[u], "dead"} PROVE InOrder(u)'
  BY <1>1, <1>2, <1>4 DEF InOrder
<1>5. ASSUME NEW R \in SUBSET Worker, Receive(R) PROVE InOrder(u)'
  <2> DEFINE iface == {w \in R : Head(toCoord[w]).isInterface}
  <2>1. /\ doneNow' = UNION {Head(toCoord[w]).sccs : w \in iface}
        /\ toCoord' = [w \in Worker |-> IF w \in R THEN Tail(toCoord[w]) ELSE toCoord[w]]
        /\ R \subseteq Readable \ Blocking
        /\ UNCHANGED <<wpc, batch>>
    BY <1>5 DEF Receive, workerVars
  <2>2. CASE u \notin R
    BY <1>4, <2>1, <2>2
  <2>3. CASE u \in R
    <3>1. toCoord[u] # <<>> /\ toCoord'[u] = Tail(toCoord[u])
      BY <2>1, <2>3 DEF Readable
    <3>2. /\ 1 \in DOMAIN toCoord[u] /\ Head(toCoord[u]) = toCoord[u][1] /\ toCoord[u][1].sccs = batch[u]
          /\ ~toCoord[u][1].isInterface => Tail(toCoord[u]) = <<>> /\ wpc[u] \in {"idle", "dead"}
      BY <1>1, <3>1, Unread
    <3>3. CASE toCoord[u][1].isInterface
      <4>1. batch[u] \subseteq doneNow'
        BY <2>1, <2>3, <3>2, <3>3
      <4>2. \A i \in DOMAIN toCoord'[u] : ~toCoord'[u][i].isInterface
        <5>1. \A i \in DOMAIN toCoord[u] : toCoord[u][i].isInterface => i = 1
          BY DEF IInv, OneStage, StageOf
        <5>2. QED
          <6> SUFFICES ASSUME NEW i \in DOMAIN Tail(toCoord[u]) PROVE ~Tail(toCoord[u])[i].isInterface
            BY <3>1
          <6>1. Tail(toCoord[u])[i] = toCoord[u][i + 1] /\ i + 1 \in DOMAIN toCoord[u] /\ i + 1 # 1
            BY <1>3, <3>1, SeqFacts
          <6>2. QED
            BY <5>1, <6>1
      <4>3. Len(toCoord'[u]) = 1 => 1 \in DOMAIN toCoord'[u]
        BY <1>3, LenProperties
      <4>4. QED
        BY <2>1, <4>1, <4>2, <4>3 DEF InOrder
    <3>4. CASE ~toCoord[u][1].isInterface
      <4>1. toCoord'[u] = <<>>
        BY <3>1, <3>2, <3>4
      <4>2. wpc'[u] # "implementation"
        BY <2>1, <3>2, <3>4
      <4>3. Len(toCoord'[u]) # 1
        BY <4>1
      <4>4. QED
        BY <4>1, <4>2, <4>3 DEF InOrder
    <3>5. QED
      BY <3>3, <3>4
  <2>4. QED
    BY <2>2, <2>3
<1>6. ASSUME NEW w \in Worker, ReceiveRequest(w) PROVE InOrder(u)'
  <2>1. PICK B \in SUBSET SCC :
          /\ batch' = [batch EXCEPT ![w] = B]
          /\ wpc' = [wpc EXCEPT ![w] = IF B = {} THEN "exited" ELSE "interface"]
          /\ B # {} => toCoord[w] = <<>>
          /\ ~Ending => B # {}
          /\ toCoord' = toCoord
    BY <1>6, RequestFacts
  <2>2. CASE u # w
    BY <1>4, <2>1, <2>2 DEF IInv, Typed
  <2>3. CASE u = w
    <3>1. B # {} /\ toCoord'[w] = <<>>
      BY <1>1, <2>1
    <3>2. wpc'[w] = "interface"
      BY <2>1, <3>1 DEF IInv, Typed
    <3>3. Len(toCoord'[w]) # 1
      BY <3>1
    <3>4. QED
      BY <2>3, <3>1, <3>2, <3>3 DEF InOrder
  <2>4. QED
    BY <2>2, <2>3
<1>7. ASSUME NEW w \in Worker, Answering(w) PROVE InOrder(u)'
  <2>1. PICK m \in Message : Sends(w, m)
    BY <1>7, AnsweringSends DEF IInv
  <2>2. m \in Message /\ batch' = batch
    BY <1>7, <2>1, AnsweringFrame
  <2>3. CASE u # w
    BY <1>4, <2>1, <2>2, <2>3 DEF Sends, IInv, Typed
  <2>4. CASE u = w
    <3>1. toCoord'[u] = Append(toCoord[u], m)
      BY <1>1, <2>1, <2>4 DEF Sends, IInv, Typed
    <3>2. /\ \A i \in DOMAIN toCoord[u] : i \in DOMAIN toCoord'[u] /\ toCoord'[u][i] = toCoord[u][i]
          /\ Len(toCoord[u]) + 1 \in DOMAIN toCoord'[u] /\ toCoord'[u][Len(toCoord[u]) + 1] = m
          /\ Len(toCoord'[u]) = Len(toCoord[u]) + 1 /\ Len(toCoord[u]) \in Nat
      BY <1>3, <2>2, <3>1, AppendFacts
    <3>3. CASE m.isInterface /\ ~m.blocker
      <4>1. wpc'[u] = "implementation"
        BY <1>1, <2>1, <2>4, <3>3 DEF Sends, IInv, Typed
      <4>2. QED
        BY <3>2, <3>3, <4>1 DEF InOrder
    <3>4. CASE m.isInterface /\ m.blocker
      <4>1. Len(toCoord'[u]) = 1 => toCoord'[u][1] = m
        BY <3>2
      <4>2. QED
        BY <3>2, <3>4, <4>1 DEF InOrder
    <3>5. CASE ~m.isInterface
      <4>1. wpc[u] = "implementation"
        BY <2>1, <2>4, <3>5 DEF Sends
      <4>2. Len(toCoord'[u]) = 1 => toCoord'[u][1] = m
        BY <3>2
      <4>3. (\A i \in DOMAIN toCoord'[u] : ~toCoord'[u][i].isInterface) => batch[u] \subseteq done \cup doneNow
        BY <1>1, <3>2, <4>1 DEF InOrder
      <4>4. QED
        BY <1>2, <2>2, <3>5, <4>2, <4>3 DEF InOrder
    <3>6. QED
      BY <3>3, <3>4, <3>5
  <2>5. QED
    BY <2>3, <2>4
<1>8. ASSUME NEW w \in Worker, Stopping(w) PROVE InOrder(u)'
  BY <1>1, <1>4, <1>8, StoppingFrame DEF IInv
<1>9. ASSUME NEW w \in Worker, NEW s \in SCC, CheckImplementation(w, s) \/ \E h \in Hash : CheckInterface(w, s, h)
      PROVE  InOrder(u)'
  BY <1>4, <1>9 DEF CheckImplementation, CheckInterface
<1>10. ASSUME NEW w \in Worker, SendBatch(w) PROVE InOrder(u)'
  BY <1>4, <1>10 DEF SendBatch, workerVars
<1>11. CASE Deciding \/ Notify \/ UNCHANGED vars
  BY <1>4, <1>11, DecidingFrame DEF Notify, vars, workerVars
<1>12. QED
  BY <1>5, <1>6, <1>7, <1>8, <1>9, <1>10, <1>11, Kinds

\* When the loop ends, nothing is left.
LEMMA FinishedWell ==
  ASSUME IInv, TrustInv, NothingLost, Finish
  PROVE  GoodEnd'
<1>1. /\ cpc = "loop" /\ ready = {} /\ notReady = {} /\ ~stillWorking
      /\ UNCHANGED <<done, reported, rechecked, toCoord, wpc, toWorker>>
  BY DEF Finish, MoreToDo, loopVars, workerVars
<1>2. queue = {} /\ free = Worker /\ doneNow = {}
  BY <1>1 DEF TrustInv, Phases
<1>3. Placed /\ Accounted
  BY <1>1, <1>2 DEF NothingLost, Left, Perished
<1>4. \A w \in Worker : toWorker[w] = <<>> /\ toCoord[w] = <<>> /\ wpc[w] \in {"idle", "dead"}
  BY <1>1, <1>2 DEF IInv, OneStage, StageOf
<1>5. \A w \in Worker : Owned(w) = {}
  <2>1. \A w \in Worker : Requested(w) = {} /\ Answered(w) = {}
    BY <1>4 DEF Requested, Answered
  <2>2. \A w \in Worker : Checking(w) = {}
    BY <1>4 DEF Checking
  <2>3. QED
    BY <2>1, <2>2 DEF Owned
<1>6. done = SCC
  <2>1. Waiting \cup doneNow = {}
    BY <1>1, <1>2 DEF Waiting, Pending
  <2>2. done \subseteq SCC
    BY DEF IInv, Typed
  <2>3. QED
    BY <1>3, <1>5, <2>1, <2>2 DEF Placed
<1>7. reported = rechecked
  BY <1>2, <1>3 DEF Accounted, TrustInv, AllRechecked
<1>8. QED
  BY <1>1, <1>4, <1>6, <1>7 DEF GoodEnd

LEMMA GoodEndStep ==
  ASSUME IInv, MemInv, TrustInv, EndInv, [Next]_vars
  PROVE  GoodEnd'
<1>1. Finish => GoodEnd'
  BY FinishedWell DEF EndInv
<1>2. ASSUME NEW w \in Worker, Answering(w) \/ Stopping(w)
      PROVE  UNCHANGED <<outcome, done, reported, rechecked, toWorker>>
  BY <1>2, AnsweringFrame, StoppingFrame DEF IInv, coordVars, loopVars
<1>3. outcome' = outcome \/ outcome' \in {"blocker", "crash"} \/ Finish
  <2>1. Deciding => outcome' = outcome \/ outcome' \in {"blocker", "crash"} \/ Finish
    BY DEF Deciding, FindStale, SkipFresh, StartWaiting, EndSubmitStale, ReceiveFailure,
           EndSubmitMore, BuildReturns, KillCoordinator, SendFails, Close, Leave
  <2>2. QED
    BY <1>2, <2>1, Kinds DEF Notify, Receive, SendBatch, ReceiveRequest, CheckInterface,
                             CheckImplementation, vars, coordVars
<1> SUFFICES ASSUME outcome = "ok" PROVE GoodEnd'
  BY <1>1, <1>3 DEF GoodEnd
<1>4. /\ Left /\ done = SCC /\ reported = rechecked
      /\ \A w \in Worker : /\ toCoord[w] = <<>> /\ wpc[w] \notin {"interface", "implementation"}
                           /\ \A i \in DOMAIN toWorker[w] : toWorker[w][i] = {}
  BY DEF EndInv, GoodEnd, TrustInv, Phases
<1>5. ASSUME UNCHANGED <<done, reported, rechecked, toCoord, wpc, toWorker>> PROVE GoodEnd'
  BY <1>4, <1>5 DEF GoodEnd
<1>6. CASE Deciding
  <2>1. BuildReturns \/ KillCoordinator \/ \E w \in Worker : Close(w)
    BY <1>4, <1>6 DEF Left, Deciding, FindStale, SkipFresh, StartWaiting, EndSubmitStale, ReceiveFailure,
                      EndSubmitMore, Finish, SendFails
  <2>2. UNCHANGED <<done, reported, rechecked>>
    BY <2>1 DEF BuildReturns, KillCoordinator, Close, loopVars
  <2>3. QED
    BY <1>5, <1>6, <2>2, DecidingFrame
<1>7. CASE Notify
  <2>1. /\ toWorker' = [w \in Worker |-> Append(toWorker[w], {})]
        /\ UNCHANGED <<done, reported, rechecked, toCoord, wpc>>
    BY <1>7 DEF Notify, loopVars, workerVars
  <2>2. ASSUME NEW w \in Worker, NEW i \in DOMAIN toWorker'[w] PROVE toWorker'[w][i] = {}
    <3>1. toWorker[w] \in Seq(SUBSET SCC) /\ {} \in SUBSET SCC /\ toWorker'[w] = Append(toWorker[w], {})
      BY <2>1 DEF IInv, Typed
    <3>2. i \in DOMAIN toWorker[w] \/ toWorker'[w][i] = {}
      BY <2>2, <3>1, AppendFacts
    <3>3. i \in DOMAIN toWorker[w] => toWorker'[w][i] = toWorker[w][i]
      BY <3>1, AppendFacts
    <3>4. QED
      BY <1>4, <3>2, <3>3
  <2>3. QED
    BY <1>4, <2>1, <2>2 DEF GoodEnd
<1>8. ASSUME NEW w \in Worker, ReceiveRequest(w) PROVE GoodEnd'
  <2>1. /\ toWorker[w] # <<>> /\ toWorker' = [toWorker EXCEPT ![w] = Tail(@)]
        /\ wpc' = [wpc EXCEPT ![w] = IF Head(toWorker[w]) = {} THEN "exited" ELSE "interface"]
        /\ UNCHANGED <<done, reported, rechecked, toCoord>>
    BY <1>8 DEF ReceiveRequest, coordVars, loopVars
  <2>2. toWorker \in [Worker -> Seq(SUBSET SCC)] /\ wpc \in [Worker -> {"idle", "interface", "implementation", "exited", "dead"}]
    BY DEF IInv, Typed
  <2>3. Head(toWorker[w]) = {}
    BY <1>4, <2>1, <2>2, SeqFacts
  <2>4. \A v \in Worker : wpc'[v] \notin {"interface", "implementation"}
    BY <1>4, <2>1, <2>2, <2>3
  <2>5. ASSUME NEW v \in Worker, NEW i \in DOMAIN toWorker'[v] PROVE toWorker'[v][i] = {}
    <3>1. CASE v = w
      <4>1. toWorker'[v] = Tail(toWorker[w]) /\ toWorker[w] \in Seq(SUBSET SCC)
        BY <2>1, <2>2, <3>1
      <4>2. toWorker'[v][i] = toWorker[w][i + 1] /\ i + 1 \in DOMAIN toWorker[w]
        BY <2>1, <2>5, <4>1, SeqFacts
      <4>3. QED
        BY <1>4, <4>2
    <3>2. CASE v # w
      BY <1>4, <2>1, <2>2, <2>5, <3>2
    <3>3. QED
      BY <3>1, <3>2
  <2>6. QED
    BY <1>4, <2>1, <2>4, <2>5 DEF GoodEnd
<1>9. ASSUME NEW w \in Worker, Stopping(w) PROVE GoodEnd'
  <2>1. /\ UNCHANGED <<toCoord, toWorker, done, reported, rechecked>>
        /\ \A v \in Worker : wpc'[v] \in {wpc[v], "exited", "dead"}
    BY <1>2, <1>9, StoppingFrame DEF IInv
  <2>2. QED
    BY <1>4, <2>1 DEF GoodEnd
<1>10. ASSUME NEW w \in Worker, \/ Answering(w)
                                \/ \E s \in SCC : CheckImplementation(w, s) \/ \E h \in Hash : CheckInterface(w, s, h)
       PROVE  FALSE
  BY <1>4, <1>10 DEF Answering, SendInterface, SendImplementation, InterfaceBlocker, ImplementationBlocker,
                     CheckInterface, CheckImplementation
<1>11. ~(\E R \in SUBSET Worker : Receive(R)) /\ ~(\E w \in Worker : SendBatch(w))
  BY <1>4 DEF Left, Receive, SendBatch
<1>12. CASE UNCHANGED vars
  BY <1>5, <1>12 DEF vars, coordVars, loopVars, workerVars
<1>13. QED
  BY <1>6, <1>7, <1>8, <1>9, <1>10, <1>11, <1>12, Kinds

LEMMA InitEnd == Init => EndInv
<1> SUFFICES ASSUME Init PROVE EndInv
  OBVIOUS
<1>1. /\ cpc = "loop" /\ outcome = "running" /\ done = {} /\ rechecked = {}
      /\ notReady = SCC \ ready /\ ready \subseteq SCC
      /\ wpc = [w \in Worker |-> "idle"] /\ toCoord = [w \in Worker |-> <<>>]
  BY DEF Init
<1>2. NothingLost
  BY <1>1 DEF NothingLost, Placed, Accounted, Waiting, Pending
<1>3. \A w \in Worker : Len(toCoord[w]) # 1
  BY <1>1
<1>4. AnswerOrder
  BY <1>1, <1>3 DEF AnswerOrder, InOrder
<1>5. QED
  BY <1>1, <1>2, <1>4 DEF EndInv, GoodEnd

LEMMA AlwaysEndInv == Spec => [](IInv /\ MemInv /\ TrustInv /\ EndInv)
<1>1. IInv /\ MemInv /\ TrustInv /\ EndInv /\ [Next]_vars => EndInv'
  BY NothingLostStep, OrderStep, GoodEndStep DEF EndInv
<1>2. QED
  BY InitEnd, AlwaysTrustInv, <1>1, PTL DEF Spec

\* A build that ends well has made every SCC final and flushed the diagnostics of
\* every SCC it rechecked, and no worker has work or an unread answer left that
\* build()'s finally clause would cut short: process_graph's loop condition and
\* still_working are enough, for every graph, number of workers and failure.
THEOREM AlwaysGoodBuildIsComplete == Spec => []GoodBuildIsComplete
<1>1. EndInv => GoodBuildIsComplete
  BY DEF EndInv, GoodEnd, GoodBuildIsComplete
<1>2. QED
  BY AlwaysEndInv, <1>1, PTL

(***************************************************************************)
(* The parallel build implements TopoBuild.                                *)
(***************************************************************************)
\* Notifying the dependents of D makes D final.
LEMMA AdvanceCompletes ==
  ASSUME IInv, outcome = "running", NEW D \in SUBSET SCC, D # {}, D \cap done = {},
         \A s \in D : Deps[s] \subseteq done, Advance(D), UNCHANGED <<outcome, rechecked, reported>>
  PROVE  Abstract!ANext
<1>1. done' = done \cup D /\ D \in SUBSET (SCC \ done)
  BY DEF Advance
<1>2. (done \ rechecked)' = (done \ rechecked) \cup (D \ rechecked)
  BY <1>1
<1>3. Abstract!Complete(D)
  BY <1>1, <1>2 DEF Abstract!Complete
<1>4. QED
  BY <1>1, <1>3 DEF Abstract!ANext

\* What is reported is final, and was rechecked.
LEMMA ReceiveReports ==
  ASSUME IInv, MemInv, TrustInv, EndInv, NEW R \in SUBSET Worker, Receive(R)
  PROVE  Abstract!ANext \/ UNCHANGED Abstract!avars
<1> DEFINE iface == {w \in R : Head(toCoord[w]).isInterface}
           X == UNION {Head(toCoord[w]).sccs : w \in R \ iface}
<1>1. cpc = "wait" /\ R \subseteq Readable /\ reported' = reported \cup X /\ UNCHANGED <<done, rechecked, outcome>>
  BY DEF Receive
<1>2. doneNow = {} /\ outcome = "running" /\ ~Ending
  BY <1>1 DEF TrustInv, Phases, Left, Ending
<1>3. ASSUME NEW w \in R \ iface PROVE Head(toCoord[w]).sccs \subseteq done \cap rechecked
  <2>1. w \in Worker /\ toCoord[w] # <<>> /\ ~Head(toCoord[w]).isInterface
    BY <1>1 DEF Readable
  <2>2. 1 \in DOMAIN toCoord[w] /\ Head(toCoord[w]) = toCoord[w][1] /\ toCoord[w][1].sccs = batch[w]
    BY <1>2, <2>1, Unread DEF MemInv
  <2>3. \A i \in DOMAIN toCoord[w] : ~toCoord[w][i].isInterface
    BY <2>1, <2>2 DEF IInv, OneStage, StageOf
  <2>4. batch[w] \subseteq done
    BY <1>2, <2>1, <2>3 DEF EndInv, AnswerOrder, InOrder
  <2>5. batch[w] \subseteq rechecked
    BY <2>1 DEF TrustInv, AllRechecked, Held
  <2>6. QED
    BY <2>2, <2>4, <2>5
<1>4. X \subseteq done \cap rechecked
  BY <1>3
<1> HIDE DEF X
<1>5. CASE X \subseteq reported
  BY <1>1, <1>5 DEF Abstract!avars
<1>6. CASE ~(X \subseteq reported)
  <2> DEFINE N == X \ reported
  <2>1. N # {} /\ N \in SUBSET (done \ ((done \ rechecked) \cup reported)) /\ reported' = reported \cup N
    BY <1>1, <1>4, <1>6
  <2>2. Abstract!Report(N)
    BY <1>1, <1>2, <2>1 DEF Abstract!Report
  <2>3. QED
    BY <2>1, <2>2 DEF Abstract!ANext
<1>7. QED
  BY <1>5, <1>6

\* A build that ends well does so with nothing left to check or report.
LEMMA FinishSucceeds ==
  ASSUME IInv, MemInv, TrustInv, EndInv, Finish
  PROVE  Abstract!ANext
<1>1. outcome = "running" /\ outcome' = "ok" /\ UNCHANGED <<done, rechecked, reported>>
  BY DEF Finish, Leave, TrustInv, Phases, Left, loopVars
<1>2. GoodEnd'
  BY FinishedWell DEF EndInv
<1>3. done = SCC /\ reported = rechecked
  BY <1>1, <1>2 DEF GoodEnd
<1>4. rechecked \subseteq SCC
  BY DEF IInv, Typed
<1>5. QED
  BY <1>1, <1>3, <1>4 DEF Abstract!ANext, Abstract!Succeed

LEMMA DecidingImplements ==
  ASSUME IInv, MemInv, TrustInv, EndInv, Deciding
  PROVE  Abstract!ANext \/ UNCHANGED Abstract!avars
<1>0. UNCHANGED reported /\ (~Left => outcome = "running") /\ ready \in SUBSET SCC /\ doneNow \in SUBSET SCC
  BY DecidingFrame DEF TrustInv, Phases, IInv, Typed
<1>1. CASE FindStale
  <2>1. /\ cpc = "loop" /\ UNCHANGED <<done, outcome>>
        /\ rechecked \subseteq rechecked' /\ rechecked' \subseteq rechecked \cup ready
    BY <1>1 DEF FindStale
  <2>2. ready \cap done = {}
    BY <2>1 DEF IInv, OnePlace, Pending
  <2>3. QED
    BY <1>0, <2>1, <2>2 DEF Abstract!avars
<1>2. CASE SkipFresh
  <2>1. cpc = "loop" /\ ready # {} /\ Advance(ready) /\ UNCHANGED <<outcome, rechecked>>
    BY <1>2 DEF SkipFresh
  <2>2. ready \cap done = {} /\ \A s \in ready : Deps[s] \subseteq done
    BY <2>1 DEF IInv, OnePlace, Grounded, Pending
  <2>3. QED
    BY <1>0, <2>1, <2>2, AdvanceCompletes DEF Left
<1>3. ASSUME Advance(doneNow), UNCHANGED <<outcome, rechecked>>, ~Left
      PROVE  Abstract!ANext \/ UNCHANGED Abstract!avars
  <2>1. doneNow \cap done = {} /\ \A s \in doneNow : Deps[s] \subseteq done
    BY DEF IInv, OnePlace, Grounded
  <2>2. CASE doneNow # {}
    BY <1>0, <1>3, <2>1, <2>2, AdvanceCompletes
  <2>3. CASE doneNow = {}
    BY <1>0, <1>3, <2>3 DEF Advance, Abstract!avars
  <2>4. QED
    BY <2>2, <2>3
<1>4. CASE EndSubmitStale
  <2>1. ~Left /\ UNCHANGED <<outcome, rechecked>>
    BY <1>4 DEF EndSubmitStale, Left
  <2>2. Advance(doneNow) \/ done' = done
    BY <1>4 DEF EndSubmitStale
  <2>3. QED
    BY <1>0, <1>3, <2>1, <2>2 DEF Abstract!avars
<1>5. CASE EndSubmitMore
  BY <1>3, <1>5 DEF EndSubmitMore, Left
<1>6. CASE ReceiveFailure \/ \E w \in Worker : SendFails(w)
  <2>1. outcome = "running" /\ outcome' \in {"blocker", "crash"} /\ UNCHANGED <<done, rechecked, reported>>
    BY <1>0, <1>6 DEF ReceiveFailure, SendFails, Leave, Left, loopVars
  <2>2. QED
    BY <2>1 DEF Abstract!ANext, Abstract!Abort
<1>7. CASE Finish
  BY <1>7, FinishSucceeds
<1>8. CASE StartWaiting \/ BuildReturns \/ KillCoordinator \/ \E w \in Worker : Close(w)
  BY <1>0, <1>8 DEF StartWaiting, BuildReturns, KillCoordinator, Close, loopVars, Abstract!avars
<1>9. QED
  BY <1>1, <1>2, <1>4, <1>5, <1>6, <1>7, <1>8 DEF Deciding

\* The parallel build implements the abstract one: for every import graph,
\* number of workers, cache, interleaving and failure, modules become final in
\* dependency order and once, are reported at most once and only when final,
\* and a build that ends well has left nothing unchecked or unreported.
THEOREM BuildImplementsTopoBuild == Spec => ImplementsTopoBuild
<1>1. Init => Abstract!AInit
  BY DEF Init, Abstract!AInit
<1>2. ASSUME IInv, MemInv, TrustInv, EndInv, [Next]_vars
      PROVE  [Abstract!ANext]_(Abstract!avars)
  <2>1. CASE Deciding
    BY <1>2, <2>1, DecidingImplements
  <2>2. ASSUME NEW R \in SUBSET Worker, Receive(R) PROVE Abstract!ANext \/ UNCHANGED Abstract!avars
    BY <1>2, <2>2, ReceiveReports
  <2>3. ASSUME UNCHANGED <<done, rechecked, reported, outcome>> PROVE UNCHANGED Abstract!avars
    BY <2>3 DEF Abstract!avars
  <2>4. CASE Notify
    BY <2>3, <2>4 DEF Notify, loopVars
  <2>5. ASSUME NEW w \in Worker, SendBatch(w) \/ ReceiveRequest(w) PROVE UNCHANGED Abstract!avars
    BY <2>3, <2>5 DEF SendBatch, ReceiveRequest, coordVars, loopVars
  <2>6. ASSUME NEW w \in Worker, Answering(w) \/ Stopping(w) PROVE UNCHANGED Abstract!avars
    BY <1>2, <2>3, <2>6, AnsweringFrame, StoppingFrame DEF IInv, coordVars, loopVars
  <2>7. ASSUME NEW w \in Worker, NEW s \in SCC, CheckImplementation(w, s) \/ \E h \in Hash : CheckInterface(w, s, h)
        PROVE  UNCHANGED Abstract!avars
    BY <2>3, <2>7 DEF CheckImplementation, CheckInterface, coordVars, loopVars
  <2>8. CASE UNCHANGED vars
    BY <2>3, <2>8 DEF vars, coordVars, loopVars
  <2>9. QED
    BY <1>2, <2>1, <2>2, <2>4, <2>5, <2>6, <2>7, <2>8, Kinds
<1>3. QED
  BY <1>1, <1>2, AlwaysEndInv, PTL DEF Spec, ImplementsTopoBuild, Abstract!ASpec

\* In every build, a final SCC only ever rests on final SCCs, and diagnostics are
\* reported for rechecked, final SCCs only: what TopoBuild promises is true of it.
THEOREM AlwaysGrounded == Spec => []Abstract!Grounded
<1>1. Abstract!AInit => Abstract!Grounded
  BY DEF Abstract!AInit, Abstract!Grounded
<1>2. ASSUME Abstract!Grounded, [Abstract!ANext]_(Abstract!avars)
      PROVE  Abstract!Grounded'
  <2>1. ASSUME NEW S \in SUBSET (SCC \ done), Abstract!Complete(S)
        PROVE  Abstract!Grounded'
    BY <1>2, <2>1 DEF Abstract!Grounded, Abstract!Complete
  <2>2. ASSUME NEW R \in SUBSET (done \ ((done \ rechecked) \cup reported)), Abstract!Report(R)
        PROVE  Abstract!Grounded'
    BY <1>2, <2>2 DEF Abstract!Grounded, Abstract!Report
  <2>3. CASE Abstract!Succeed
    BY <1>2, <2>3 DEF Abstract!Grounded, Abstract!Succeed
  <2>4. CASE Abstract!Abort
    BY <1>2, <2>4 DEF Abstract!Grounded, Abstract!Abort
  <2>5. CASE UNCHANGED Abstract!avars
    BY <1>2, <2>5 DEF Abstract!Grounded, Abstract!avars
  <2>6. QED
    BY <1>2, <2>1, <2>2, <2>3, <2>4, <2>5 DEF Abstract!ANext
<1>3. QED
  BY <1>1, <1>2, BuildImplementsTopoBuild, PTL DEF ImplementsTopoBuild, Abstract!ASpec
=============================================================================
