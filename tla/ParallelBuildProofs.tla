------------------------ MODULE ParallelBuildProofs -------------------------
(***************************************************************************)
(* Proofs about ParallelBuild, for every import graph, number of workers   *)
(* and cache.                                                              *)
(***************************************************************************)
EXTENDS ParallelBuild, FiniteSetTheorems, SequenceTheorems, TLAPS

(***************************************************************************)
(* The inductive invariant.  An SCC is in at most one place at a time:     *)
(* waiting for dependencies, ready, queued, with one worker, just done,    *)
(* done.                                                                   *)
(***************************************************************************)
Pending == IF cpc = "loop" THEN ready ELSE {}

Requested(w) == UNION {toWorker[w][i] : i \in DOMAIN toWorker[w]}
Checking(w)  == IF wpc[w] = "interface" THEN batch[w] ELSE {}
Answered(w)  == UNION {toCoord[w][i].sccs : i \in {j \in DOMAIN toCoord[w] : toCoord[w][j].isInterface}}
Owned(w)     == Requested(w) \cup Checking(w) \cup Answered(w)

\* The counters say how many dependencies are not final.
Counted ==
  /\ notReadyCount = [s \in SCC |-> Cardinality(Deps[s] \ done)]
  /\ notReady = {s \in SCC : ~(Deps[s] \subseteq done)}

\* Whatever has left notReady has its dependencies final.
Grounded ==
  /\ \A s \in Pending \cup doneNow \cup queue \cup done : Deps[s] \subseteq done
  /\ \A w \in Worker : \A s \in Owned(w) \cup batch[w] : Deps[s] \subseteq done

\* The coordinator's lists are disjoint, and from what the workers hold.
OnePlace ==
  /\ Pending \cap doneNow = {} /\ Pending \cap queue = {} /\ Pending \cap done = {}
  /\ doneNow \cap queue = {} /\ doneNow \cap done = {} /\ queue \cap done = {}
  /\ \A w \in Worker : Owned(w) \cap (Pending \cup doneNow \cup queue \cup done) = {}

\* No two workers hold the same SCC.
OneWorker == \A v, w \in Worker : v # w => Owned(v) \cap Owned(w) = {}

\* A worker holds one batch at a time, in one stage of its life.
StageOf(w) ==
  /\ \A i \in DOMAIN toWorker[w] :
       toWorker[w][i] # {} => i = 1 /\ wpc[w] \in {"idle", "dead"} /\ toCoord[w] = <<>>
  /\ cpc \notin {"closing", "returned", "killed"} => \A i \in DOMAIN toWorker[w] : toWorker[w][i] # {}
  /\ wpc[w] = "interface" => toCoord[w] = <<>>
  /\ wpc[w] = "implementation" => \A i \in DOMAIN toCoord[w] : i = 1 /\ toCoord[w][i].isInterface
  /\ \A i \in DOMAIN toCoord[w] : toCoord[w][i].isInterface => i = 1
  /\ \A i \in DOMAIN toCoord[w] : ~toCoord[w][i].isInterface
       => i = Len(toCoord[w]) /\ wpc[w] \in {"idle", "exited", "dead"}
  /\ w \in free /\ cpc \notin {"closing", "returned", "killed"}
       => toWorker[w] = <<>> /\ toCoord[w] = <<>> /\ wpc[w] \in {"idle", "dead"}

OneStage == \A w \in Worker : StageOf(w)

\* Nothing is closed, and no worker stops, before the end.
OpenUntilEnd ==
  cpc \notin {"closing", "returned", "killed"} => closed = {} /\ \A w \in Worker : wpc[w] # "exited"

IInv == Typed /\ OpenUntilEnd /\ Counted /\ Grounded /\ OnePlace /\ OneWorker /\ OneStage

(***************************************************************************)
(* Types.                                                                  *)
(***************************************************************************)
LEMMA InitTyped == Init => Typed
<1> SUFFICES ASSUME Init PROVE Typed
  OBVIOUS
<1>1. [SCC -> Recorded \cup {NoHash}] \subseteq [SCC -> Hash \cup {NoHash}]
  BY HashAssumption
<1>2. depHash \in [SCC -> [SCC -> Hash \cup {NoHash}]]
  BY <1>1 DEF Init
<1>3. store \in [SCC -> Hash \cup {NoHash}] /\ hash = store
  BY <1>1 DEF Init
<1>4. inherent \subseteq SCC
  BY DEF Init
<1>5. toWorker \in [Worker -> Seq(SUBSET SCC)] /\ toCoord \in [Worker -> Seq(Message)]
  BY DEF Init
<1>6. loaded \in [Worker -> [SCC -> Hash \cup {NoHash}]]
  BY DEF Init
<1>7. /\ cpc = "loop" /\ outcome = "running" /\ stillWorking = FALSE
      /\ ready \subseteq SCC /\ notReady \subseteq SCC /\ free = Worker
      /\ doneNow = {} /\ done = {} /\ rechecked = {} /\ reported = {} /\ queue = {} /\ closed = {}
  BY DEF Init
<1>8. /\ wpc = [w \in Worker |-> "idle"]
      /\ batch = [w \in Worker |-> {}] /\ todo = [w \in Worker |-> {}]
  BY DEF Init
<1> crashes \in 0 .. MaxCrashes /\ lost \in 0 .. MaxLost
  BY BoundAssumption DEF Init
<1>9. QED
  BY <1>2, <1>3, <1>4, <1>5, <1>6, <1>7, <1>8, Zenon DEF Typed

LEMMA RespondTyped ==
  ASSUME Typed, NEW w \in Worker, NEW m \in Message,
         NEW next \in {"idle", "implementation"}, Respond(w, m, next)
  PROVE  /\ toCoord' \in [Worker -> Seq(Message)]
         /\ wpc' \in [Worker -> {"idle", "interface", "implementation", "exited", "dead"}]
<1>1. toCoord[w] \in Seq(Message) /\ Append(toCoord[w], m) \in Seq(Message)
  BY DEF Typed
<1>2. QED
  BY <1>1 DEF Typed, Respond

LEMMA NextTyped == Typed /\ [Next]_vars => Typed'
<1> SUFFICES ASSUME Typed, [Next]_vars PROVE Typed'
  OBVIOUS
<1> USE DEF Typed, cacheVars, loopVars, workerVars, coordVars, faultVars
<1>1. CASE FindStale
  BY <1>1 DEF FindStale
<1>2. CASE SkipFresh
  BY <1>2 DEF SkipFresh, Advance
<1>3. CASE StartWaiting
  BY <1>3 DEF StartWaiting
<1>4. ASSUME NEW w \in Worker, SendBatch(w) PROVE Typed'
  BY <1>4 DEF SendBatch, Batches
<1>5. ASSUME NEW w \in Worker, SendFails(w) PROVE Typed'
  BY <1>5 DEF SendFails, Batches, Leave
<1>6. CASE EndSubmitStale
  BY <1>6 DEF EndSubmitStale, Advance
<1>7. CASE KillCoordinator
  BY <1>7, BoundAssumption DEF KillCoordinator
<1>8. ASSUME NEW R \in SUBSET Worker, Receive(R) PROVE Typed'
  <2> DEFINE iface == {w \in R : Head(toCoord[w]).isInterface}
             New(s) == {Head(toCoord[w]).result[s] : w \in iface} \ {NoHash}
  <2>1. \A w \in R : /\ w \in Worker
                           /\ Head(toCoord[w]) \in Message
                           /\ Tail(toCoord[w]) \in Seq(Message)
    BY <1>8 DEF Receive, Readable
  <2>2. \A w \in R : Head(toCoord[w]).sccs \subseteq SCC
    BY <2>1 DEF Message
  <2>3. \A w \in R, s \in SCC : Head(toCoord[w]).result[s] \in Hash \cup {NoHash}
    BY <2>1 DEF Message
  <2>4. \A s \in SCC : New(s) \subseteq Hash
    BY <2>3
  <2>5. hash' \in [SCC -> Hash \cup {NoHash}]
    <3>1. \A s \in SCC : New(s) # {} => (CHOOSE h \in New(s) : TRUE) \in Hash
      BY <2>4
    <3> HIDE DEF New
    <3>2. hash' = [s \in SCC |-> IF New(s) = {} THEN hash[s] ELSE CHOOSE h \in New(s) : TRUE]
      BY <1>8 DEF Receive, New
    <3>3. QED
      BY <3>1, <3>2
  <2>6. toCoord' \in [Worker -> Seq(Message)]
    BY <1>8, <2>1 DEF Receive
  <2>7. reported' \subseteq SCC /\ doneNow' \subseteq SCC /\ free' \subseteq Worker
    BY <1>8, <2>1, <2>2 DEF Receive
  <2>8. QED
    BY <1>8, <2>5, <2>6, <2>7 DEF Receive
<1>9. CASE ReceiveFailure
  BY <1>9 DEF ReceiveFailure, Leave
<1>10. CASE EndSubmitMore
  BY <1>10 DEF EndSubmitMore, Advance
<1>11. CASE Finish
  BY <1>11 DEF Finish, Leave
<1>12. CASE Notify
  BY <1>12 DEF Notify
<1>13. CASE BuildReturns
  BY <1>13 DEF BuildReturns
<1>14. ASSUME NEW w \in Worker, Close(w) \/ Terminate(w) PROVE Typed'
  BY <1>14 DEF Close, Terminate
<1>15. ASSUME NEW w \in Worker, ReceiveRequest(w) PROVE Typed'
  BY <1>15 DEF ReceiveRequest
<1>16. ASSUME NEW w \in Worker, LoseConnection(w) PROVE Typed'
  BY <1>16 DEF LoseConnection
<1>17. ASSUME NEW w \in Worker, SendInterface(w) \/ SendImplementation(w) PROVE Typed'
  <2>1. \A d \in SCC : loaded[w][d] \in Hash \cup {NoHash}
    OBVIOUS
  <2>2. CASE SendInterface(w)
    <3> DEFINE m == [isInterface |-> TRUE, blocker |-> FALSE, sccs |-> batch[w],
                     result |-> [d \in SCC |-> IF d \in batch[w] THEN loaded[w][d] ELSE NoHash]]
    <3>1. m \in Message
      BY <2>1 DEF Message
    <3>2. Respond(w, m, "implementation")
      BY <2>2 DEF SendInterface
    <3> HIDE DEF m
    <3>3. QED
      BY <2>2, <3>1, <3>2, RespondTyped DEF SendInterface
  <2>3. CASE SendImplementation(w)
    <3> DEFINE m == [isInterface |-> FALSE, blocker |-> FALSE, sccs |-> batch[w],
                     result |-> [d \in SCC |-> NoHash]]
    <3>1. m \in Message
      BY DEF Message
    <3>2. Respond(w, m, "idle")
      BY <2>3 DEF SendImplementation
    <3> HIDE DEF m
    <3>3. QED
      BY <2>3, <3>1, <3>2, RespondTyped DEF SendImplementation
  <2>4. QED
    BY <1>17, <2>2, <2>3
<1>18. ASSUME NEW w \in Worker, NEW s \in SCC, NEW h \in Hash, CheckInterface(w, s, h)
       PROVE  Typed'
  <2>1. loaded' \in [Worker -> [SCC -> Hash \cup {NoHash}]]
    <3>1. \A d \in SCC : loaded[w][d] \in Hash \cup {NoHash} /\ store[d] \in Hash \cup {NoHash}
      OBVIOUS
    <3> DEFINE f == [d \in SCC |-> IF d = s THEN h
                                   ELSE IF d \in Missing(w, s) THEN store[d] ELSE loaded[w][d]]
    <3>2. f \in [SCC -> Hash \cup {NoHash}]
      BY <3>1
    <3>3. loaded' = [loaded EXCEPT ![w] = f]
      BY <1>18, Zenon DEF CheckInterface, LoadAndSet, Typed
    <3> HIDE DEF f
    <3>4. QED
      BY <3>2, <3>3
  <2>2. store' \in [SCC -> Hash \cup {NoHash}] /\ lost' \in 0 .. MaxLost
    <3>1. \/ store' = [store EXCEPT ![s] = h] /\ lost' = lost
          \/ lost < MaxLost /\ lost' = lost + 1 /\ store' = store
      BY <1>18 DEF CheckInterface
    <3>2. lost \in 0 .. MaxLost => (lost < MaxLost => lost + 1 \in 0 .. MaxLost)
      BY BoundAssumption
    <3>3. QED
      BY <3>1, <3>2
  <2>3. todo' \in [Worker -> SUBSET SCC]
    BY <1>18 DEF CheckInterface
  <2>4. QED
    BY <1>18, <2>1, <2>2, <2>3 DEF CheckInterface
<1>19. ASSUME NEW w \in Worker, NEW s \in SCC,
              InterfaceBlocker(w, s) \/ ImplementationBlocker(w, s)
       PROVE  Typed'
  <2> DEFINE m(i) == [isInterface |-> i, blocker |-> TRUE, sccs |-> batch[w],
                      result |-> [d \in SCC |-> NoHash]]
  <2>1. \A i \in BOOLEAN : m(i) \in Message
    BY DEF Message
  <2>2. \E i \in BOOLEAN : Respond(w, m(i), "idle")
    BY <1>19 DEF InterfaceBlocker, ImplementationBlocker
  <2> HIDE DEF m
  <2>3. toCoord' \in [Worker -> Seq(Message)]
        /\ wpc' \in [Worker -> {"idle", "interface", "implementation", "exited", "dead"}]
    BY <2>1, <2>2, RespondTyped
  <2>4. QED
    BY <1>19, <2>3 DEF InterfaceBlocker, ImplementationBlocker
<1>20. ASSUME NEW w \in Worker, NEW s \in SCC, CheckImplementation(w, s) PROVE Typed'
  BY <1>20 DEF CheckImplementation
<1>21. ASSUME NEW w \in Worker, Crash(w) PROVE Typed'
  BY <1>21, BoundAssumption DEF Crash
<1>22. ASSUME NEW w \in Worker, NEW s \in SCC, LoadFails(w, s) PROVE Typed'
  BY <1>22 DEF LoadFails
<1>23. CASE UNCHANGED vars
  BY <1>23 DEF vars
<1>24. QED
  BY <1>1, <1>2, <1>3, <1>4, <1>5, <1>6, <1>7, <1>8, <1>9, <1>10, <1>11, <1>12, <1>13,
     <1>14, <1>15, <1>16, <1>17, <1>18, <1>19, <1>20, <1>21, <1>22, <1>23
     DEF Next, Schedule, Shutdown, Serve, Over

(***************************************************************************)
(* The inductive invariant.                                                *)
(***************************************************************************)
\* Notifying the dependents of D keeps the counters right, and makes ready
\* exactly SCCs that were waiting and have all their dependencies final now.
LEMMA AdvanceCounts ==
  ASSUME Typed, Counted, NEW D \in SUBSET SCC, D \cap done = {}, Advance(D),
         \A s \in done \cup D : Deps[s] \subseteq done
  PROVE  /\ Counted'
         /\ done' = done \cup D /\ doneNow' = {} /\ cpc' = "loop"
         /\ ready' \subseteq notReady
         /\ \A s \in ready' : Deps[s] \subseteq done'
<1>1. \A s \in SCC : /\ IsFiniteSet(Deps[s] \ done)
                     /\ Cardinality(Deps[s] \ done) \in Nat
                     /\ Cardinality(Deps[s] \ done') =
                          Cardinality(Deps[s] \ done) - Cardinality(Deps[s] \cap D)
  <2> TAKE s \in SCC
  <2>1. IsFiniteSet(Deps[s] \ done)
    BY GraphAssumption, SizeAssumption, FS_Subset
  <2>2. Cardinality((Deps[s] \ done) \ D) =
          Cardinality(Deps[s] \ done) - Cardinality((Deps[s] \ done) \cap D)
    BY <2>1, FS_Difference
  <2>3. (Deps[s] \ done) \cap D = Deps[s] \cap D /\ (Deps[s] \ done) \ D = Deps[s] \ done'
    BY DEF Advance
  <2>4. QED
    BY <2>1, <2>2, <2>3, FS_CardinalityType
<1>2. notReadyCount' = [s \in SCC |-> Cardinality(Deps[s] \ done')]
  BY <1>1 DEF Advance, Counted
<1>3. \A s \in SCC : notReadyCount'[s] = 0 <=> Deps[s] \subseteq done'
  <2> TAKE s \in SCC
  <2>1. IsFiniteSet(Deps[s] \ done')
    BY GraphAssumption, SizeAssumption, FS_Subset
  <2>2. Cardinality(Deps[s] \ done') = 0 <=> Deps[s] \ done' = {}
    BY <2>1, FS_EmptySet
  <2>3. QED
    BY <1>2, <2>2
<1>4. ready' = {s \in SCC : Deps[s] \cap D # {} /\ Deps[s] \subseteq done'}
  BY <1>3 DEF Advance
<1>5. done' = done \cup D /\ doneNow' = {} /\ cpc' = "loop" /\ notReady' = notReady \ ready'
  BY DEF Advance
<1>6. notReady' = {s \in SCC : ~(Deps[s] \subseteq done')}
  <2>1. \A s \in SCC : s \in notReady <=> ~(Deps[s] \subseteq done)
    BY DEF Counted
  <2>2. \A s \in SCC : s \in notReady' <=> ~(Deps[s] \subseteq done')
    BY <1>4, <1>5, <2>1
  <2>3. notReady' \subseteq SCC
    BY <1>5 DEF Typed
  <2>4. QED
    BY <2>2, <2>3
<1>7. ready' \subseteq notReady
  BY <1>4 DEF Counted
<1>8. QED
  BY <1>2, <1>4, <1>5, <1>6, <1>7 DEF Counted

\* A step of the coordinator that touches neither sockets nor workers.
Local == UNCHANGED <<toWorker, toCoord, wpc, batch>>

LEMMA LocalOwned ==
  ASSUME Local, NEW w \in Worker
  PROVE  Owned(w)' = Owned(w)
BY DEF Local, Owned, Requested, Checking, Answered

\* Every use of Advance in process_graph preserves the invariant.
LEMMA AdvanceInv ==
  ASSUME IInv, NEW D \in SUBSET SCC, Advance(D), D = doneNow \/ D = Pending \/ D = {},
         cpc \notin {"closing", "returned", "killed"}, Local, UNCHANGED <<queue, free, closed>>
  PROVE  OpenUntilEnd' /\ Counted' /\ Grounded' /\ OnePlace' /\ OneWorker' /\ OneStage'
<1> USE DEF IInv
<1>1. D \cap done = {} /\ D \cap queue = {} /\ \A s \in D : Deps[s] \subseteq done
  BY DEF OnePlace, Grounded
<1>2. /\ Counted'
      /\ done' = done \cup D /\ doneNow' = {} /\ cpc' = "loop"
      /\ ready' \subseteq notReady
      /\ \A s \in ready' : Deps[s] \subseteq done'
  BY <1>1, AdvanceCounts DEF Grounded
<1>3. \A w \in Worker : Owned(w)' = Owned(w)
  BY LocalOwned
<1>4. \A w \in Worker : Owned(w) \cap D = {}
  BY DEF OnePlace
<1>5. \A s \in notReady : ~(Deps[s] \subseteq done)
  BY DEF Counted
<1>6. Pending' = ready'
  BY <1>2 DEF Pending
<1>7. Grounded'
  <2>1. \A s \in Pending' \cup doneNow' \cup queue' \cup done' : Deps[s] \subseteq done'
    BY <1>1, <1>2, <1>6 DEF Grounded
  <2>2. \A w \in Worker : \A s \in Owned(w)' \cup batch'[w] : Deps[s] \subseteq done'
    BY <1>2, <1>3 DEF Grounded, Local
  <2>3. QED
    BY <2>1, <2>2 DEF Grounded
<1>8. OnePlace'
  <2>1. ready' \cap queue = {} /\ ready' \cap done' = {} /\ \A w \in Worker : ready' \cap Owned(w) = {}
    BY <1>1, <1>2, <1>5 DEF Grounded
  <2>2. queue \cap done' = {} /\ \A w \in Worker : Owned(w) \cap done' = {}
    BY <1>1, <1>2, <1>4 DEF OnePlace
  <2>3. QED
    BY <1>2, <1>3, <1>6, <2>1, <2>2 DEF OnePlace
<1>9. OneWorker'
  BY <1>3 DEF OneWorker
<1>10. OneStage'
  BY <1>2 DEF OneStage, StageOf, Local
<1>11. OpenUntilEnd'
  BY DEF OpenUntilEnd, Local
<1>12. QED
  BY <1>2, <1>7, <1>8, <1>9, <1>10, <1>11

\* Steps of the coordinator that only move SCCs between its own lists, or stop.
LEMMA MoveInv ==
  ASSUME IInv, Local, UNCHANGED <<notReady, notReadyCount, done>>,
         cpc \notin {"closing", "returned", "killed"}, cpc' \notin {"closing", "returned", "killed"},
         closed' = closed, free' \subseteq free,
         Pending' \subseteq Pending, queue' \subseteq queue \cup (Pending \ Pending'),
         doneNow' \subseteq doneNow \cup (Pending \ Pending'), queue' \cap doneNow' = {}
  PROVE  OpenUntilEnd' /\ Counted' /\ Grounded' /\ OnePlace' /\ OneWorker' /\ OneStage'
<1> USE DEF IInv
<1>1. \A w \in Worker : Owned(w)' = Owned(w)
  BY LocalOwned
<1>2. Grounded'
  BY <1>1 DEF Grounded, Local
<1>3. OnePlace'
  BY <1>1 DEF OnePlace
<1>4. OneWorker'
  BY <1>1 DEF OneWorker
<1>5. OneStage'
  BY DEF OneStage, StageOf, Local
<1>6. QED
  BY <1>2, <1>3, <1>4, <1>5 DEF OpenUntilEnd, Counted, Local

LEMMA CoordInv ==
  ASSUME IInv, \/ FindStale \/ SkipFresh \/ StartWaiting \/ EndSubmitStale
               \/ ReceiveFailure \/ EndSubmitMore \/ Finish
               \/ \E w \in Worker : SendFails(w)
  PROVE  OpenUntilEnd' /\ Counted' /\ Grounded' /\ OnePlace' /\ OneWorker' /\ OneStage'
<1> USE DEF Local, loopVars, workerVars, Leave
<1>1. ready \in SUBSET SCC /\ doneNow \in SUBSET SCC
  BY DEF IInv, Typed
<1>2. CASE FindStale
  BY <1>2, MoveInv DEF FindStale, Pending, IInv, OnePlace
<1>3. CASE SkipFresh
  BY <1>1, <1>3, AdvanceInv DEF SkipFresh, Pending
<1>4. CASE StartWaiting
  BY <1>4, MoveInv DEF StartWaiting, Pending, IInv, OnePlace
<1>5. CASE EndSubmitStale
  <2>1. CASE doneNow # {}
    BY <1>1, <1>5, <2>1, AdvanceInv DEF EndSubmitStale
  <2>2. CASE doneNow = {}
    BY <1>5, <2>2, MoveInv DEF EndSubmitStale, Pending, IInv, OnePlace
  <2>3. QED
    BY <2>1, <2>2
<1>7. CASE ReceiveFailure
  BY <1>7, MoveInv DEF ReceiveFailure, Pending, IInv, OnePlace
<1>8. CASE EndSubmitMore
  BY <1>1, <1>8, AdvanceInv DEF EndSubmitMore
<1>9. CASE Finish
  BY <1>9, MoveInv DEF Finish, Pending, IInv, OnePlace
<1>10. ASSUME NEW w \in Worker, SendFails(w)
       PROVE  OpenUntilEnd' /\ Counted' /\ Grounded' /\ OnePlace' /\ OneWorker' /\ OneStage'
  BY <1>10, MoveInv DEF SendFails, Batches, Pending, IInv, OnePlace
<1>11. QED
  BY <1>2, <1>3, <1>4, <1>5, <1>7, <1>8, <1>9, <1>10

LEMMA OwnedSame ==
  ASSUME NEW w \in Worker, toWorker'[w] = toWorker[w], toCoord'[w] = toCoord[w],
         wpc'[w] = wpc[w], batch'[w] = batch[w]
  PROVE  Owned(w)' = Owned(w)
BY DEF Owned, Requested, Checking, Answered

LEMMA SeqFacts ==
  ASSUME NEW T, NEW q \in Seq(T), q # <<>>
  PROVE  /\ 1 \in DOMAIN q /\ Head(q) = q[1] /\ Tail(q) \in Seq(T)
         /\ Len(q) # 1 => 2 \in DOMAIN q
         /\ Len(q) = 1 => Tail(q) = <<>>
         /\ \A i \in DOMAIN Tail(q) : Tail(q)[i] = q[i + 1] /\ i + 1 \in DOMAIN q /\ i + 1 # 1
         /\ DOMAIN Tail(q) = 1 .. Len(q) - 1 /\ Len(Tail(q)) = Len(q) - 1 /\ Len(q) \in Nat
<1>1. Len(q) \in Nat /\ Len(q) # 0 /\ DOMAIN q = 1 .. Len(q)
  BY EmptySeq, LenProperties
<1>2. /\ Tail(q) \in Seq(T) /\ Len(Tail(q)) = Len(q) - 1
      /\ \A i \in 1 .. Len(Tail(q)) : Tail(q)[i] = q[i + 1]
      /\ Head(q) = q[1]
  BY HeadTailProperties
<1>3. DOMAIN Tail(q) = 1 .. Len(q) - 1
  BY <1>1, <1>2, LenProperties
<1>4. ASSUME Len(q) = 1 PROVE Tail(q) = <<>>
  <2> DEFINE t == Tail(q)
  <2>1. t \in Seq(T) /\ Len(t) = 0
    BY <1>2, <1>4
  <2> HIDE DEF t
  <2>2. t = <<>>
    BY <2>1, EmptySeq
  <2>3. QED
    BY <2>2 DEF t
<1>5. QED
  BY <1>1, <1>2, <1>3, <1>4

LEMMA NoElement ==
  ASSUME NEW T, NEW q \in Seq(T), \A i \in DOMAIN q : FALSE
  PROVE  q = <<>>
<1>1. q # <<>> => 1 \in DOMAIN q
  BY SeqFacts
<1>2. QED
  BY <1>1

LEMMA SendBatchInv ==
  ASSUME IInv, NEW w \in Worker, SendBatch(w)
  PROVE  OpenUntilEnd' /\ Counted' /\ Grounded' /\ OnePlace' /\ OneWorker' /\ OneStage'
<1> USE DEF IInv
<1>1. PICK B \in Batches : /\ queue' = queue \ B
                          /\ toWorker' = [toWorker EXCEPT ![w] = Append(@, B)]
  BY DEF SendBatch
<1>2. B \subseteq queue /\ B # {}
  BY DEF Batches
<1>3. /\ cpc' = cpc /\ cpc \notin {"closing", "returned", "killed"} /\ w \in free /\ free' = free \ {w}
      /\ UNCHANGED <<ready, notReady, notReadyCount, doneNow, done, closed, toCoord, wpc, batch>>
  BY DEF SendBatch, loopVars, workerVars
<1>4. toWorker[w] = <<>> /\ toCoord[w] = <<>> /\ wpc[w] \in {"idle", "dead"}
  BY <1>3 DEF OneStage, StageOf
<1>5. toWorker'[w] = <<B>>
  BY <1>1, <1>4 DEF Typed
<1>6. Owned(w)' = B
  BY <1>3, <1>4, <1>5 DEF Owned, Requested, Checking, Answered
<1>7. \A v \in Worker : v # w => toWorker'[v] = toWorker[v] /\ Owned(v)' = Owned(v)
  BY <1>1, <1>3, OwnedSame DEF Typed
<1>8. Pending' = Pending
  BY <1>3 DEF Pending
<1>9. Grounded'
  BY <1>1, <1>2, <1>3, <1>6, <1>7, <1>8 DEF Grounded
<1>10. OnePlace'
  <2>1. B \cap (Pending \cup doneNow \cup queue' \cup done) = {}
    BY <1>1, <1>2 DEF OnePlace
  <2>2. \A v \in Worker : Owned(v)' \cap (Pending \cup doneNow \cup queue' \cup done) = {}
    <3> TAKE v \in Worker
    <3>1. CASE v = w
      BY <1>6, <2>1, <3>1
    <3>2. CASE v # w
      BY <1>1, <1>7, <3>2 DEF OnePlace
    <3>3. QED
      BY <3>1, <3>2
  <2>3. QED
    BY <1>1, <1>3, <1>8, <2>2 DEF OnePlace
<1>11. OneWorker'
  <2>1. \A v \in Worker : v # w => Owned(v) \cap B = {}
    BY <1>2 DEF OnePlace
  <2>2. \A u, v \in Worker : u # v => Owned(u)' \cap Owned(v)' = {}
    <3> TAKE u, v \in Worker
    <3> SUFFICES ASSUME u # v PROVE Owned(u)' \cap Owned(v)' = {}
      OBVIOUS
    <3>1. CASE u = w
      BY <1>6, <1>7, <2>1, <3>1
    <3>2. CASE v = w
      BY <1>6, <1>7, <2>1, <3>2
    <3>3. CASE u # w /\ v # w
      BY <1>7, <3>3 DEF OneWorker
    <3>4. QED
      BY <3>1, <3>2, <3>3
  <2>3. QED
    BY <2>2 DEF OneWorker
<1>12. OneStage'
  <2>1. \A i \in DOMAIN toWorker'[w] : toWorker'[w][i] # {} /\ i = 1
    BY <1>2, <1>5
  <2>2. QED
    BY <1>3, <1>4, <1>7, <2>1 DEF OneStage, StageOf
<1>13. QED
  BY <1>3, <1>9, <1>10, <1>11, <1>12 DEF OpenUntilEnd, Counted

\* A step of worker w (or of shutdown) that hands nothing new to a worker.
LEMMA HoldInv ==
  ASSUME IInv, NEW w \in Worker,
         UNCHANGED <<ready, notReady, notReadyCount, doneNow, done, queue>>, Pending' = Pending,
         Owned(w)' \subseteq Owned(w), batch'[w] \subseteq Owned(w) \cup batch[w],
         \A v \in Worker : v # w => Owned(v)' = Owned(v) /\ batch'[v] = batch[v]
  PROVE  Counted' /\ Grounded' /\ OnePlace' /\ OneWorker'
<1> USE DEF IInv
<1>1. \A v \in Worker : Owned(v)' \subseteq Owned(v) /\ batch'[v] \subseteq Owned(v) \cup batch[v]
  OBVIOUS
<1>2. Grounded'
  BY <1>1 DEF Grounded
<1>3. OnePlace'
  BY <1>1 DEF OnePlace
<1>4. OneWorker'
  BY <1>1 DEF OneWorker
<1>5. QED
  BY <1>2, <1>3, <1>4 DEF Counted

LEMMA ReceiveRequestInv ==
  ASSUME IInv, NEW w \in Worker, ReceiveRequest(w)
  PROVE  OpenUntilEnd' /\ Counted' /\ Grounded' /\ OnePlace' /\ OneWorker' /\ OneStage'
<1> USE DEF IInv
<1> DEFINE B == Head(toWorker[w])
<1>1. /\ wpc[w] = "idle" /\ toWorker[w] # <<>>
      /\ toWorker' = [toWorker EXCEPT ![w] = Tail(@)]
      /\ wpc' = [wpc EXCEPT ![w] = IF B = {} THEN "exited" ELSE "interface"]
      /\ batch' = [batch EXCEPT ![w] = B]
      /\ UNCHANGED <<cpc, ready, notReady, notReadyCount, doneNow, done, queue, free, closed, toCoord>>
  BY DEF ReceiveRequest, coordVars, loopVars
<1>0. toWorker[w] \in Seq(SUBSET SCC)
  BY DEF Typed
<1>2. B = toWorker[w][1] /\ 1 \in DOMAIN toWorker[w]
  BY <1>0, <1>1, SeqFacts
<1> toWorker'[w] = Tail(toWorker[w]) /\ wpc'[w] = (IF B = {} THEN "exited" ELSE "interface") /\ batch'[w] = B
  BY <1>1 DEF Typed
<1>3. B \subseteq Requested(w)
  BY <1>2 DEF Requested
<1>4. \A i \in DOMAIN toWorker'[w] : toWorker'[w][i] = {}
  BY <1>0, <1>1, SeqFacts DEF OneStage, StageOf
<1>5. Requested(w)' = {}
  BY <1>4 DEF Requested
<1>6. Checking(w)' \subseteq B /\ Answered(w)' = Answered(w)
  BY <1>1 DEF Checking, Answered
<1>7. Owned(w)' \subseteq Owned(w) /\ batch'[w] \subseteq Owned(w) \cup batch[w]
  BY <1>1, <1>3, <1>5, <1>6 DEF Owned
<1>8. \A v \in Worker : v # w => /\ toWorker'[v] = toWorker[v] /\ wpc'[v] = wpc[v]
                               /\ batch'[v] = batch[v] /\ Owned(v)' = Owned(v)
  BY <1>1, OwnedSame DEF Typed
<1>9. Counted' /\ Grounded' /\ OnePlace' /\ OneWorker'
  BY <1>1, <1>7, <1>8, HoldInv DEF Pending
<1>10. B # {} => toCoord[w] = <<>>
  BY <1>2 DEF OneStage, StageOf
<1>11. B = {} => cpc \in {"closing", "returned", "killed"}
  BY <1>2 DEF OneStage, StageOf
<1>12. w \in free /\ cpc \notin {"closing", "returned", "killed"} => FALSE
  BY <1>1 DEF OneStage, StageOf
<1>13. cpc \notin {"closing", "returned", "killed"} => toWorker'[w] = <<>>
  <2>1. 2 \in DOMAIN toWorker[w] => toWorker[w][2] = {}
    BY DEF OneStage, StageOf
  <2>2. cpc \notin {"closing", "returned", "killed"} => 2 \notin DOMAIN toWorker[w]
    BY <2>1 DEF OneStage, StageOf
  <2>3. QED
    BY <2>2, <1>0, <1>1, SeqFacts
<1>14. OneStage'
  <2> SUFFICES ASSUME NEW v \in Worker PROVE StageOf(v)'
    BY DEF OneStage
  <2>1. CASE v # w
    BY <1>1, <1>8, <2>1 DEF OneStage, StageOf
  <2>2. CASE v = w
    <3>1. cpc \notin {"closing", "returned", "killed"} => DOMAIN toWorker'[w] = {}
      BY <1>13
    <3>2. B # {} => DOMAIN toCoord[w] = {}
      BY <1>10
    <3>3. wpc'[w] \in {"exited", "interface"} /\ (wpc'[w] = "interface" => B # {})
      OBVIOUS
    <3>4. StageOf(w) /\ toCoord'[w] = toCoord[w]
      BY <1>1 DEF OneStage
    <3>5. QED
      BY <1>1, <1>4, <1>10, <1>12, <2>2, <3>1, <3>2, <3>3, <3>4 DEF StageOf
  <2>3. QED
    BY <2>1, <2>2
<1>15. OpenUntilEnd'
  BY <1>1, <1>8, <1>11 DEF OpenUntilEnd
<1>16. QED
  BY <1>9, <1>14, <1>15

\* A worker answers: what it was checking becomes the contents of its answer.
LEMMA RespondInv ==
  ASSUME IInv, NEW w \in Worker, NEW i \in BOOLEAN, NEW b \in BOOLEAN, NEW r \in [SCC -> Hash \cup {NoHash}],
         NEW next \in {"idle", "implementation"},
         wpc[w] = (IF i THEN "interface" ELSE "implementation"),
         next = "implementation" => i,
         Respond(w, [isInterface |-> i, blocker |-> b, sccs |-> batch[w], result |-> r], next),
         UNCHANGED <<coordVars, toWorker, batch>>
  PROVE  OpenUntilEnd' /\ Counted' /\ Grounded' /\ OnePlace' /\ OneWorker' /\ OneStage'
<1> USE DEF IInv
<1> DEFINE m == [isInterface |-> i, blocker |-> b, sccs |-> batch[w], result |-> r]
<1>0. UNCHANGED <<cpc, ready, notReady, notReadyCount, doneNow, done, queue, free, closed>>
  BY DEF coordVars, loopVars
<1>1. /\ toCoord[w] \in Seq(Message) /\ m \in Message /\ m.isInterface = i /\ m.sccs = batch[w]
  BY DEF Typed, Message
<1> HIDE DEF m
<1>2. /\ toCoord'[w] = (IF w \in closed THEN toCoord[w] ELSE Append(toCoord[w], m))
      /\ wpc'[w] = (IF w \in closed THEN "exited" ELSE next)
      /\ \A v \in Worker : v # w => toCoord'[v] = toCoord[v] /\ wpc'[v] = wpc[v]
  BY DEF Respond, Typed, m
<1>3. StageOf(w)
  BY DEF OneStage
<1>4. i => toCoord[w] = <<>>
  BY <1>3 DEF StageOf
<1>5. \A j \in DOMAIN toWorker[w] : toWorker[w][j] = {}
  BY <1>3 DEF StageOf
<1>6. \A j \in DOMAIN toCoord[w] : j = 1 /\ toCoord[w][j].isInterface
  BY <1>3, <1>4 DEF StageOf
<1>7. /\ Len(toCoord[w]) \in Nat /\ DOMAIN toCoord[w] = 1 .. Len(toCoord[w])
      /\ DOMAIN Append(toCoord[w], m) = 1 .. Len(toCoord[w]) + 1
      /\ Len(Append(toCoord[w], m)) = Len(toCoord[w]) + 1
      /\ \A j \in DOMAIN toCoord[w] : Append(toCoord[w], m)[j] = toCoord[w][j]
      /\ Append(toCoord[w], m)[Len(toCoord[w]) + 1] = m
  BY <1>1, AppendProperties, LenProperties
<1>8. i => Len(toCoord[w]) = 0
  BY <1>4
<1>9. Owned(w)' \subseteq Owned(w)
  <2>1. Requested(w)' = Requested(w) /\ Checking(w)' = {}
    BY <1>2 DEF Requested, Checking
  <2>2. Answered(w)' \subseteq Answered(w) \cup Checking(w)
    <3>1. CASE w \in closed
      BY <1>2, <3>1 DEF Answered
    <3>2. CASE w \notin closed
      <4>1. \A j \in DOMAIN toCoord'[w] : toCoord'[w][j].isInterface =>
              \/ j \in DOMAIN toCoord[w] /\ toCoord'[w][j] = toCoord[w][j]
              \/ i /\ toCoord'[w][j].sccs = batch[w]
        BY <1>1, <1>2, <1>7, <3>2
      <4>2. i => Checking(w) = batch[w]
        BY DEF Checking
      <4>3. QED
        BY <4>1, <4>2 DEF Answered
    <3>3. QED
      BY <3>1, <3>2
  <2>3. QED
    BY <2>1, <2>2 DEF Owned
<1>10. \A v \in Worker : v # w => Owned(v)' = Owned(v)
  BY <1>2, OwnedSame
<1>11. Counted' /\ Grounded' /\ OnePlace' /\ OneWorker'
  BY <1>0, <1>9, <1>10, HoldInv DEF Pending
<1>12. OneStage'
  <2> SUFFICES ASSUME NEW v \in Worker PROVE StageOf(v)'
    BY DEF OneStage
  <2>1. CASE v # w
    BY <1>0, <1>2, <2>1 DEF OneStage, StageOf
  <2>2. CASE v = w /\ w \in closed
    BY <1>0, <1>2, <1>3, <1>5, <1>6, <2>2 DEF StageOf
  <2>3. CASE v = w /\ w \notin closed
    <3>1. \A j \in DOMAIN toCoord'[w] : toCoord'[w][j].isInterface => j = 1
      BY <1>1, <1>2, <1>6, <1>7, <1>8, <2>3
    <3>2. \A j \in DOMAIN toCoord'[w] : ~toCoord'[w][j].isInterface
             => ~i /\ j = Len(toCoord'[w]) /\ wpc'[w] = "idle"
      BY <1>1, <1>2, <1>6, <1>7, <2>3
    <3>3. w \in free => cpc \in {"closing", "returned", "killed"}
      BY <1>3 DEF StageOf
    <3>4. wpc'[w] = "implementation" => \A j \in DOMAIN toCoord'[w] : j = 1 /\ toCoord'[w][j].isInterface
      BY <1>2, <3>1, <3>2
    <3>5. QED
      BY <1>0, <1>2, <1>3, <1>5, <2>3, <3>1, <3>2, <3>3, <3>4 DEF StageOf
  <2>4. QED
    BY <2>1, <2>2, <2>3
<1>13. OpenUntilEnd'
  BY <1>0, <1>2 DEF OpenUntilEnd
<1>14. QED
  BY <1>11, <1>12, <1>13

\* The coordinator takes an answer: what it is about leaves the worker's hands.
LEMMA ReceiveInv ==
  ASSUME IInv, NEW R \in SUBSET Worker, Receive(R)
  PROVE  OpenUntilEnd' /\ Counted' /\ Grounded' /\ OnePlace' /\ OneWorker' /\ OneStage'
<1> USE DEF IInv
<1> DEFINE iface == {w \in R : Head(toCoord[w]).isInterface}
<1>1. /\ cpc = "wait" /\ cpc' = "submitMore"
      /\ free' = free \cup (R \ iface)
      /\ doneNow' = UNION {Head(toCoord[w]).sccs : w \in iface}
      /\ toCoord' = [w \in Worker |-> IF w \in R THEN Tail(toCoord[w]) ELSE toCoord[w]]
      /\ UNCHANGED <<ready, notReady, notReadyCount, done, queue, closed, toWorker, wpc, batch>>
  BY DEF Receive, workerVars
<1>2. ASSUME NEW w \in R
      PROVE  /\ w \in Worker /\ toCoord[w] \in Seq(Message) /\ toCoord[w] # <<>>
             /\ 1 \in DOMAIN toCoord[w] /\ Head(toCoord[w]) = toCoord[w][1]
             /\ Len(toCoord[w]) = 1 => Tail(toCoord[w]) = <<>>
             /\ \A i \in DOMAIN Tail(toCoord[w]) :
                  Tail(toCoord[w])[i] = toCoord[w][i + 1] /\ i + 1 \in DOMAIN toCoord[w] /\ i + 1 # 1
             /\ StageOf(w)
  <2>1. w \in Worker /\ toCoord[w] \in Seq(Message) /\ toCoord[w] # <<>>
    BY DEF Receive, Readable, Typed
  <2>2. QED
    BY <2>1, SeqFacts DEF OneStage
<1>3. ASSUME NEW w \in R
      PROVE  /\ toWorker[w] = <<>> /\ wpc[w] # "interface" /\ w \notin free
             /\ ~Head(toCoord[w]).isInterface
                  => Tail(toCoord[w]) = <<>> /\ wpc[w] \in {"idle", "dead"}
             /\ \A i \in DOMAIN Tail(toCoord[w]) : ~Tail(toCoord[w])[i].isInterface
  <2>1. \A i \in DOMAIN toWorker[w] : FALSE
    BY <1>1, <1>2 DEF StageOf
  <2>2. toWorker[w] = <<>>
    <3>1. toWorker[w] \in Seq(SUBSET SCC)
      BY <1>2 DEF Typed
    <3>2. QED
      BY <2>1, <3>1, NoElement
  <2>3. wpc[w] # "interface" /\ w \notin free
    BY <1>1, <1>2 DEF StageOf
  <2>4. ASSUME ~Head(toCoord[w]).isInterface
        PROVE  Tail(toCoord[w]) = <<>> /\ wpc[w] \in {"idle", "dead"}
    <3>1. ~toCoord[w][1].isInterface
      BY <1>2, <2>4
    <3>2. StageOf(w) /\ 1 \in DOMAIN toCoord[w]
      BY <1>2
    <3>3. 1 = Len(toCoord[w]) /\ wpc[w] \in {"idle", "exited", "dead"}
      BY <3>1, <3>2 DEF StageOf
    <3>4. QED
      BY <1>1, <1>2, <3>3 DEF OpenUntilEnd
  <2>5. \A i \in DOMAIN Tail(toCoord[w]) : ~Tail(toCoord[w])[i].isInterface
    BY <1>2 DEF StageOf
  <2>6. QED
    BY <2>2, <2>3, <2>4, <2>5
<1>4. \A w \in Worker : w \notin R => toCoord'[w] = toCoord[w]
  BY <1>1
<1>5. \A w \in Worker : w \in R => toCoord'[w] = Tail(toCoord[w])
  BY <1>1
<1>6. \A w \in Worker : Owned(w)' \subseteq Owned(w)
  <2> TAKE w \in Worker
  <2>1. CASE w \notin R
    BY <1>1, <1>4, <2>1, OwnedSame
  <2>2. CASE w \in R
    BY <1>1, <1>3, <1>5, <2>2 DEF Owned, Requested, Checking, Answered
  <2>3. QED
    BY <2>1, <2>2
<1>7. \A w \in Worker : w \in R => Owned(w)' = {}
  BY <1>1, <1>3, <1>5 DEF Owned, Requested, Checking, Answered
<1>8. \A s \in doneNow' : \E w \in R : s \in Owned(w)
  BY <1>1, <1>2 DEF Owned, Answered
<1>9. Pending' = {} /\ Pending = {}
  BY <1>1 DEF Pending
<1>10. \A w \in Worker : Owned(w)' \cap doneNow' = {}
  BY <1>2, <1>6, <1>7, <1>8 DEF OneWorker
<1>11. doneNow' \cap (queue \cup done) = {}
  BY <1>2, <1>8 DEF OnePlace
<1>12. OnePlace'
  BY <1>1, <1>6, <1>9, <1>10, <1>11 DEF OnePlace
<1>13. Grounded'
  BY <1>1, <1>2, <1>6, <1>8, <1>9 DEF Grounded
<1>14. OneWorker'
  BY <1>6 DEF OneWorker
<1>15. OneStage'
  <2> SUFFICES ASSUME NEW w \in Worker PROVE StageOf(w)'
    BY DEF OneStage
  <2>1. CASE w \notin R
    <3>1. StageOf(w) /\ (w \in free' => w \in free)
      BY <1>1, <2>1 DEF OneStage
    <3>2. QED
      BY <1>1, <1>4, <2>1, <3>1 DEF StageOf
  <2>2. CASE w \in R
    <3>1. StageOf(w) /\ toWorker'[w] = <<>> /\ wpc'[w] = wpc[w] /\ wpc[w] # "interface"
      BY <1>1, <1>2, <1>3, <2>2
    <3>2. w \in free' => toCoord'[w] = <<>> /\ wpc[w] \in {"idle", "dead"}
      BY <1>1, <1>3, <1>5, <2>2
    <3>3. wpc[w] = "implementation" => toCoord'[w] = <<>>
      <4>1. wpc[w] = "implementation" => \A i \in DOMAIN toCoord[w] : i = 1
        BY <3>1 DEF StageOf
      <4>2. wpc[w] = "implementation" => Len(toCoord[w]) = 1
        <5>1. Len(toCoord[w]) # 1 => 2 \in DOMAIN toCoord[w]
          BY <1>2, <2>2, SeqFacts
        <5>2. QED
          BY <4>1, <5>1
      <4>3. QED
        BY <1>2, <1>5, <2>2, <4>2
    <3>4. \A i \in DOMAIN toCoord'[w] : ~toCoord'[w][i].isInterface
      BY <1>3, <1>5, <2>2
    <3>5. \A i \in DOMAIN toCoord'[w] : i = Len(toCoord'[w]) /\ wpc[w] \in {"idle", "exited", "dead"}
      <4>1. /\ toCoord'[w] \in Seq(Message) /\ DOMAIN toCoord'[w] = 1 .. Len(toCoord[w]) - 1
            /\ Len(toCoord'[w]) = Len(toCoord[w]) - 1
        BY <1>2, <1>5, <2>2, SeqFacts
      <4>2. \A i \in DOMAIN toCoord'[w] :
              /\ toCoord'[w][i] = toCoord[w][i + 1] /\ i + 1 \in DOMAIN toCoord[w]
        BY <1>2, <1>5, <2>2
      <4>3. \A i \in DOMAIN toCoord'[w] : i + 1 = Len(toCoord[w]) /\ wpc[w] \in {"idle", "exited", "dead"}
        BY <3>1, <3>4, <4>2 DEF StageOf
      <4>4. QED
        BY <4>1, <4>3, <1>2, <2>2, SeqFacts
    <3>6. QED
      BY <1>1, <3>1, <3>2, <3>3, <3>4, <3>5 DEF StageOf
  <2>3. QED
    BY <2>1, <2>2
<1>16. QED
  BY <1>1, <1>12, <1>13, <1>14, <1>15 DEF OpenUntilEnd, Counted

\* A worker process stops: what it was checking is nobody's from then on.
LEMMA StopInv ==
  ASSUME IInv, NEW w \in Worker, NEW end \in {"exited", "dead"},
         wpc' = [wpc EXCEPT ![w] = end],
         UNCHANGED <<coordVars, toWorker, toCoord, batch>>,
         end = "exited" => toWorker[w] = <<>> /\ cpc \in {"closing", "returned", "killed"}
  PROVE  OpenUntilEnd' /\ Counted' /\ Grounded' /\ OnePlace' /\ OneWorker' /\ OneStage'
<1> USE DEF IInv
<1>0. UNCHANGED <<cpc, ready, notReady, notReadyCount, doneNow, done, queue, free, closed>>
  BY DEF coordVars, loopVars
<1>1. wpc'[w] = end /\ \A v \in Worker : v # w => wpc'[v] = wpc[v]
  BY DEF Typed
<1>2. Owned(w)' \subseteq Owned(w)
  BY <1>1 DEF Owned, Requested, Checking, Answered
<1>3. \A v \in Worker : v # w => Owned(v)' = Owned(v)
  BY <1>1, OwnedSame
<1>4. Counted' /\ Grounded' /\ OnePlace' /\ OneWorker'
  BY <1>0, <1>2, <1>3, HoldInv DEF Pending
<1>5. OneStage'
  <2> SUFFICES ASSUME NEW v \in Worker PROVE StageOf(v)'
    BY DEF OneStage
  <2>1. CASE v # w
    BY <1>0, <1>1, <2>1 DEF OneStage, StageOf
  <2>2. CASE v = w
    <3>1. StageOf(w)
      BY DEF OneStage
    <3>2. end = "exited" => DOMAIN toWorker[w] = {}
      OBVIOUS
    <3>3. QED
      BY <1>0, <1>1, <2>2, <3>1, <3>2 DEF StageOf
  <2>3. QED
    BY <2>1, <2>2
<1>6. OpenUntilEnd'
  BY <1>0, <1>1 DEF OpenUntilEnd
<1>7. QED
  BY <1>4, <1>5, <1>6

\* The order to stop hands no SCC to anybody.
LEMMA NotifyInv ==
  ASSUME IInv, Notify
  PROVE  OpenUntilEnd' /\ Counted' /\ Grounded' /\ OnePlace' /\ OneWorker' /\ OneStage'
<1> USE DEF IInv
<1>0. /\ cpc = "shutdown" /\ cpc' = "closing"
      /\ UNCHANGED <<ready, notReady, notReadyCount, doneNow, done, queue, free, closed, toCoord, wpc, batch>>
  BY DEF Notify, loopVars, workerVars
<1>1. ASSUME NEW w \in Worker
      PROVE  /\ toWorker[w] \in Seq(SUBSET SCC) /\ toWorker'[w] = Append(toWorker[w], {})
             /\ DOMAIN toWorker[w] \subseteq DOMAIN toWorker'[w]
             /\ \A i \in DOMAIN toWorker[w] : toWorker'[w][i] = toWorker[w][i]
             /\ \A i \in DOMAIN toWorker'[w] : i \in DOMAIN toWorker[w] \/ toWorker'[w][i] = {}
  <2>1. toWorker[w] \in Seq(SUBSET SCC) /\ toWorker'[w] = Append(toWorker[w], {}) /\ {} \in SUBSET SCC
    BY DEF Notify, Typed
  <2>2. QED
    BY <2>1, AppendProperties, LenProperties
<1>2. \A w \in Worker : Owned(w)' = Owned(w)
  <2> TAKE w \in Worker
  <2>1. Requested(w)' = Requested(w)
    BY <1>1 DEF Requested
  <2>2. QED
    BY <1>0, <2>1 DEF Owned, Checking, Answered
<1>3. OneStage'
  <2> SUFFICES ASSUME NEW w \in Worker PROVE StageOf(w)'
    BY DEF OneStage
  <2>1. StageOf(w)
    BY DEF OneStage
  <2>2. \A i \in DOMAIN toWorker'[w] : toWorker'[w][i] # {} =>
          i = 1 /\ wpc[w] \in {"idle", "dead"} /\ toCoord[w] = <<>>
    BY <1>1, <2>1 DEF StageOf
  <2>3. QED
    BY <1>0, <2>1, <2>2 DEF StageOf
<1>4. Pending' = Pending
  BY <1>0 DEF Pending
<1>5. QED
  BY <1>0, <1>2, <1>3, <1>4 DEF OpenUntilEnd, Counted, Grounded, OnePlace, OneWorker

\* Steps that change nothing the invariant is about.
LEMMA FrameInv ==
  ASSUME IInv,
         UNCHANGED <<ready, notReady, notReadyCount, doneNow, done, queue, free, toWorker, toCoord, wpc, batch>>,
         \/ cpc' = cpc /\ closed' = closed
         \/ cpc \in {"closing", "returned", "killed"} /\ cpc' \in {"closing", "returned", "killed"}
  PROVE  OpenUntilEnd' /\ Counted' /\ Grounded' /\ OnePlace' /\ OneWorker' /\ OneStage'
<1> USE DEF IInv
<1>1. \A w \in Worker : Owned(w)' = Owned(w)
  BY DEF Owned, Requested, Checking, Answered
<1>2. Pending' = Pending
  BY DEF Pending
<1>3. OneStage'
  BY DEF OneStage, StageOf
<1>4. QED
  BY <1>1, <1>2, <1>3 DEF OpenUntilEnd, Counted, Grounded, OnePlace, OneWorker

\* With the coordinator, its lists go.
LEMMA KillInv ==
  ASSUME IInv, KillCoordinator
  PROVE  OpenUntilEnd' /\ Counted' /\ Grounded' /\ OnePlace' /\ OneWorker' /\ OneStage'
<1> USE DEF IInv
<1>1. /\ cpc' = "killed"
      /\ UNCHANGED <<ready, notReady, notReadyCount, doneNow, done, queue, free, toWorker, toCoord, wpc, batch>>
  BY DEF KillCoordinator, loopVars
<1>2. \A w \in Worker : Owned(w)' = Owned(w)
  BY <1>1 DEF Owned, Requested, Checking, Answered
<1>3. Pending' = {}
  BY <1>1 DEF Pending
<1>4. OneStage'
  BY <1>1 DEF OneStage, StageOf
<1>5. QED
  BY <1>1, <1>2, <1>3, <1>4 DEF OpenUntilEnd, Counted, Grounded, OnePlace, OneWorker

LEMMA InitInv == Init => IInv
<1> SUFFICES ASSUME Init PROVE IInv
  OBVIOUS
<1>1. Typed
  BY InitTyped
<1>2. /\ cpc = "loop" /\ ready = {s \in SCC : Deps[s] = {}} /\ notReady = SCC \ ready
      /\ notReadyCount = [s \in SCC |-> Cardinality(Deps[s])]
      /\ doneNow = {} /\ done = {} /\ queue = {} /\ closed = {}
      /\ toWorker = [w \in Worker |-> <<>>] /\ toCoord = [w \in Worker |-> <<>>]
      /\ wpc = [w \in Worker |-> "idle"] /\ batch = [w \in Worker |-> {}]
  BY DEF Init
<1>3. Counted
  <2>1. \A s \in SCC : Deps[s] \ done = Deps[s] /\ (Deps[s] \subseteq done <=> Deps[s] = {})
    BY <1>2
  <2>2. notReadyCount = [s \in SCC |-> Cardinality(Deps[s] \ done)]
    BY <1>2, <2>1
  <2>3. notReady = {s \in SCC : ~(Deps[s] \subseteq done)}
    BY <1>2, <2>1
  <2>4. QED
    BY <2>2, <2>3 DEF Counted
<1>4. \A w \in Worker : Owned(w) = {} /\ batch[w] = {}
  BY <1>2 DEF Owned, Requested, Checking, Answered
<1>5. Grounded /\ OnePlace /\ OneWorker
  BY <1>2, <1>4 DEF Grounded, OnePlace, OneWorker, Pending
<1>6. OneStage /\ OpenUntilEnd
  BY <1>2 DEF OneStage, StageOf, OpenUntilEnd
<1>7. QED
  BY <1>1, <1>3, <1>5, <1>6 DEF IInv

LEMMA NextInv == IInv /\ [Next]_vars => IInv'
<1> DEFINE J == OpenUntilEnd /\ Counted /\ Grounded /\ OnePlace /\ OneWorker /\ OneStage
<1> SUFFICES ASSUME IInv, [Next]_vars PROVE J'
  BY NextTyped DEF IInv
<1> USE DEF coordVars, loopVars, workerVars
<1>1. CASE \/ FindStale \/ SkipFresh \/ StartWaiting \/ EndSubmitStale
           \/ ReceiveFailure \/ EndSubmitMore \/ Finish
  BY <1>1, CoordInv
<1>2. ASSUME NEW w \in Worker, SendBatch(w) PROVE J'
  BY <1>2, SendBatchInv
<1>3. ASSUME NEW w \in Worker, SendFails(w) PROVE J'
  BY <1>3, CoordInv
<1>4. ASSUME NEW R \in SUBSET Worker, Receive(R) PROVE J'
  BY <1>4, ReceiveInv
<1>5. CASE Notify
  BY <1>5, NotifyInv
<1>6. CASE BuildReturns
  BY <1>6, FrameInv DEF BuildReturns
<1>7. ASSUME NEW w \in Worker, Close(w) PROVE J'
  BY <1>7, FrameInv DEF Close
<1>8. ASSUME NEW w \in Worker, Terminate(w) PROVE J'
  BY <1>8, StopInv DEF Terminate
<1>9. ASSUME NEW w \in Worker, ReceiveRequest(w) PROVE J'
  BY <1>9, ReceiveRequestInv
<1>10. ASSUME NEW w \in Worker, LoseConnection(w) PROVE J'
  BY <1>10, StopInv DEF LoseConnection, IInv, OpenUntilEnd
<1>11. ASSUME NEW w \in Worker, SendInterface(w) PROVE J'
  <2>1. [d \in SCC |-> IF d \in batch[w] THEN loaded[w][d] ELSE NoHash] \in [SCC -> Hash \cup {NoHash}]
    BY DEF IInv, Typed
  <2>2. QED
    BY <1>11, <2>1, RespondInv DEF SendInterface
<1>12. ASSUME NEW w \in Worker, SendImplementation(w) PROVE J'
  BY <1>12, RespondInv DEF SendImplementation
<1>13. ASSUME NEW w \in Worker, NEW s \in SCC, NEW h \in Hash, CheckInterface(w, s, h) PROVE J'
  BY <1>13, FrameInv DEF CheckInterface
<1>14. ASSUME NEW w \in Worker, NEW s \in SCC, InterfaceBlocker(w, s) PROVE J'
  BY <1>14, RespondInv DEF InterfaceBlocker
<1>15. ASSUME NEW w \in Worker, NEW s \in SCC, CheckImplementation(w, s) PROVE J'
  BY <1>15, FrameInv DEF CheckImplementation
<1>16. ASSUME NEW w \in Worker, NEW s \in SCC, ImplementationBlocker(w, s) PROVE J'
  BY <1>16, RespondInv DEF ImplementationBlocker
<1>17. ASSUME NEW w \in Worker, Crash(w) PROVE J'
  BY <1>17, StopInv DEF Crash
<1>18. ASSUME NEW w \in Worker, NEW s \in SCC, LoadFails(w, s) PROVE J'
  BY <1>18, StopInv DEF LoadFails
<1>19. CASE UNCHANGED vars
  BY <1>19, FrameInv DEF vars
<1>20. CASE KillCoordinator
  BY <1>20, KillInv
<1>21. QED
  BY <1>1, <1>2, <1>3, <1>4, <1>5, <1>6, <1>7, <1>8, <1>9, <1>10, <1>11, <1>12, <1>13,
     <1>14, <1>15, <1>16, <1>17, <1>18, <1>19, <1>20 DEF Next, Schedule, Shutdown, Serve, Over

(***************************************************************************)
(* The theorems.                                                           *)
(***************************************************************************)
LEMMA AlwaysIInv == Spec => []IInv
<1>1. IInv /\ [Next]_vars => IInv'
  BY NextInv
<1>2. QED
  BY InitInv, <1>1, PTL DEF Spec

\* Every variable keeps its type; in particular not_ready_count never becomes
\* negative (process_graph's loop over direct dependents).
THEOREM AlwaysTypeOK == Spec => []TypeOK
<1>1. IInv => TypeOK
  <2> SUFFICES ASSUME IInv PROVE \A s \in SCC : Cardinality(Deps[s] \ done) \in Nat
    BY DEF TypeOK, IInv, Counted
  <2> TAKE s \in SCC
  <2>1. IsFiniteSet(Deps[s] \ done)
    BY GraphAssumption, SizeAssumption, FS_Subset
  <2>2. QED
    BY <2>1, FS_CardinalityType
<1>2. QED
  BY AlwaysIInv, <1>1, PTL

\* Only SCCs whose dependencies are final are queued or checked, for every
\* import graph, any number of workers and any interleaving of their answers.
THEOREM AlwaysDependenciesFirst == Spec => []DependenciesFirst
<1>1. IInv => DependenciesFirst
  BY DEF IInv, Grounded, DependenciesFirst
<1>2. QED
  BY AlwaysIInv, <1>1, PTL

\* free_workers is right about who is free (submit_to_workers relies on it, and
\* so does the end of the build).
THEOREM AlwaysFreeMeansFree == Spec => []FreeMeansFree
<1>1. IInv => FreeMeansFree
  BY DEF IInv, OneStage, StageOf, FreeMeansFree, Typed
<1>2. QED
  BY AlwaysIInv, <1>1, PTL
=============================================================================
