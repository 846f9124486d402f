---------------------------- MODULE CacheProofs -----------------------------
(***************************************************************************)
(* Proofs about IncrementalCache: for any modules and imports, any number  *)
(* of runs, edits between them and faults.                                 *)
(***************************************************************************)
EXTENDS IncrementalCache, SequenceTheorems, WellFoundedInduction, NaturalsInduction, TLAPS

(***************************************************************************)
(* Numbers and graphs.                                                     *)
(***************************************************************************)
\* The library's theorems of induction are about operators; this one is not.
LEMMA Smallest ==
  ASSUME NEW S \in SUBSET Nat, S # {}
  PROVE  \E n \in S : \A k \in S : n <= k
<1> DEFINE R == OpToRel(<, Nat)
<1>1. IsWellFoundedOn(R, Nat)
  BY NatLessThanWellFounded
<1>2. ASSUME NEW x \in Nat, NEW y \in Nat, y < x PROVE <<y, x>> \in R
  BY <1>2, Zenon DEF OpToRel
<1> HIDE DEF R
<1>3. PICK x \in S : \A y \in S : ~(<<y, x>> \in R)
  BY <1>1, WFMin
<1>4. ASSUME NEW k \in S PROVE x <= k
  <2>1. ~(k < x)
    BY <1>2, <1>3
  <2>2. QED
    BY <2>1
<1>5. QED
  BY <1>4

LEMMA ReachLeast ==
  ASSUME NEW D, NEW roots, NEW M \in SUBSET DOMAIN D, roots \subseteq M, ClosedUnder(D, M)
  PROVE  Reach(D, roots) \subseteq M
BY DEF Reach

LEMMA ReachClosed ==
  ASSUME NEW D, NEW roots \in SUBSET DOMAIN D, \A n \in Reach(D, roots) : D[n] \subseteq DOMAIN D
  PROVE  ClosedUnder(D, Reach(D, roots)) /\ Reach(D, roots) \subseteq DOMAIN D /\ roots \subseteq Reach(D, roots)
BY DEF Reach, ClosedUnder

\* Two graphs that agree on a set that one of them does not leave.
LEMMA ReachAgree ==
  ASSUME NEW D, NEW E, DOMAIN D = DOMAIN E, NEW M \in SUBSET DOMAIN D, NEW roots \in SUBSET M,
         ClosedUnder(D, M), \A n \in M : D[n] = E[n]
  PROVE  Reach(D, roots) = Reach(E, roots)
<1>1. Reach(D, roots) \subseteq M /\ Reach(E, roots) \subseteq M
  BY ReachLeast DEF ClosedUnder
<1>2. \A n \in M : D[n] \subseteq DOMAIN D /\ E[n] \subseteq DOMAIN E
  BY DEF ClosedUnder
<1>3. /\ ClosedUnder(D, Reach(D, roots)) /\ roots \subseteq Reach(D, roots)
      /\ ClosedUnder(E, Reach(E, roots)) /\ roots \subseteq Reach(E, roots)
  BY <1>1, <1>2, ReachClosed
<1>4. ClosedUnder(E, Reach(D, roots)) /\ ClosedUnder(D, Reach(E, roots))
  BY <1>1, <1>3 DEF ClosedUnder
<1>5. Reach(E, roots) \subseteq Reach(D, roots) /\ Reach(D, roots) \subseteq Reach(E, roots)
  BY <1>1, <1>3, <1>4, ReachLeast
<1>6. QED
  BY <1>5

(***************************************************************************)
(* The order of the SCCs.                                                  *)
(***************************************************************************)
\* The modules of the SCCs before the k-th.
Before(k) == {m \in Module : \E j \in DOMAIN Order : j < k /\ m \in Order[j]}

LEMMA OrderFacts ==
  /\ Len(Order) \in Nat /\ DOMAIN Order = 1 .. Len(Order)
  /\ \A i \in DOMAIN Order : Order[i] \subseteq Module /\ Order[i] # {}
<1> DEFINE S == (SUBSET Module) \ {{}}
<1>1. Order \in Seq(S)
  BY OrderAssumption
<1> HIDE DEF S
<1>2. Len(Order) \in Nat /\ DOMAIN Order = 1 .. Len(Order) /\ \A i \in DOMAIN Order : Order[i] \in S
  BY <1>1, ElementOfSeq, LenProperties
<1>3. QED
  BY <1>2 DEF S

LEMMA BeforeFacts ==
  /\ Before(1) = {} /\ Before(Len(Order) + 1) = Module
  /\ \A k \in DOMAIN Order : Before(k + 1) = Before(k) \cup Order[k] /\ Before(k) \cap Order[k] = {}
<1>1. Before(1) = {}
  BY OrderFacts DEF Before
<1>2. Before(Len(Order) + 1) = Module
  <2>1. \A j \in DOMAIN Order : j < Len(Order) + 1
    BY OrderFacts
  <2>2. QED
    BY <2>1, OrderAssumption DEF Before
<1>3. ASSUME NEW k \in DOMAIN Order PROVE Before(k + 1) = Before(k) \cup Order[k]
  <2>1. \A j \in DOMAIN Order : j < k + 1 <=> j < k \/ j = k
    BY OrderFacts
  <2>2. QED
    BY <2>1, OrderFacts DEF Before
<1>4. ASSUME NEW k \in DOMAIN Order PROVE Before(k) \cap Order[k] = {}
  BY OrderAssumption DEF Before
<1>5. QED
  BY <1>1, <1>2, <1>3, <1>4

LEMMA VersionFacts ==
  ASSUME NEW t \in Versions, NEW m \in Module
  PROVE  /\ t[m] \in Source[m] /\ t[m] \in Sources
         /\ t[m].mentions \subseteq Reach(Imports, {m}) /\ t[m].mentions \subseteq Module
         /\ t[m].infers \subseteq Imports[m]
         /\ \A i \in DOMAIN Order : m \in Order[i] => t[m].infers \cap Order[i] = {}
<1>1. t[m] \in Source[m] /\ t[m] \in Sources
  BY DEF Versions, Sources
<1>2. \A i \in DOMAIN Order : m \in Order[i] =>
        t[m].mentions \subseteq Reach(Imports, {m}) /\ t[m].infers \subseteq Imports[m] \ Order[i]
  BY <1>1, SourceAssumption
<1>3. Reach(Imports, {m}) \subseteq Module
  BY OrderAssumption DEF Reach
<1>4. QED
  BY <1>1, <1>2, <1>3, OrderAssumption

\* What a module imports or mentions is in its own SCC or in an earlier one, and what
\* its inferred types come from in an earlier one.
LEMMA Earlier ==
  ASSUME NEW t \in Versions, NEW k, k = Len(Order) + 1 \/ k \in DOMAIN Order
  PROVE  /\ \A m \in Before(k) : Imports[m] \subseteq Before(k) /\ t[m].mentions \subseteq Before(k)
         /\ \A m \in Before(k) : t[m].infers \subseteq Before(k)
         /\ k \in DOMAIN Order => \A m \in Order[k] : t[m].infers \subseteq Before(k)
<1>0. k \in Nat /\ \A j \in DOMAIN Order : j \in Nat
  BY OrderFacts
<1>1. ASSUME NEW j \in DOMAIN Order, NEW m \in Order[j], NEW d \in Imports[m]
      PROVE  d \in Module /\ \E i \in DOMAIN Order : i <= j /\ d \in Order[i]
  <2>1. m \in Module
    BY OrderFacts
  <2>2. d \in Module
    BY <2>1, OrderAssumption
  <2>3. PICK i \in DOMAIN Order : d \in Order[i]
    BY <2>2, OrderAssumption
  <2>4. ~(j < i)
    BY <2>3, OrderAssumption
  <2>5. QED
    BY <1>0, <2>2, <2>3, <2>4
<1>2. ASSUME NEW m \in Before(k) PROVE Imports[m] \subseteq Before(k)
  <2>1. PICK j \in DOMAIN Order : j < k /\ m \in Order[j]
    BY DEF Before
  <2>2. ASSUME NEW d \in Imports[m] PROVE d \in Before(k)
    <3>1. PICK i \in DOMAIN Order : i <= j /\ d \in Order[i] /\ d \in Module
      BY <1>1, <2>1
    <3>2. i < k
      BY <1>0, <2>1, <3>1
    <3>3. QED
      BY <3>1, <3>2 DEF Before
  <2>3. QED
    BY <2>2
<1>3. ASSUME NEW m \in Before(k) PROVE t[m].mentions \subseteq Before(k) /\ t[m].infers \subseteq Before(k)
  <2>1. ClosedUnder(Imports, Before(k)) /\ Before(k) \in SUBSET DOMAIN Imports /\ {m} \subseteq Before(k) /\ m \in Module
    BY <1>2, OrderAssumption DEF ClosedUnder, Before
  <2>2. Reach(Imports, {m}) \subseteq Before(k)
    BY <2>1, ReachLeast
  <2>3. QED
    BY <1>2, <2>1, <2>2, VersionFacts
<1>4. ASSUME k \in DOMAIN Order, NEW m \in Order[k], NEW d \in t[m].infers PROVE d \in Before(k)
  <2>1. m \in Module
    BY <1>4, OrderFacts
  <2>2. d \in Imports[m] /\ d \notin Order[k]
    BY <1>4, <2>1, VersionFacts
  <2>3. PICK i \in DOMAIN Order : i <= k /\ d \in Order[i] /\ d \in Module
    BY <1>1, <1>4, <2>2
  <2>4. i < k
    BY <1>0, <2>2, <2>3
  <2>5. QED
    BY <2>3, <2>4 DEF Before
<1>5. QED
  BY <1>2, <1>3, <1>4

(***************************************************************************)
(* What a run without a cache computes.                                    *)
(***************************************************************************)
\* The interface of m, given those it is inferred from.
Declared(t, g, m) == [decl |-> t[m].decl, mentions |-> t[m].mentions, from |-> {g[d] : d \in t[m].infers}]

LEMMA DeclaredAgree ==
  ASSUME NEW t, NEW g, NEW h, NEW m, \A d \in t[m].infers : g[d] = h[d]
  PROVE  Declared(t, g, m) = Declared(t, h, m)
<1>1. {g[d] : d \in t[m].infers} = {h[d] : d \in t[m].infers}
  OBVIOUS
<1>2. QED
  BY <1>1 DEF Declared

\* The equations for the interfaces have a solution: SCC by SCC.
LEMMA Solution ==
  ASSUME NEW t \in Versions
  PROVE  \E g : \A m \in Module : g[m] = Declared(t, g, m)
<1> DEFINE K == {k \in 1 .. Len(Order) + 1 : ~\E g : \A m \in Before(k) : g[m] = Declared(t, g, m)}
<1>1. CASE K = {}
  <2>1. Len(Order) + 1 \in 1 .. Len(Order) + 1
    BY OrderFacts
  <2>2. \E g : \A m \in Before(Len(Order) + 1) : g[m] = Declared(t, g, m)
    BY <1>1, <2>1
  <2>3. QED
    BY <2>2, BeforeFacts
<1>2. CASE K # {}
  <2>1. PICK k \in K : \A i \in K : k <= i
    <3>1. K \in SUBSET Nat
      BY OrderFacts
    <3> HIDE DEF K
    <3>2. QED
      BY <1>2, <3>1, Smallest
  <2>2. k \in 1 .. Len(Order) + 1 /\ ~\E g : \A m \in Before(k) : g[m] = Declared(t, g, m)
    OBVIOUS
  <2>3. k # 1
    BY <2>2, BeforeFacts
  <2> DEFINE j == k - 1
  <2>4. j \in DOMAIN Order /\ j + 1 = k /\ j \in 1 .. Len(Order) + 1 /\ ~(k <= j)
    BY <2>2, <2>3, OrderFacts
  <2>5. j \notin K
    BY <2>1, <2>4
  <2>6. PICK g : \A m \in Before(j) : g[m] = Declared(t, g, m)
    BY <2>4, <2>5
  <2> DEFINE h == [m \in Module |-> IF m \in Before(j) THEN g[m] ELSE Declared(t, g, m)]
  <2> HIDE DEF j
  <2>7. ASSUME NEW m \in Before(k) PROVE m \in Module /\ t[m].infers \subseteq Before(j)
    <3>1. m \in Before(j) \/ m \in Order[j]
      BY <2>4, BeforeFacts
    <3>2. QED
      BY <2>4, <3>1, Earlier DEF Before
  <2>8. ASSUME NEW m \in Before(k) PROVE h[m] = Declared(t, h, m)
    <3>1. m \in Module /\ \A d \in t[m].infers : h[d] = g[d]
      BY <2>7 DEF Before
    <3>2. Declared(t, h, m) = Declared(t, g, m)
      BY <3>1, DeclaredAgree
    <3>3. h[m] = Declared(t, g, m)
      BY <2>6, <3>1
    <3>4. QED
      BY <3>2, <3>3
  <2>9. QED
    BY <2>2, <2>8
<1>3. QED
  BY <1>1, <1>2

LEMMA CleanIs ==
  ASSUME NEW t \in Versions, NEW m \in Module
  PROVE  Clean(t)[m] = Declared(t, Clean(t), m)
<1>1. PICK g : \A n \in Module : g[n] = Declared(t, g, n)
  BY Solution
<1> DEFINE f == [n \in Module |-> g[n]]
<1>2. ASSUME NEW n \in Module PROVE f[n] = Declared(t, f, n)
  <2>1. \A d \in t[n].infers : f[d] = g[d]
    BY VersionFacts, OrderAssumption
  <2>2. QED
    BY <1>1, <2>1, DeclaredAgree
<1>3. f = [n \in Module |-> [decl |-> t[n].decl, mentions |-> t[n].mentions, from |-> {f[d] : d \in t[n].infers}]]
  BY <1>2 DEF Declared
<1> HIDE DEF f
<1>4. Clean(t) = [n \in Module |-> [decl |-> t[n].decl, mentions |-> t[n].mentions,
                                    from |-> {Clean(t)[d] : d \in t[n].infers}]]
  BY <1>3 DEF Clean
<1>5. QED
  BY <1>4 DEF Declared

LEMMA CleanFacts ==
  ASSUME NEW t \in Versions, NEW m \in Module
  PROVE  /\ Clean(t)[m].decl = t[m].decl /\ Clean(t)[m].mentions = t[m].mentions
         /\ Clean(t)[m] \in Interfaces /\ Clean(t)[m] # Nothing
<1>1. Clean(t)[m] \in Interfaces
  BY DEF Interfaces
<1>2. Clean(t)[m] = Declared(t, Clean(t), m)
  BY CleanIs
<1>3. Clean(t)[m].decl = t[m].decl /\ Clean(t)[m].mentions = t[m].mentions
  BY <1>2 DEF Declared
<1>4. Clean(t)[m] # Nothing
  BY <1>1, NothingAssumption
<1>5. QED
  BY <1>1, <1>3, <1>4

(***************************************************************************)
(* What is looked at, and what is recorded of it.                          *)
(***************************************************************************)
\* A run without a cache on the sources t looks at SeenIn(t, m), and shows
\* ErrorsOf(t, m); HashesOf(t, S) is what a run records of the modules of S.
Mention(t) == [d \in Module |-> t[d].mentions]
SeenIn(t, m) == Reach(Mention(t), Imports[m]) \ {m}
HashesOf(t, S) == [d \in Module |-> IF d \in S THEN Clean(t)[d] ELSE Nothing]
ErrorsOf(t, m) == [source |-> t[m], seen |-> [d \in SeenIn(t, m) |-> Clean(t)[d]]]

\* The files of m are those of a run on the sources t.
MetaOf(t, m) == meta[m].source = t[m] /\ meta[m].interface = Clean(t)[m] /\ meta[m].hashes = HashesOf(t, Imports[m])
ExOf(t, m) == metaEx[m].hashes = HashesOf(t, SeenIn(t, m) \ Imports[m]) /\ metaEx[m].errors = ErrorsOf(t, m)

LEMMA MentionFacts ==
  ASSUME NEW t \in Versions
  PROVE  Mention(t) \in [Module -> SUBSET Module] /\ \A d \in Module : Mention(t)[d] = t[d].mentions
BY VersionFacts DEF Mention

\* All that is looked at for a module is in its SCC or in earlier ones.
LEMMA SeenEarlier ==
  ASSUME NEW t \in Versions, NEW k, k = Len(Order) + 1 \/ k \in DOMAIN Order, NEW m \in Before(k)
  PROVE  Reach(Mention(t), Imports[m]) \subseteq Before(k) /\ SeenIn(t, m) \subseteq Before(k) /\ m \in Module
<1>1. Before(k) \in SUBSET DOMAIN Mention(t) /\ Imports[m] \subseteq Before(k)
  BY MentionFacts, Earlier DEF Before
<1>2. ClosedUnder(Mention(t), Before(k))
  BY MentionFacts, Earlier DEF ClosedUnder, Before
<1>3. Reach(Mention(t), Imports[m]) \subseteq Before(k)
  BY <1>1, <1>2, ReachLeast
<1>4. QED
  BY <1>3 DEF SeenIn, Before

\* Two versions of the sources that have the same interfaces where one of them looks.
LEMMA SameSeen ==
  ASSUME NEW t \in Versions, NEW u \in Versions, NEW m \in Module, t[m] = u[m],
         \A d \in SeenIn(t, m) : Clean(t)[d] = Clean(u)[d]
  PROVE  SeenIn(t, m) = SeenIn(u, m) /\ ErrorsOf(t, m) = ErrorsOf(u, m)
<1>1. Imports[m] \in SUBSET Module
  BY OrderAssumption
<1>2. ASSUME NEW d \in Reach(Mention(t), Imports[m]) PROVE Mention(t)[d] = Mention(u)[d]
  <2>1. d \in Module
    BY MentionFacts DEF Reach
  <2>2. CASE d = m
    BY <2>1, <2>2, MentionFacts
  <2>3. CASE d # m
    <3>1. Clean(t)[d] = Clean(u)[d]
      BY <2>3 DEF SeenIn
    <3>2. t[d].mentions = u[d].mentions
      BY <2>1, <3>1, CleanFacts
    <3>3. QED
      BY <2>1, <3>2, MentionFacts
  <2>4. QED
    BY <2>2, <2>3
<1>3. Reach(Mention(t), Imports[m]) = Reach(Mention(u), Imports[m])
  <2> DEFINE M == Reach(Mention(t), Imports[m])
  <2>1. DOMAIN Mention(t) = Module /\ DOMAIN Mention(u) = Module /\ M \subseteq Module
    BY MentionFacts DEF Reach
  <2>2. \A n \in M : Mention(t)[n] \subseteq Module
    BY <2>1, MentionFacts
  <2>3. ClosedUnder(Mention(t), M) /\ Imports[m] \subseteq M
    BY <1>1, <2>1, <2>2, ReachClosed
  <2>4. QED
    BY <1>2, <2>1, <2>3, ReachAgree
<1>4. SeenIn(t, m) = SeenIn(u, m)
  BY <1>3 DEF SeenIn
<1>5. [d \in SeenIn(t, m) |-> Clean(t)[d]] = [d \in SeenIn(u, m) |-> Clean(u)[d]]
  BY <1>4
<1>6. QED
  BY <1>4, <1>5 DEF ErrorsOf

\* What the process looks at, if it has the interfaces of a run without a cache for
\* all modules up to the SCC of m.
LEMMA SeenNow ==
  ASSUME src \in Versions, NEW k, k = Len(Order) + 1 \/ k \in DOMAIN Order, NEW m \in Before(k),
         \A d \in Before(k) : Tree(d) = Clean(src)[d]
  PROVE  Seen(m) = SeenIn(src, m) /\ Diagnostics(m) = ErrorsOf(src, m)
<1> DEFINE E == [d \in Module |-> Mentions(d)]
<1>1. Imports[m] \in SUBSET Module /\ Before(k) \subseteq Module
  BY OrderAssumption DEF Before
<1>2. ASSUME NEW d \in Before(k) PROVE E[d] = Mention(src)[d]
  BY <1>1, <1>2, CleanFacts, MentionFacts DEF Mentions
<1>3. Reach(Mention(src), Imports[m]) \subseteq Before(k)
  BY SeenEarlier
<1>4. Reach(Mention(src), Imports[m]) = Reach(E, Imports[m])
  <2>1. DOMAIN Mention(src) = Module /\ DOMAIN E = Module
    BY MentionFacts
  <2>2. ClosedUnder(Mention(src), Before(k)) /\ Imports[m] \subseteq Before(k)
    BY <1>1, Earlier, MentionFacts DEF ClosedUnder
  <2> HIDE DEF E
  <2>3. QED
    BY <1>1, <1>2, <2>1, <2>2, ReachAgree
<1>5. Seen(m) = SeenIn(src, m)
  BY <1>4 DEF Seen, SeenIn
<1>6. SeenIn(src, m) \subseteq Before(k)
  BY <1>3 DEF SeenIn
<1>7. [d \in Seen(m) |-> Tree(d)] = [d \in SeenIn(src, m) |-> Clean(src)[d]]
  BY <1>5, <1>6
<1>8. QED
  BY <1>5, <1>7 DEF Diagnostics, ErrorsOf

(***************************************************************************)
(* The invariant.                                                          *)
(***************************************************************************)
Typed ==
  /\ CacheTypeOK /\ src \in Versions
  /\ DOMAIN data = Module /\ DOMAIN meta = Module /\ DOMAIN metaEx = Module /\ DOMAIN interfaceHash = Module
  /\ DOMAIN tree = Module /\ DOMAIN stamp = Module /\ DOMAIN shown = Module
  /\ \A m \in Module : meta[m] # Nothing => meta[m].stamp \in 1 .. run
  /\ pc \in {"data", "meta", "implementation"} => at \in DOMAIN Order /\ left \subseteq Current
  /\ pc = "done" => at = Len(Order) + 1
  /\ pc # "idle" => run # 0
  /\ faults = 0 => past # "exposed"

\* What rests on the disk is what one run left there.
DiskOK(m) ==
  /\ meta[m] # Nothing => data[m] # Nothing /\ meta[m].interface = data[m].interface
  /\ Found(m) => \E t \in Versions : MetaOf(t, m) /\ ExOf(t, m)

\* A module that the run has not come to.
AsFound(m) == interfaceHash[m] = IF Found(m) THEN meta[m].interface ELSE Nothing
Older(m) == (data[m] # Nothing => data[m].stamp < run) /\ (meta[m] # Nothing => meta[m].stamp < run)
Waits(m) == DiskOK(m) /\ AsFound(m) /\ Older(m) /\ stamp[m] = Nothing

\* A module whose tree, whose meta, and whose meta_ex were written, unless write_cache
\* gave up, and those that a run without faults leaves.
Described(m) == meta[m] # Nothing /\ data[m] # Nothing /\ meta[m].stamp = data[m].stamp
                  => meta[m].interface = data[m].interface
TreeWritten(m) == data[m] # Nothing /\ data[m].interface = Clean(src)[m] /\ data[m].stamp = stamp[m]
GaveUp(m) == stamp[m] = Nothing /\ DiskOK(m) /\ faults # 0
WroteTree(m) == GaveUp(m) \/ (stamp[m] # Nothing /\ TreeWritten(m) /\ Described(m))
WroteMeta(m) == GaveUp(m) \/ /\ stamp[m] # Nothing /\ TreeWritten(m) /\ (meta[m] # Nothing => MetaOf(src, m))
                             /\ faults = 0 => meta[m] # Nothing /\ meta[m].stamp = stamp[m]
Kept(m) == Valid(m) /\ MetaOf(src, m) /\ ExOf(src, m)
Finished(m) == /\ DiskOK(m) /\ Tree(m) = Clean(src)[m] /\ interfaceHash[m] = Clean(src)[m]
               /\ shown[m] = ErrorsOf(src, m) /\ (faults = 0 => Kept(m))

\* The modules of the SCC that is being processed.
Processed(m) ==
  /\ tree[m] = Clean(src)[m]
  /\ pc = "data" /\ m \in left => Waits(m)
  /\ (pc = "data" /\ m \notin left) \/ (pc = "meta" /\ m \in left) => WroteTree(m)
  /\ (pc = "meta" /\ m \notin left) \/ (pc = "implementation" /\ m \in left) => WroteMeta(m)
  /\ pc = "implementation" /\ m \notin left => Finished(m)
  /\ ~(pc = "data" /\ m \in left) => interfaceHash[m] = Clean(src)[m]

Processing == pc \in {"data", "meta", "implementation"}
RunInv ==
  /\ pc = "idle" => \A m \in Module : DiskOK(m)
  /\ pc # "idle" =>
       /\ \A m \in Before(at) : Finished(m)
       /\ \A m \in Module \ Before(at) : (Processing /\ m \in Current) \/ (Waits(m) /\ tree[m] = Nothing)
  /\ Processing => \A m \in Current : Processed(m)

\* Before the first edit all the files are those of a run on these sources.
ColdInv ==
  \A m \in Module : /\ data[m] # Nothing => data[m].interface = Clean(src)[m]
                    /\ meta[m] # Nothing => data[m] # Nothing /\ MetaOf(src, m)
                    /\ metaEx[m] # Nothing => ExOf(src, m)

\* After a run without faults, and without an edit, every module is fresh.
SettledInv ==
  /\ pc \in {"idle", "done", "next"}
  /\ \A m \in Module : Kept(m) /\ (pc = "next" => interfaceHash[m] = Clean(src)[m])

CInv == /\ Typed
        /\ past # "exposed" => RunInv
        /\ past = "cold" => ColdInv
        /\ settled => SettledInv

(***************************************************************************)
(* A fresh SCC.                                                            *)
(***************************************************************************)
\* Hashes that agree with those of this run, as far as it has come.
LEMMA HashesAgree ==
  ASSUME NEW t \in Versions, src \in Versions, NEW S \in SUBSET Module,
         \A d \in S : interfaceHash[d] = Clean(src)[d],
         \A d \in Module : HashesOf(t, S)[d] \in {Nothing, interfaceHash[d]}
  PROVE  (\A d \in S : Clean(t)[d] = Clean(src)[d]) /\ HashesOf(t, S) = HashesOf(src, S)
<1>1. ASSUME NEW d \in S PROVE Clean(t)[d] = Clean(src)[d]
  <2>1. HashesOf(t, S)[d] = Clean(t)[d] /\ Clean(t)[d] # Nothing
    BY CleanFacts DEF HashesOf
  <2>2. QED
    BY <2>1
<1>2. QED
  BY <1>1 DEF HashesOf

\* What find_stale_sccs compares is enough.
LEMMA FreshIsRight ==
  ASSUME Typed, RunInv, pc = "next", at \in DOMAIN Order, FreshSCC
  PROVE  \A m \in Current : /\ MetaOf(src, m) /\ ExOf(src, m) /\ Valid(m) /\ Waits(m)
                            /\ interfaceHash[m] = Clean(src)[m] /\ Tree(m) = Clean(src)[m]
<1>0. src \in Versions /\ Current \subseteq Module /\ Before(at) \subseteq Module
      /\ Before(at + 1) = Before(at) \cup Current /\ Before(at) \cap Current = {}
      /\ (at + 1 = Len(Order) + 1 \/ at + 1 \in DOMAIN Order)
  BY OrderFacts, BeforeFacts DEF Typed, Current, Before
<1>1. \A m \in Before(at) : interfaceHash[m] = Clean(src)[m]
  BY DEF RunInv, Finished
<1>2. ASSUME NEW m \in Current
      PROVE  /\ m \in Module /\ Waits(m) /\ tree[m] = Nothing /\ Valid(m)
             /\ \E t \in Versions : MetaOf(t, m) /\ ExOf(t, m) /\ t[m] = src[m] /\ interfaceHash[m] = Clean(t)[m]
  <2>1. m \in Module /\ Waits(m) /\ tree[m] = Nothing /\ Valid(m)
    BY <1>0, OrderFacts DEF RunInv, Processing, FreshSCC
  <2>2. PICK t \in Versions : MetaOf(t, m) /\ ExOf(t, m)
    BY <2>1 DEF Waits, DiskOK, Valid
  <2>3. t[m] = src[m] /\ interfaceHash[m] = Clean(t)[m]
    BY <2>1, <2>2 DEF MetaOf, Valid, Waits, AsFound
  <2>4. QED
    BY <2>1, <2>2, <2>3
<1>3. ASSUME NEW m \in Current PROVE interfaceHash[m] = Clean(src)[m]
  <2>1. PICK t \in Versions : MetaOf(t, m) /\ t[m] = src[m] /\ interfaceHash[m] = Clean(t)[m]
    BY <1>2
  <2>2. m \in Module /\ t[m].infers \subseteq Imports[m] /\ t[m].infers \subseteq Before(at)
    BY <1>0, <2>1, VersionFacts, Earlier DEF Current
  <2>3. ASSUME NEW d \in t[m].infers PROVE Clean(t)[d] = Clean(src)[d]
    <3>1. d \in Module /\ d \in Imports[m] /\ interfaceHash[d] = Clean(src)[d]
      BY <1>0, <1>1, <2>2
    <3>2. meta[m].hashes[d] = Clean(t)[d] /\ Clean(t)[d] # Nothing
      BY <2>1, <3>1, CleanFacts DEF MetaOf, HashesOf
    <3>3. meta[m].hashes[d] \in {Nothing, interfaceHash[d]}
      BY <3>1 DEF FreshSCC
    <3>4. QED
      BY <3>1, <3>2, <3>3
  <2>4. Declared(t, Clean(t), m) = Declared(t, Clean(src), m)
    BY <2>3, DeclaredAgree
  <2>5. Declared(t, Clean(src), m) = Declared(src, Clean(src), m)
    BY <2>1 DEF Declared
  <2>6. Clean(t)[m] = Declared(t, Clean(t), m) /\ Clean(src)[m] = Declared(src, Clean(src), m)
    BY <1>0, <2>2, CleanIs
  <2>7. QED
    BY <2>1, <2>4, <2>5, <2>6
<1>4. \A d \in Before(at + 1) : interfaceHash[d] = Clean(src)[d]
  BY <1>0, <1>1, <1>3
<1>5. ASSUME NEW m \in Current PROVE MetaOf(src, m) /\ ExOf(src, m)
  <2>1. PICK t \in Versions : MetaOf(t, m) /\ ExOf(t, m) /\ t[m] = src[m]
    BY <1>2
  <2> DEFINE direct == Imports[m]
             indirect == SeenIn(t, m) \ Imports[m]
  <2>2. m \in Module /\ m \in Before(at + 1) /\ Before(at + 1) \subseteq Module
    BY <1>0
  <2>3. direct \in SUBSET Before(at + 1) /\ indirect \in SUBSET Before(at + 1)
    BY <1>0, <2>1, <2>2, Earlier, SeenEarlier
  <2>4. \A d \in Module : HashesOf(t, direct)[d] \in {Nothing, interfaceHash[d]}
                       /\ HashesOf(t, indirect)[d] \in {Nothing, interfaceHash[d]}
    BY <2>1 DEF FreshSCC, MetaOf, ExOf
  <2> HIDE DEF direct, indirect
  <2>5. (\A d \in direct : Clean(t)[d] = Clean(src)[d]) /\ HashesOf(t, direct) = HashesOf(src, direct)
    BY <1>0, <1>4, <2>2, <2>3, <2>4, HashesAgree
  <2>6. (\A d \in indirect : Clean(t)[d] = Clean(src)[d]) /\ HashesOf(t, indirect) = HashesOf(src, indirect)
    BY <1>0, <1>4, <2>2, <2>3, <2>4, HashesAgree
  <2>7. \A d \in SeenIn(t, m) : Clean(t)[d] = Clean(src)[d]
    BY <2>5, <2>6 DEF direct, indirect
  <2>8. SeenIn(t, m) = SeenIn(src, m) /\ ErrorsOf(t, m) = ErrorsOf(src, m)
    BY <1>0, <2>1, <2>2, <2>7, SameSeen
  <2>9. MetaOf(src, m)
    BY <1>3, <2>1, <2>2, <2>5, <1>2 DEF MetaOf, direct, AsFound, Waits, Valid
  <2>10. ExOf(src, m)
    BY <2>1, <2>6, <2>8 DEF ExOf, indirect
  <2>11. QED
    BY <2>9, <2>10
<1>6. ASSUME NEW m \in Current PROVE Tree(m) = Clean(src)[m]
  <2>1. tree[m] = Nothing /\ DiskOK(m) /\ AsFound(m) /\ Valid(m)
    BY <1>2 DEF Waits
  <2>2. meta[m].interface = Clean(src)[m] /\ meta[m].interface = data[m].interface /\ data[m] # Nothing
    BY <1>5, <2>1 DEF MetaOf, DiskOK, Valid, Found
  <2>3. QED
    BY <2>1, <2>2 DEF Tree
<1>7. QED
  BY <1>2, <1>3, <1>5, <1>6

(***************************************************************************)
(* Modules that a step leaves alone.                                       *)
(***************************************************************************)
FilesSame(m) == data'[m] = data[m] /\ meta'[m] = meta[m] /\ metaEx'[m] = metaEx[m]
Same(m) == /\ FilesSame(m) /\ src' = src /\ run' = run /\ (faults' = 0 => faults = 0)
           /\ interfaceHash'[m] = interfaceHash[m] /\ stamp'[m] = stamp[m]

LEMMA Frame ==
  ASSUME NEW m, FilesSame(m)
  PROVE  /\ DiskOK(m) => DiskOK(m)'
         /\ Same(m) /\ Waits(m) => Waits(m)'
         /\ Same(m) /\ WroteTree(m) => WroteTree(m)'
         /\ Same(m) /\ WroteMeta(m) => WroteMeta(m)'
         /\ Same(m) /\ tree'[m] = tree[m] /\ shown'[m] = shown[m] /\ Finished(m) => Finished(m)'
<1>1. DiskOK(m) => DiskOK(m)'
  BY DEF DiskOK, Found, MetaOf, ExOf, FilesSame
<1>2. Same(m) /\ Waits(m) => Waits(m)'
  BY <1>1 DEF Waits, AsFound, Found, Older, Same, FilesSame
<1>3. Same(m) /\ GaveUp(m) => GaveUp(m)'
  BY <1>1 DEF GaveUp, Same
<1>4. Same(m) /\ WroteTree(m) => WroteTree(m)'
  BY <1>3 DEF WroteTree, TreeWritten, Described, Same, FilesSame
<1>5. Same(m) => (MetaOf(src, m) => MetaOf(src, m)') /\ (ExOf(src, m) => ExOf(src, m)')
  BY DEF MetaOf, ExOf, Same, FilesSame, ErrorsOf
<1>6. Same(m) /\ WroteMeta(m) => WroteMeta(m)'
  BY <1>3, <1>5 DEF WroteMeta, TreeWritten, Same, FilesSame
<1>7. Same(m) /\ Kept(m) => Kept(m)'
  BY <1>5 DEF Kept, Valid, Found, Same, FilesSame
<1>8. Same(m) /\ tree'[m] = tree[m] /\ shown'[m] = shown[m] /\ Finished(m) => Finished(m)'
  BY <1>1, <1>7 DEF Finished, Tree, Same, FilesSame
<1>9. QED
  BY <1>1, <1>2, <1>4, <1>6, <1>8

(***************************************************************************)
(* Types.                                                                  *)
(***************************************************************************)
LEMMA TypedInit ==
  CacheInit => Typed
<1> SUFFICES ASSUME CacheInit PROVE Typed
  OBVIOUS
<1>1. src \in Versions /\ \A m \in Module : src[m] \in Source[m]
  BY VersionFacts DEF CacheInit
<1>2. at \in 1 .. Len(Order) + 1 /\ run \in 0 .. MaxRuns /\ faults \in 0 .. MaxFaults
  BY OrderFacts, BoundsAssumption DEF CacheInit
<1>3. CacheTypeOK
  BY <1>1, <1>2 DEF CacheInit, CacheTypeOK
<1>4. QED
  BY <1>1, <1>3 DEF Typed, CacheInit

\* A fault that happens, or not, keeps the two histories in order.
LEMMA FaultTyped ==
  ASSUME Typed, NEW kind, Fault(kind) \/ NoFault
  PROVE  /\ faults' \in 0 .. MaxFaults /\ past' \in {"cold", "edited", "exposed"}
         /\ (faults' = 0 => faults = 0 /\ past' # "exposed") /\ (past' # "exposed" => past # "exposed")
         /\ (past' = "cold" => past = "cold")
BY BoundsAssumption DEF Typed, CacheTypeOK, Fault, NoFault

LEMMA TypedStartRun ==
  Typed /\ StartRun => Typed'
<1> SUFFICES ASSUME Typed, StartRun PROVE Typed'
  OBVIOUS
<1>1. run' \in 0 .. MaxRuns /\ run' # 0 /\ at' \in 1 .. Len(Order) + 1 /\ \A n : n \in 1 .. run => n \in 1 .. run'
  BY OrderFacts, BoundsAssumption DEF Typed, CacheTypeOK, StartRun
<1>2. CacheTypeOK'
  BY <1>1 DEF Typed, CacheTypeOK, StartRun, disk
<1>3. QED
  BY <1>1, <1>2 DEF Typed, StartRun, disk

LEMMA TypedEdit ==
  ASSUME NEW m \in Module, NEW s \in Source[m], Typed, Edit(m, s)
  PROVE  Typed' /\ past' # "cold"
<1>1. src' \in Versions /\ \A n \in Module : src'[n] \in Source[n]
  BY DEF Versions, Sources, Typed, Edit
<1>2. CacheTypeOK' /\ past' # "cold"
  BY <1>1 DEF Typed, CacheTypeOK, Edit, disk, memory
<1>3. QED
  BY <1>1, <1>2 DEF Typed, Edit, disk, memory

LEMMA TypedNext ==
  ASSUME Typed, Skip \/ Check \/ EndRun
  PROVE  Typed'
<1>1. at \in 1 .. Len(Order) + 1 /\ DOMAIN Order = 1 .. Len(Order) /\ Len(Order) \in Nat
  BY OrderFacts DEF Typed, CacheTypeOK
<1>2. CASE Skip
  <2>1. at' \in 1 .. Len(Order) + 1
    BY <1>1, <1>2 DEF Skip
  <2>2. CacheTypeOK'
    BY <1>2, <2>1 DEF Typed, CacheTypeOK, Skip, disk
  <2>3. QED
    BY <1>2, <2>2 DEF Typed, Skip, disk
<1>3. CASE Check
  <2>1. at \in DOMAIN Order /\ Current \subseteq Module
    BY <1>1, <1>3, OrderFacts DEF Check, Current
  <2>2. CacheTypeOK'
    BY <1>3, <2>1 DEF Typed, CacheTypeOK, Check, disk
  <2>3. left' \subseteq Current'
    BY <1>3 DEF Check, Current
  <2>4. QED
    BY <1>3, <2>1, <2>2, <2>3 DEF Typed, Check, disk
<1>4. CASE EndRun
  <2>1. at = Len(Order) + 1
    BY <1>1, <1>4 DEF EndRun
  <2>2. CacheTypeOK'
    BY <1>4 DEF Typed, CacheTypeOK, EndRun, disk, memory
  <2>3. QED
    BY <1>4, <2>1, <2>2 DEF Typed, EndRun, disk, memory
<1>5. QED
  BY <1>2, <1>3, <1>4

\* The three loops over an SCC.
LEMMA StepTyped ==
  ASSUME Typed, Processing, NEW m \in Module, NEW next, Step(m, next), at' = at
  PROVE  left' \subseteq Current' /\ left' \subseteq Module /\ at \in DOMAIN Order
<1>1. at \in DOMAIN Order /\ left \subseteq Current /\ Current \subseteq Module /\ Current' = Current
  BY OrderFacts DEF Typed, Processing, Current
<1>2. QED
  BY <1>1 DEF Step

LEMMA TypedWriteData ==
  ASSUME Typed, NEW m \in Module, WriteData(m)
  PROVE  Typed'
<1>1. left' \subseteq Current' /\ left' \subseteq Module /\ at \in DOMAIN Order
  BY StepTyped DEF Processing, WriteData
<1>2. faults' \in 0 .. MaxFaults /\ past' \in {"cold", "edited", "exposed"} /\ (faults' = 0 => past' # "exposed")
  BY FaultTyped DEF WriteData
<1>3. pc' \in {"data", "meta"} /\ run \in 1 .. run /\ run # 0
  BY DEF WriteData, Step, Typed, CacheTypeOK
<1>4. ASSUME NEW n \in Module, data'[n] # Nothing PROVE data'[n].stamp \in 1 .. run
  BY <1>3, <1>4 DEF WriteData, Typed, CacheTypeOK, Now
<1>5. ASSUME NEW n \in Module, stamp'[n] # Nothing PROVE stamp'[n] \in 1 .. run
  <2>1. stamp'[n] = stamp[n] \/ (data'[m] # Nothing /\ stamp'[n] = data'[m].stamp)
    BY <1>5 DEF WriteData, Typed
  <2>2. QED
    BY <1>4, <1>5, <2>1 DEF Typed, CacheTypeOK
<1>6. DOMAIN data' = Module /\ DOMAIN interfaceHash' = Module /\ DOMAIN stamp' = Module
  BY DEF WriteData, Typed
<1>7. CacheTypeOK'
  BY <1>1, <1>2, <1>3, <1>4, <1>5 DEF WriteData, Typed, CacheTypeOK
<1>8. QED
  BY <1>1, <1>2, <1>3, <1>4, <1>5, <1>6, <1>7 DEF WriteData, Typed

LEMMA TypedWriteMeta ==
  ASSUME Typed, NEW m \in Module, WriteMeta(m)
  PROVE  Typed'
<1>1. left' \subseteq Current' /\ left' \subseteq Module /\ at \in DOMAIN Order
  BY StepTyped DEF Processing, WriteMeta
<1>2. faults' \in 0 .. MaxFaults /\ past' \in {"cold", "edited", "exposed"} /\ (faults' = 0 => past' # "exposed")
  BY FaultTyped DEF WriteMeta
<1>3. pc' \in {"meta", "implementation"}
  BY DEF WriteMeta, Step
<1>4. ASSUME NEW n \in Module, meta'[n] # Nothing PROVE meta'[n].stamp \in 1 .. run
  BY <1>4 DEF WriteMeta, Typed, CacheTypeOK
<1>5. DOMAIN meta' = Module
  BY DEF WriteMeta, Typed
<1>6. CacheTypeOK'
  BY <1>1, <1>2, <1>3 DEF WriteMeta, Typed, CacheTypeOK
<1>7. QED
  BY <1>1, <1>2, <1>3, <1>4, <1>5, <1>6 DEF WriteMeta, Typed

LEMMA TypedWriteMetaEx ==
  ASSUME Typed, NEW m \in Module, WriteMetaEx(m)
  PROVE  Typed'
<1>1. at \in DOMAIN Order /\ at \in 1 .. Len(Order) + 1 /\ at + 1 \in 1 .. Len(Order) + 1 /\ left \subseteq Current
  BY OrderFacts DEF WriteMetaEx, Typed
<1>2. faults' \in 0 .. MaxFaults /\ past' \in {"cold", "edited", "exposed"} /\ (faults' = 0 => past' # "exposed")
  BY FaultTyped DEF WriteMetaEx
<1>3. \/ left' = {} /\ pc' = "next" /\ at' = at + 1
      \/ left' \subseteq left /\ pc' = "implementation" /\ at' = at
  BY DEF WriteMetaEx
<1>4. DOMAIN metaEx' = Module /\ DOMAIN shown' = Module
  BY DEF WriteMetaEx, Typed
<1>5. CacheTypeOK'
  BY <1>1, <1>2, <1>3 DEF WriteMetaEx, Typed, CacheTypeOK
<1>6. QED
  BY <1>1, <1>2, <1>3, <1>4, <1>5 DEF WriteMetaEx, Typed, Current

LEMMA TypedInterrupt ==
  ASSUME Typed, Interrupt
  PROVE  Typed'
<1>1. faults' \in 0 .. MaxFaults /\ past' \in {"cold", "edited", "exposed"} /\ (faults' = 0 => past' # "exposed")
  BY FaultTyped DEF Interrupt
<1>2. CacheTypeOK'
  BY <1>1 DEF Interrupt, Typed, CacheTypeOK, disk, memory
<1>3. QED
  BY <1>1, <1>2 DEF Interrupt, Typed, disk, memory

(***************************************************************************)
(* The run, action by action.                                              *)
(***************************************************************************)
\* Where the SCC that is being processed stands among the others.
LEMMA AtFacts ==
  ASSUME Typed
  PROVE  /\ at \in 1 .. Len(Order) + 1 /\ src \in Versions /\ Before(at) \subseteq Module
         /\ at \in DOMAIN Order =>
              /\ Current \subseteq Module /\ Before(at) \cap Current = {} /\ Before(at + 1) = Before(at) \cup Current
              /\ (at + 1 \in DOMAIN Order \/ at + 1 = Len(Order) + 1)
         /\ at > Len(Order) => Before(at) = Module
         /\ at <= Len(Order) => at \in DOMAIN Order
<1>1. at \in 1 .. Len(Order) + 1 /\ src \in Versions /\ Before(at) \subseteq Module
  BY DEF Typed, CacheTypeOK, Before
<1>2. ASSUME at \in DOMAIN Order
      PROVE  Current \subseteq Module /\ Before(at) \cap Current = {} /\ Before(at + 1) = Before(at) \cup Current
  BY <1>2, OrderFacts, BeforeFacts DEF Current
<1>3. at \in DOMAIN Order => at + 1 \in DOMAIN Order \/ at + 1 = Len(Order) + 1
  BY <1>1, OrderFacts
<1>4. at > Len(Order) => at = Len(Order) + 1
  BY <1>1, OrderFacts
<1>5. at <= Len(Order) => at \in DOMAIN Order
  BY <1>1, OrderFacts
<1>6. QED
  BY <1>1, <1>2, <1>3, <1>4, <1>5, BeforeFacts

LEMMA StartRunInv ==
  ASSUME Typed, RunInv, StartRun
  PROVE  RunInv'
<1>1. ASSUME NEW m \in Module PROVE DiskOK(m)
  <2>1. CASE pc = "idle"
    BY <2>1 DEF RunInv
  <2>2. CASE pc = "done"
    <3>1. m \in Before(at)
      BY <2>2, BeforeFacts DEF Typed
    <3>2. QED
      BY <2>2, <3>1 DEF RunInv, Finished
  <2>3. QED
    BY <2>1, <2>2 DEF StartRun
<1>2. ASSUME NEW m \in Module PROVE Waits(m)' /\ tree'[m] = Nothing
  <2>1. DiskOK(m)'
    BY <1>1, Frame DEF FilesSame, StartRun, disk
  <2>2. AsFound(m)' /\ stamp'[m] = Nothing /\ tree'[m] = Nothing
    BY DEF AsFound, Found, StartRun, disk
  <2>3. Older(m)'
    BY DEF Older, Typed, CacheTypeOK, StartRun, disk
  <2>4. QED
    BY <2>1, <2>2, <2>3 DEF Waits
<1>3. Before(at)' = {} /\ pc' = "next"
  BY BeforeFacts DEF StartRun
<1>4. QED
  BY <1>2, <1>3 DEF RunInv, Processing

\* A user edits files when no run of mypy is going on.
LEMMA EditInv ==
  ASSUME Typed, RunInv, NEW e \in Module, NEW s \in Source[e], Edit(e, s)
  PROVE  RunInv'
<1>1. ASSUME NEW m \in Module PROVE DiskOK(m)
  <2>1. CASE pc = "idle"
    BY <2>1 DEF RunInv
  <2>2. CASE pc = "done"
    <3>1. m \in Before(at)
      BY <2>2, BeforeFacts DEF Typed
    <3>2. QED
      BY <2>2, <3>1 DEF RunInv, Finished
  <2>3. QED
    BY <2>1, <2>2 DEF Edit
<1>2. ASSUME NEW m \in Module PROVE DiskOK(m)'
  BY <1>1, Frame DEF FilesSame, Edit, disk
<1>3. QED
  BY <1>2 DEF RunInv, Processing, Edit

LEMMA SkipInv ==
  ASSUME Typed, RunInv, Skip
  PROVE  RunInv'
<1>1. at \in DOMAIN Order
  BY AtFacts DEF Skip
<1>2. ASSUME NEW m \in Current PROVE Finished(m)'
  <2>1. MetaOf(src, m) /\ ExOf(src, m) /\ Valid(m) /\ DiskOK(m) /\ interfaceHash[m] = Clean(src)[m] /\ Tree(m) = Clean(src)[m]
    BY <1>1, FreshIsRight DEF Skip, Waits
  <2>2. m \in Module /\ shown'[m] = ErrorsOf(src, m)
    BY <1>1, <2>1, AtFacts DEF Skip, ExOf
  <2>3. DiskOK(m)'
    BY <2>1, Frame DEF FilesSame, Skip, disk
  <2>4. Kept(m)'
    BY <2>1 DEF Kept, Valid, Found, MetaOf, ExOf, Skip, disk
  <2>5. Tree(m)' = Tree(m)
    BY DEF Tree, Skip, disk
  <2>6. QED
    BY <2>1, <2>2, <2>3, <2>4, <2>5 DEF Finished, Skip
<1>3. ASSUME NEW m \in Module PROVE Same(m) /\ tree'[m] = tree[m] /\ (m \notin Current => shown'[m] = shown[m])
  BY DEF Same, FilesSame, Skip, disk
<1>4. ASSUME NEW m \in Before(at) PROVE Finished(m)'
  BY <1>1, <1>3, <1>4, AtFacts, Frame DEF RunInv, Skip, Same
<1>5. ASSUME NEW m \in Module \ Before(at), m \notin Current PROVE Waits(m)' /\ tree'[m] = Nothing
  BY <1>3, <1>5, Frame DEF RunInv, Skip, Same
<1>6. pc' = "next" /\ Before(at)' = Before(at) \cup Current
  BY <1>1, AtFacts DEF Skip
<1>7. QED
  BY <1>2, <1>4, <1>5, <1>6 DEF RunInv, Processing

LEMMA CheckInv ==
  ASSUME Typed, RunInv, Check
  PROVE  RunInv'
<1>1. at \in DOMAIN Order /\ src \in Versions
  BY AtFacts DEF Check
<1>2. ASSUME NEW m \in Module PROVE Same(m) /\ shown'[m] = shown[m] /\ (m \notin Current => tree'[m] = tree[m])
  BY DEF Same, FilesSame, Check, disk
<1>3. ASSUME NEW m \in Before(at) PROVE Finished(m)'
  BY <1>1, <1>2, <1>3, AtFacts, Frame DEF RunInv, Check, Same
<1>4. ASSUME NEW m \in Module \ Before(at) PROVE Waits(m)' /\ tree[m] = Nothing
  BY <1>2, Frame DEF RunInv, Check, Same, Processing
<1>5. ASSUME NEW m \in Current PROVE tree'[m] = Clean(src)[m]
  <2>1. m \in Module /\ \A d \in src[m].infers : d \in Before(at)
    BY <1>1, AtFacts, Earlier DEF Current
  <2>2. \A d \in src[m].infers : Tree(d) = Clean(src)[d]
    BY <2>1 DEF RunInv, Check, Finished
  <2>3. {Tree(d) : d \in src[m].infers} = {Clean(src)[d] : d \in src[m].infers}
    BY <2>2
  <2>4. Interface(m) = Declared(src, Clean(src), m)
    BY <2>3 DEF Interface, Declared
  <2>5. tree'[m] = Interface(m)
    BY <2>1 DEF Check
  <2>6. QED
    BY <1>1, <2>1, <2>4, <2>5, CleanIs
<1>6. pc' = "data" /\ at' = at /\ left' = Current /\ src' = src /\ Current' = Current /\ Before(at)' = Before(at)
  BY DEF Check, Current
<1>7. ASSUME NEW m \in Current PROVE Processed(m)'
  <2>1. Waits(m)'
    BY <1>1, <1>4, AtFacts
  <2>2. QED
    BY <1>5, <1>6, <2>1 DEF Processed
<1>8. ASSUME NEW m \in Module \ Before(at), m \notin Current PROVE tree'[m] = Nothing
  BY <1>2, <1>4, <1>8
<1>9. QED
  BY <1>3, <1>4, <1>6, <1>7, <1>8 DEF RunInv, Processing

LEMMA EndRunInv ==
  ASSUME Typed, RunInv, EndRun
  PROVE  RunInv' /\ (settled' => \A m \in Module : Kept(m)')
<1>1. at = Len(Order) + 1 /\ Before(at) = Module
  BY AtFacts, OrderFacts DEF EndRun
<1>2. ASSUME NEW m \in Module PROVE Same(m) /\ tree'[m] = tree[m] /\ shown'[m] = shown[m]
  BY DEF Same, FilesSame, EndRun, disk, memory
<1>3. ASSUME NEW m \in Module PROVE Finished(m)'
  BY <1>1, <1>2, Frame DEF RunInv, EndRun, Same
<1>4. pc' = "done" /\ at' = at /\ (settled' => faults' = 0)
  BY DEF EndRun, memory
<1>5. RunInv'
  BY <1>1, <1>3, <1>4 DEF RunInv, Processing
<1>6. QED
  BY <1>3, <1>4, <1>5 DEF Finished

\* Before the first edit, whatever a run leaves behind is in order.
LEMMA InterruptInv ==
  ASSUME Typed, RunInv, past = "cold" => ColdInv, Interrupt, past' # "exposed"
  PROVE  RunInv'
<1>1. ColdInv /\ src \in Versions
  BY DEF Interrupt, Fault, Typed
<1>2. ASSUME NEW m \in Module PROVE DiskOK(m)
  <2>1. meta[m] # Nothing => data[m] # Nothing /\ meta[m].interface = data[m].interface
    BY <1>1 DEF ColdInv, MetaOf
  <2>2. Found(m) => MetaOf(src, m) /\ ExOf(src, m)
    BY <1>1 DEF ColdInv, Found
  <2>3. QED
    BY <1>1, <2>1, <2>2 DEF DiskOK
<1>3. ASSUME NEW m \in Module PROVE DiskOK(m)'
  BY <1>2, Frame DEF FilesSame, Interrupt, disk
<1>4. QED
  BY <1>3 DEF RunInv, Processing, Interrupt

\* While the modules of an SCC are written, all that changes for the others is nothing.
LEMMA OthersFinished ==
  ASSUME Typed, RunInv, Processing, NEW m \in Current, at \in DOMAIN Order,
         \A n \in Module \ {m} : Same(n) /\ tree'[n] = tree[n] /\ shown'[n] = shown[n]
  PROVE  /\ \A n \in Before(at) : Finished(n)'
         /\ \A n \in Module \ Before(at) : n \notin Current => Waits(n)' /\ tree'[n] = Nothing
<1>1. pc # "idle"
  BY DEF Processing
<1>2. ASSUME NEW n \in Before(at) PROVE Finished(n)'
  <2>1. n \in Module \ {m}
    BY <1>2, AtFacts
  <2>2. QED
    BY <1>1, <2>1, Frame DEF RunInv, Same
<1>3. ASSUME NEW n \in Module \ Before(at), n \notin Current PROVE Waits(n)' /\ tree'[n] = Nothing
  <2>1. n \in Module \ {m}
    BY <1>3
  <2>2. Waits(n) /\ tree[n] = Nothing
    BY <1>1, <1>3 DEF RunInv
  <2>3. QED
    BY <2>1, <2>2, Frame DEF Same
<1>4. QED
  BY <1>2, <1>3

LEMMA OtherProcessed ==
  ASSUME NEW n, Processed(n), Same(n), tree'[n] = tree[n], shown'[n] = shown[n]
  PROVE  /\ Waits(n) => Waits(n)'
         /\ WroteTree(n) => WroteTree(n)'
         /\ WroteMeta(n) => WroteMeta(n)'
         /\ Finished(n) => Finished(n)'
         /\ tree'[n] = Clean(src)[n]' /\ (interfaceHash[n] = Clean(src)[n] => interfaceHash'[n] = Clean(src)[n]')
BY Frame DEF Same, Processed

LEMMA WriteDataInv ==
  ASSUME Typed, RunInv, NEW m \in Module, WriteData(m)
  PROVE  RunInv' /\ (data'[m] # data[m] => data'[m].interface = Clean(src)[m] /\ data'[m] # Nothing)
<1>1. /\ at \in DOMAIN Order /\ m \in Current /\ Processing /\ pc = "data" /\ m \in left /\ left \subseteq Current
      /\ src \in Versions /\ Current \subseteq Module /\ run \in Nat
      /\ faults' = 0 => faults = 0
  BY AtFacts, FaultTyped DEF WriteData, Step, Typed, CacheTypeOK, Processing
<1>2. /\ DOMAIN data = Module /\ DOMAIN meta = Module /\ DOMAIN stamp = Module /\ DOMAIN interfaceHash = Module
      /\ meta' = meta /\ metaEx' = metaEx /\ src' = src /\ run' = run /\ at' = at /\ tree' = tree /\ shown' = shown
  BY DEF WriteData, Typed
<1>3. Waits(m) /\ tree[m] = Clean(src)[m] /\ interfaceHash'[m] = Clean(src)[m]
  BY <1>1, <1>2 DEF RunInv, Processed, WriteData
<1>4. Clean(src)[m] # Nothing /\ Clean(src)[m] \in Interfaces
  BY <1>1, CleanFacts
<1>5. WroteTree(m)' /\ (data'[m] # data[m] => data'[m].interface = Clean(src)[m] /\ data'[m] # Nothing)
  <2>1. CASE NoFault /\ Written(m)
    <3>1. data'[m] = [interface |-> Clean(src)[m], stamp |-> run] /\ stamp'[m] = IF data'[m] = Nothing THEN Nothing ELSE data'[m].stamp
      BY <1>2, <1>3, <2>1 DEF WriteData, Fault, NoFault, Now, Typed, CacheTypeOK
    <3>2. [interface |-> Clean(src)[m], stamp |-> run] \in [interface : Interfaces, stamp : Nat]
      BY <1>1, <1>4
    <3>3. data'[m] # Nothing /\ stamp'[m] = run /\ run # Nothing
      BY <1>1, <3>1, <3>2, NothingAssumption
    <3>4. meta[m] # Nothing => meta[m].stamp # run
      BY <1>1, <1>3 DEF Waits, Older, Typed
    <3>5. QED
      BY <1>2, <3>1, <3>3, <3>4 DEF WroteTree, TreeWritten, Described
  <2>2. CASE NoFault /\ ~Written(m)
    <3>1. data' = data /\ stamp'[m] = IF data'[m] = Nothing THEN Nothing ELSE data'[m].stamp
      BY <1>2, <2>2 DEF WriteData, Fault, NoFault, Typed, CacheTypeOK
    <3>2. interfaceHash[m] = Clean(src)[m]
      BY <1>3, <2>2 DEF Written
    <3>3. Found(m) /\ meta[m].interface = Clean(src)[m]
      BY <1>3, <1>4, <3>2 DEF Waits, AsFound
    <3>4. data[m] # Nothing /\ data[m].interface = Clean(src)[m]
      BY <1>3, <3>3 DEF Waits, DiskOK, Found
    <3>5. data[m].stamp # Nothing
      BY <3>4, NothingAssumption DEF Typed, CacheTypeOK
    <3>6. QED
      BY <1>2, <3>1, <3>3, <3>4, <3>5 DEF WroteTree, TreeWritten, Described
  <2>3. CASE Fault("noWrite") /\ data' = data /\ stamp' = stamp
    <3>1. DiskOK(m)'
      BY <1>2, <1>3, <2>3, Frame DEF FilesSame, Waits
    <3>2. faults' # 0 /\ stamp'[m] = Nothing
      BY <1>3, <2>3 DEF Fault, Waits, Typed, CacheTypeOK
    <3>3. QED
      BY <2>3, <3>1, <3>2 DEF WroteTree, GaveUp
  <2>4. QED
    BY <2>1, <2>2, <2>3 DEF WriteData
<1>6. \A n \in Module \ {m} : Same(n) /\ tree'[n] = tree[n] /\ shown'[n] = shown[n]
  BY <1>1, <1>2 DEF WriteData, Same, FilesSame
<1>7. \/ pc' = "meta" /\ left' = Current /\ left = {m}
      \/ pc' = "data" /\ left' = left \ {m}
  BY <1>1 DEF WriteData, Step
<1>8. Current' = Current /\ Before(at)' = Before(at)
  BY <1>2 DEF Current
<1>9. Processed(m)'
  BY <1>1, <1>2, <1>3, <1>5, <1>7 DEF Processed
<1>10. ASSUME NEW n \in Current, n # m PROVE Processed(n)'
  <2>1. n \in Module \ {m} /\ Processed(n)
    BY <1>1, <1>10 DEF RunInv
  <2>2. (n \in left => Waits(n)) /\ (n \notin left => WroteTree(n) /\ interfaceHash[n] = Clean(src)[n])
    BY <1>1, <2>1 DEF Processed
  <2>3. /\ n \in left => Waits(n)'
        /\ n \notin left => WroteTree(n)' /\ interfaceHash'[n] = Clean(src)[n]'
        /\ tree'[n] = Clean(src)[n]'
    BY <1>6, <2>1, <2>2, OtherProcessed
  <2>4. QED
    BY <1>7, <1>10, <2>3 DEF Processed
<1>11. pc' # "idle" /\ Processing'
  BY <1>7 DEF Processing
<1>12. RunInv'
  BY <1>1, <1>6, <1>8, <1>9, <1>10, <1>11, OthersFinished DEF RunInv
<1>13. QED
  BY <1>5, <1>12

\* What is recorded of modules that the run has come past.
LEMMA HashesNow ==
  ASSUME Typed, NEW S \in SUBSET Module, \A d \in S : interfaceHash[d] = Clean(src)[d]
  PROVE  DepHashes(S) = HashesOf(src, S) /\ DepHashes(S) \in Hashes
<1>1. DepHashes(S) = HashesOf(src, S)
  BY DEF DepHashes, HashesOf
<1>2. HashesOf(src, S) \in Hashes
  BY CleanFacts DEF HashesOf, Hashes, Typed
<1>3. QED
  BY <1>1, <1>2

\* The SCC as a whole, once its trees have been written.
LEMMA ComeToMeta ==
  ASSUME Typed, RunInv, pc \in {"meta", "implementation"}, at \in DOMAIN Order
  PROVE  \A d \in Before(at + 1) : Tree(d) = Clean(src)[d] /\ interfaceHash[d] = Clean(src)[d]
<1>1. ASSUME NEW d \in Current PROVE Tree(d) = Clean(src)[d] /\ interfaceHash[d] = Clean(src)[d]
  <2>1. Processed(d) /\ d \in Module
    BY AtFacts DEF RunInv, Processing
  <2>2. tree[d] = Clean(src)[d] /\ tree[d] # Nothing /\ interfaceHash[d] = Clean(src)[d]
    BY <2>1, CleanFacts DEF Processed, Typed
  <2>3. QED
    BY <2>2 DEF Tree
<1>2. ASSUME NEW d \in Before(at) PROVE Tree(d) = Clean(src)[d] /\ interfaceHash[d] = Clean(src)[d]
  BY DEF RunInv, Finished
<1>3. QED
  BY <1>1, <1>2, AtFacts

LEMMA WriteMetaInv ==
  ASSUME Typed, RunInv, past = "cold" => ColdInv, NEW m \in Module, WriteMeta(m), past' # "exposed"
  PROVE  RunInv' /\ (meta'[m] # meta[m] => MetaOf(src, m)' /\ data[m] # Nothing)
<1>1. /\ at \in DOMAIN Order /\ m \in Current /\ Processing /\ pc = "meta" /\ m \in left /\ left \subseteq Current
      /\ src \in Versions /\ Current \subseteq Module /\ run \in Nat
      /\ faults' = 0 => faults = 0
  BY AtFacts, FaultTyped DEF WriteMeta, Step, Typed, CacheTypeOK, Processing
<1>2. /\ DOMAIN meta = Module /\ data' = data /\ metaEx' = metaEx /\ src' = src /\ run' = run /\ at' = at /\ tree' = tree
      /\ shown' = shown /\ interfaceHash' = interfaceHash /\ stamp' = stamp
  BY DEF WriteMeta, Typed
<1>3. WroteTree(m) /\ tree[m] = Clean(src)[m] /\ interfaceHash[m] = Clean(src)[m]
  BY <1>1 DEF RunInv, Processed
<1>4. WroteMeta(m)' /\ (meta'[m] # meta[m] => MetaOf(src, m)' /\ data[m] # Nothing)
  <2>1. CASE stamp[m] = Nothing
    <3>1. meta' = meta /\ GaveUp(m)
      BY <1>3, <2>1 DEF WriteMeta, WroteTree
    <3>2. DiskOK(m)' /\ faults' # 0
      BY <1>1, <1>2, <3>1, Frame DEF FilesSame, GaveUp
    <3>3. QED
      BY <1>2, <2>1, <3>1, <3>2 DEF WroteMeta, GaveUp
  <2>2. CASE stamp[m] # Nothing /\ NoFault
    <3> DEFINE new == [source |-> src[m], stamp |-> stamp[m], interface |-> interfaceHash[m], hashes |-> DepHashes(Imports[m])]
    <3>1. meta'[m] = new
      BY <1>2, <2>2 DEF WriteMeta, NoFault, Fault, Typed, CacheTypeOK
    <3>2. Imports[m] \in SUBSET Module /\ Imports[m] \subseteq Before(at + 1)
      BY <1>1, AtFacts, Earlier, OrderAssumption
    <3>3. \A d \in Imports[m] : interfaceHash[d] = Clean(src)[d]
      BY <1>1, <3>2, ComeToMeta
    <3>4. DepHashes(Imports[m]) = HashesOf(src, Imports[m]) /\ DepHashes(Imports[m]) \in Hashes
      <4> DEFINE S == Imports[m]
      <4>1. S \in SUBSET Module /\ \A d \in S : interfaceHash[d] = Clean(src)[d]
        BY <3>2, <3>3
      <4> HIDE DEF S
      <4>2. DepHashes(S) = HashesOf(src, S) /\ DepHashes(S) \in Hashes
        BY ONLY Typed, <4>1, HashesNow
      <4>3. QED
        BY <4>2 DEF S
    <3>5. src[m] \in Sources /\ stamp[m] \in Nat /\ interfaceHash[m] \in Interfaces
      <4>1. stamp[m] \in 1 .. run
        BY <2>2 DEF Typed, CacheTypeOK
      <4>2. src[m] \in Sources /\ interfaceHash[m] \in Interfaces
        BY <1>1, <1>3, VersionFacts, CleanFacts
      <4>3. QED
        BY <1>1, <4>1, <4>2
    <3>6. new \in [source : Sources, stamp : Nat, interface : Interfaces, hashes : Hashes]
      BY <3>4, <3>5
    <3>7. meta'[m] # Nothing
      BY <3>1, <3>6, NothingAssumption
    <3>8. MetaOf(src, m)' /\ meta'[m].stamp = stamp'[m]
      BY <1>2, <1>3, <3>1, <3>4 DEF MetaOf, HashesOf
    <3>9. TreeWritten(m)' /\ stamp'[m] # Nothing /\ data[m] # Nothing
      BY <1>2, <1>3, <2>2 DEF WroteTree, GaveUp, TreeWritten
    <3>10. QED
      BY <3>7, <3>8, <3>9 DEF WroteMeta
  <2>3. CASE stamp[m] # Nothing /\ Fault("metaLost") /\ meta' = meta
    <3>1. past = "cold" /\ faults' # 0
      BY <2>3 DEF Fault, Typed, CacheTypeOK
    <3>2. meta[m] # Nothing => MetaOf(src, m)
      BY <3>1 DEF ColdInv
    <3>3. (meta[m] # Nothing => MetaOf(src, m))'
      BY <1>2, <2>3, <3>2 DEF MetaOf
    <3>4. TreeWritten(m)' /\ stamp'[m] # Nothing
      BY <1>2, <1>3, <2>3 DEF WroteTree, GaveUp, TreeWritten
    <3>5. QED
      BY <2>3, <3>1, <3>3, <3>4 DEF WroteMeta
  <2>4. QED
    BY <2>1, <2>2, <2>3 DEF WriteMeta
<1>5. \A n \in Module \ {m} : Same(n) /\ tree'[n] = tree[n] /\ shown'[n] = shown[n]
  <2>1. \A n \in Module \ {m} : meta'[n] = meta[n]
    BY <1>2 DEF WriteMeta
  <2>2. QED
    BY <1>1, <1>2, <2>1 DEF Same, FilesSame
<1>6. \/ pc' = "implementation" /\ left' = Current /\ left = {m}
      \/ pc' = "meta" /\ left' = left \ {m}
  BY <1>1 DEF WriteMeta, Step
<1>7. Current' = Current /\ Before(at)' = Before(at)
  BY <1>2 DEF Current
<1>8. Processed(m)'
  BY <1>1, <1>2, <1>3, <1>4, <1>6 DEF Processed
<1>9. ASSUME NEW n \in Current, n # m PROVE Processed(n)'
  <2>1. n \in Module \ {m} /\ Processed(n)
    BY <1>1, <1>9 DEF RunInv
  <2>2. (n \in left => WroteTree(n)) /\ (n \notin left => WroteMeta(n)) /\ interfaceHash[n] = Clean(src)[n]
    BY <1>1, <2>1 DEF Processed
  <2>3. /\ n \in left => WroteTree(n)'
        /\ n \notin left => WroteMeta(n)'
        /\ interfaceHash'[n] = Clean(src)[n]' /\ tree'[n] = Clean(src)[n]'
    BY <1>5, <2>1, <2>2, OtherProcessed
  <2>4. QED
    BY <1>6, <1>9, <2>3 DEF Processed
<1>10. pc' # "idle" /\ Processing'
  BY <1>6 DEF Processing
<1>11. RunInv'
  BY <1>1, <1>5, <1>7, <1>8, <1>9, <1>10, OthersFinished DEF RunInv
<1>12. QED
  BY <1>4, <1>11

\* What is shown and recorded for m, and what the write of meta_ex adds to the disk.
LEMMA SeenByM ==
  ASSUME Typed, RunInv, NEW m \in Module, WriteMetaEx(m)
  PROVE  /\ Diagnostics(m) = ErrorsOf(src, m) /\ ErrorsOf(src, m) \in Errors
         /\ DepHashes(IndirectDeps(m)) = HashesOf(src, SeenIn(src, m) \ Imports[m])
         /\ DepHashes(IndirectDeps(m)) \in Hashes
<1>1. /\ at \in DOMAIN Order /\ pc = "implementation" /\ m \in Before(at + 1) /\ src \in Versions
      /\ (at + 1 \in DOMAIN Order \/ at + 1 = Len(Order) + 1)
  <2>1. pc = "implementation" /\ m \in left
    BY DEF WriteMetaEx
  <2>2. at \in DOMAIN Order /\ m \in Current
    BY <2>1 DEF Typed
  <2>3. QED
    BY <2>1, <2>2, AtFacts
<1>2. \A d \in Before(at + 1) : Tree(d) = Clean(src)[d] /\ interfaceHash[d] = Clean(src)[d]
  BY <1>1, ComeToMeta
<1>3. Seen(m) = SeenIn(src, m) /\ Diagnostics(m) = ErrorsOf(src, m)
  <2> DEFINE k == at + 1
  <2>1. (k = Len(Order) + 1 \/ k \in DOMAIN Order) /\ m \in Before(k) /\ \A d \in Before(k) : Tree(d) = Clean(src)[d]
    BY <1>1, <1>2
  <2> HIDE DEF k
  <2>2. QED
    BY <1>1, <2>1, SeenNow
<1>4. SeenIn(src, m) \subseteq Before(at + 1) /\ Before(at + 1) \subseteq Module
  <2> DEFINE k == at + 1
  <2>1. (k = Len(Order) + 1 \/ k \in DOMAIN Order) /\ m \in Before(k) /\ Before(k) \subseteq Module
    BY <1>1 DEF Before
  <2> HIDE DEF k
  <2>2. SeenIn(src, m) \subseteq Before(k)
    BY <1>1, <2>1, SeenEarlier
  <2>3. QED
    BY <2>1, <2>2 DEF k
<1>5. ErrorsOf(src, m) \in Errors
  <2> DEFINE S == SeenIn(src, m)
  <2>1. S \in SUBSET Module
    BY <1>4
  <2>2. [d \in S |-> Clean(src)[d]] \in [S -> Interfaces]
    BY <1>1, <2>1, CleanFacts
  <2>3. [d \in S |-> Clean(src)[d]] \in UNION {[T -> Interfaces] : T \in SUBSET Module}
    BY <2>1, <2>2, Zenon
  <2>4. src[m] \in Sources
    BY <1>1, VersionFacts
  <2>5. QED
    BY <2>3, <2>4 DEF ErrorsOf, Errors
<1>6. /\ DepHashes(IndirectDeps(m)) = HashesOf(src, SeenIn(src, m) \ Imports[m])
      /\ DepHashes(IndirectDeps(m)) \in Hashes
  <2> DEFINE S == SeenIn(src, m) \ Imports[m]
  <2>1. S \in SUBSET Module /\ \A d \in S : interfaceHash[d] = Clean(src)[d]
    BY <1>2, <1>4
  <2>2. IndirectDeps(m) = S
    BY <1>3 DEF IndirectDeps
  <2> HIDE DEF S
  <2>3. DepHashes(S) = HashesOf(src, S) /\ DepHashes(S) \in Hashes
    BY ONLY Typed, <2>1, HashesNow
  <2>4. QED
    BY <2>2, <2>3 DEF S
<1>7. QED
  BY <1>3, <1>5, <1>6

LEMMA WriteMetaExInv ==
  ASSUME Typed, RunInv, past = "cold" => ColdInv, NEW m \in Module, WriteMetaEx(m), past' # "exposed"
  PROVE  RunInv' /\ (metaEx'[m] # metaEx[m] => ExOf(src, m)')
<1>1. /\ at \in DOMAIN Order /\ m \in Current /\ Processing /\ pc = "implementation" /\ m \in left /\ left \subseteq Current
      /\ src \in Versions /\ Current \subseteq Module
      /\ faults' = 0 => faults = 0
  BY AtFacts, FaultTyped DEF WriteMetaEx, Typed, CacheTypeOK, Processing
<1>2. /\ DOMAIN metaEx = Module /\ DOMAIN shown = Module /\ data' = data /\ meta' = meta /\ src' = src /\ run' = run
      /\ tree' = tree /\ interfaceHash' = interfaceHash /\ stamp' = stamp
  BY DEF WriteMetaEx, Typed
<1>3. WroteMeta(m) /\ tree[m] = Clean(src)[m] /\ interfaceHash[m] = Clean(src)[m]
  BY <1>1 DEF RunInv, Processed
<1>4. shown'[m] = ErrorsOf(src, m)
  BY <1>2, SeenByM DEF WriteMetaEx
<1>5. DiskOK(m)' /\ (faults' = 0 => Kept(m)') /\ (metaEx'[m] # metaEx[m] => ExOf(src, m)')
  <2>1. CASE stamp[m] = Nothing
    <3>1. metaEx' = metaEx /\ GaveUp(m)
      BY <1>3, <2>1 DEF WriteMetaEx, WroteMeta
    <3>2. DiskOK(m)' /\ faults' # 0
      BY <1>1, <1>2, <3>1, Frame DEF FilesSame, GaveUp
    <3>3. QED
      BY <3>1, <3>2
  <2>2. CASE stamp[m] # Nothing /\ NoFault
    <3> DEFINE new == [hashes |-> DepHashes(IndirectDeps(m)), errors |-> Diagnostics(m)]
    <3>1. metaEx'[m] = new /\ faults' = faults
      BY <1>2, <2>2 DEF WriteMetaEx, NoFault, Fault, Typed, CacheTypeOK
    <3>2. new \in [hashes : Hashes, errors : Errors]
      BY SeenByM
    <3>3. metaEx'[m] # Nothing
      BY <3>1, <3>2, NothingAssumption
    <3>4. ExOf(src, m)'
      BY <1>2, <3>1, SeenByM DEF ExOf
    <3>5. (meta[m] # Nothing => MetaOf(src, m)') /\ TreeWritten(m) /\ (faults = 0 => meta[m] # Nothing /\ meta[m].stamp = stamp[m])
      BY <1>2, <1>3, <2>2 DEF WroteMeta, GaveUp, MetaOf
    <3>6. DiskOK(m)'
      BY <1>1, <1>2, <3>4, <3>5 DEF DiskOK, Found, TreeWritten, MetaOf
    <3>7. ASSUME faults = 0 PROVE Kept(m)'
      BY <1>2, <3>3, <3>4, <3>5, <3>7 DEF Kept, Valid, Found, TreeWritten, MetaOf
    <3>8. QED
      BY <3>1, <3>4, <3>6, <3>7
  <2>3. CASE stamp[m] # Nothing /\ Fault("exLost") /\ metaEx' = metaEx
    <3>1. past = "cold" /\ faults' # 0
      BY <2>3 DEF Fault, Typed, CacheTypeOK
    <3>2. metaEx[m] # Nothing => ExOf(src, m)
      BY <3>1 DEF ColdInv
    <3>3. (meta[m] # Nothing => MetaOf(src, m)) /\ TreeWritten(m)
      BY <1>3, <2>3 DEF WroteMeta, GaveUp
    <3>4. DiskOK(m)
      BY <1>1, <3>2, <3>3 DEF DiskOK, Found, TreeWritten, MetaOf
    <3>5. DiskOK(m)'
      BY <1>2, <2>3, <3>4, Frame DEF FilesSame
    <3>6. QED
      BY <2>3, <3>1, <3>5
  <2>4. QED
    BY <2>1, <2>2, <2>3 DEF WriteMetaEx
<1>6. \A n \in Module \ {m} : Same(n) /\ tree'[n] = tree[n] /\ shown'[n] = shown[n]
  <2>1. \A n \in Module \ {m} : metaEx'[n] = metaEx[n] /\ shown'[n] = shown[n]
    BY <1>2 DEF WriteMetaEx
  <2>2. QED
    BY <1>1, <1>2, <2>1 DEF Same, FilesSame
<1>7. Finished(m)'
  <2>1. Tree(m)' = tree[m] /\ (Clean(src)[m])' = Clean(src)[m] /\ ErrorsOf(src, m)' = ErrorsOf(src, m)
    BY <1>1, <1>2, <1>3, CleanFacts DEF Tree, ErrorsOf, SeenIn, Mention
  <2>2. QED
    BY <1>2, <1>3, <1>4, <1>5, <2>1 DEF Finished
<1>8. ASSUME NEW n \in Current, n # m
      PROVE  /\ n \in left => WroteMeta(n)'
             /\ n \notin left => Finished(n)'
             /\ interfaceHash'[n] = Clean(src)[n]' /\ tree'[n] = Clean(src)[n]'
  <2>1. n \in Module \ {m} /\ Processed(n)
    BY <1>1, <1>8 DEF RunInv
  <2>2. (n \in left => WroteMeta(n)) /\ (n \notin left => Finished(n)) /\ interfaceHash[n] = Clean(src)[n]
    BY <1>1, <2>1 DEF Processed
  <2>3. QED
    BY <1>6, <2>1, <2>2, OtherProcessed
<1>9. /\ \A n \in Before(at) : Finished(n)'
      /\ \A n \in Module \ Before(at) : n \notin Current => Waits(n)' /\ tree'[n] = Nothing
  BY <1>1, <1>6, OthersFinished
<1>10. CASE left = {m} /\ left' = {} /\ pc' = "next" /\ at' = at + 1
  <2>1. Before(at)' = Before(at) \cup Current
    BY <1>1, <1>10, AtFacts
  <2>2. \A n \in Before(at)' : Finished(n)'
    BY <1>7, <1>8, <1>9, <1>10, <2>1
  <2>3. \A n \in Module \ Before(at)' : Waits(n)' /\ tree'[n] = Nothing
    BY <1>9, <2>1
  <2>4. pc' # "idle" /\ ~Processing'
    BY <1>10 DEF Processing
  <2>5. QED
    BY <1>5, <2>2, <2>3, <2>4 DEF RunInv
<1>11. CASE left' = left \ {m} /\ pc' = pc /\ at' = at
  <2>1. Before(at)' = Before(at) /\ Current' = Current /\ pc' = "implementation" /\ Processing'
    BY <1>1, <1>11 DEF Current, Processing
  <2>2. Processed(m)'
    BY <1>2, <1>3, <1>7, <1>11, <2>1 DEF Processed
  <2>3. ASSUME NEW n \in Current, n # m PROVE Processed(n)'
    BY <1>8, <1>11, <2>1, <2>3 DEF Processed
  <2>4. \A n \in Before(at)' : Finished(n)'
    BY <1>9, <2>1
  <2>5. \A n \in Module \ Before(at)' : (Processing' /\ n \in Current') \/ (Waits(n)' /\ tree'[n] = Nothing)
    BY <1>9, <2>1
  <2>6. \A n \in Current' : Processed(n)'
    BY <2>1, <2>2, <2>3
  <2>7. QED
    BY <1>5, <2>1, <2>4, <2>5, <2>6 DEF RunInv
<1>12. QED
  BY <1>5, <1>10, <1>11 DEF WriteMetaEx

(***************************************************************************)
(* The invariant is kept.                                                  *)
(***************************************************************************)
LEMMA CInvInit ==
  CacheInit => CInv
<1> SUFFICES ASSUME CacheInit PROVE CInv
  OBVIOUS
<1>1. Typed
  BY TypedInit
<1>2. \A m \in Module : data[m] = Nothing /\ meta[m] = Nothing /\ metaEx[m] = Nothing
  BY DEF CacheInit
<1>3. \A m \in Module : DiskOK(m)
  BY <1>2 DEF DiskOK, Found
<1>4. RunInv
  BY <1>3 DEF RunInv, Processing, CacheInit
<1>5. ColdInv
  BY <1>2 DEF ColdInv
<1>6. QED
  BY <1>1, <1>4, <1>5 DEF CInv, CacheInit

\* Only the writes disturb what is on the disk, and each writes what a run writes.
LEMMA ColdStep ==
  ASSUME CInv, CacheNext, past' = "cold"
  PROVE  ColdInv'
<1>1. Typed /\ (past = "cold" => RunInv /\ ColdInv)
  BY DEF CInv
<1>2. ASSUME UNCHANGED <<src, disk>>, past = "cold" PROVE ColdInv'
  BY <1>1, <1>2 DEF ColdInv, disk, MetaOf, ExOf
<1>3. CASE StartRun \/ Skip \/ Check \/ EndRun \/ NoMoreRuns
  BY <1>2, <1>3 DEF StartRun, Skip, Check, EndRun, NoMoreRuns, runVars
<1>4. CASE Interrupt
  <2>1. past = "cold"
    BY <1>1, <1>4, FaultTyped DEF Interrupt
  <2>2. QED
    BY <1>2, <1>4, <2>1 DEF Interrupt
<1>5. ASSUME NEW m \in Module, WriteData(m) PROVE ColdInv'
  <2>1. past = "cold"
    BY <1>1, <1>5, FaultTyped DEF WriteData
  <2>2. data'[m] # data[m] => data'[m].interface = Clean(src)[m] /\ data'[m] # Nothing
    BY <1>1, <1>5, <2>1, WriteDataInv
  <2>3. (\A n \in Module : n # m => data'[n] = data[n]) /\ meta' = meta /\ metaEx' = metaEx /\ src' = src
    BY <1>1, <1>5 DEF WriteData, Typed
  <2>4. QED
    BY <1>1, <2>1, <2>2, <2>3 DEF ColdInv, MetaOf, ExOf
<1>6. ASSUME NEW m \in Module, WriteMeta(m) PROVE ColdInv'
  <2>1. past = "cold"
    BY <1>1, <1>6, FaultTyped DEF WriteMeta
  <2>2. meta'[m] # meta[m] => MetaOf(src, m)' /\ data[m] # Nothing
    BY <1>1, <1>6, <2>1, WriteMetaInv
  <2>3. (\A n \in Module : n # m => meta'[n] = meta[n]) /\ data' = data /\ metaEx' = metaEx /\ src' = src
    BY <1>1, <1>6 DEF WriteMeta, Typed
  <2>4. ASSUME NEW n \in Module, meta'[n] # Nothing PROVE data'[n] # Nothing /\ MetaOf(src, n)'
    <3>1. CASE meta'[n] = meta[n]
      BY <1>1, <2>1, <2>3, <2>4, <3>1 DEF ColdInv, MetaOf
    <3>2. CASE meta'[n] # meta[n]
      BY <2>2, <2>3, <3>2
    <3>3. QED
      BY <3>1, <3>2
  <2>5. QED
    BY <1>1, <2>1, <2>3, <2>4 DEF ColdInv, ExOf
<1>7. ASSUME NEW m \in Module, WriteMetaEx(m) PROVE ColdInv'
  <2>1. past = "cold"
    BY <1>1, <1>7, FaultTyped DEF WriteMetaEx
  <2>2. metaEx'[m] # metaEx[m] => ExOf(src, m)'
    BY <1>1, <1>7, <2>1, WriteMetaExInv
  <2>3. (\A n \in Module : n # m => metaEx'[n] = metaEx[n]) /\ data' = data /\ meta' = meta /\ src' = src
    BY <1>1, <1>7 DEF WriteMetaEx, Typed
  <2>4. ASSUME NEW n \in Module, metaEx'[n] # Nothing PROVE ExOf(src, n)'
    <3>1. CASE metaEx'[n] = metaEx[n]
      BY <1>1, <2>1, <2>3, <2>4, <3>1 DEF ColdInv, ExOf
    <3>2. CASE metaEx'[n] # metaEx[n]
      BY <2>2, <2>3, <3>2
    <3>3. QED
      BY <3>1, <3>2
  <2>5. QED
    BY <1>1, <2>1, <2>3, <2>4 DEF ColdInv, MetaOf
<1>8. ASSUME NEW m \in Module, NEW s \in Source[m], Edit(m, s) PROVE ColdInv'
  BY <1>1, <1>8, TypedEdit
<1>9. QED
  BY <1>3, <1>4, <1>5, <1>6, <1>7, <1>8 DEF CacheNext

\* When every module is fresh, so is every SCC, and nothing is written.
LEMMA SettledIsFresh ==
  ASSUME Typed, SettledInv, pc = "next", at \in DOMAIN Order
  PROVE  FreshSCC
<1>1. ASSUME NEW m \in Current, NEW d \in Module
      PROVE  Valid(m) /\ meta[m].hashes[d] \in {Nothing, interfaceHash[d]} /\ metaEx[m].hashes[d] \in {Nothing, interfaceHash[d]}
  <2>1. m \in Module
    BY AtFacts
  <2>2. Valid(m) /\ MetaOf(src, m) /\ ExOf(src, m) /\ interfaceHash[d] = Clean(src)[d]
    BY <2>1 DEF SettledInv, Kept
  <2>3. QED
    BY <2>2 DEF MetaOf, ExOf, HashesOf
<1>2. \A m \in Current : Valid(m)
  BY AtFacts DEF SettledInv, Kept
<1>3. QED
  BY <1>1, <1>2 DEF FreshSCC

LEMMA SettledStep ==
  ASSUME CInv, CacheNext, settled'
  PROVE  SettledInv'
<1>1. Typed /\ (settled => SettledInv) /\ (past # "exposed" => RunInv)
  BY DEF CInv
<1>2. ASSUME UNCHANGED <<src, disk>> PROVE \A m \in Module : Kept(m) => Kept(m)'
  BY <1>2 DEF Kept, Valid, Found, MetaOf, ExOf, disk
<1>3. CASE StartRun
  <2>1. SettledInv /\ UNCHANGED <<src, disk>> /\ pc' = "next"
    BY <1>1, <1>3 DEF StartRun
  <2>2. ASSUME NEW m \in Module PROVE interfaceHash'[m] = Clean(src)[m]
    <3>1. Found(m) /\ meta[m].interface = Clean(src)[m]
      BY <2>1 DEF SettledInv, Kept, Valid, MetaOf
    <3>2. QED
      BY <1>3, <3>1 DEF StartRun
  <2>3. (Clean(src))' = Clean(src)
    BY <2>1
  <2>4. QED
    BY <1>2, <2>1, <2>2, <2>3 DEF SettledInv
<1>4. CASE Skip \/ Interrupt \/ NoMoreRuns
  <2>1. /\ SettledInv /\ UNCHANGED <<src, disk, interfaceHash>>
        /\ pc' = pc \/ pc' = "idle"
    BY <1>1, <1>4 DEF Skip, Interrupt, NoMoreRuns, runVars, memory
  <2>2. (Clean(src))' = Clean(src)
    BY <2>1
  <2>3. QED
    BY <1>2, <2>1, <2>2 DEF SettledInv
<1>5. CASE Check
  <2>1. SettledInv /\ at \in DOMAIN Order /\ pc = "next" /\ ~FreshSCC
    BY <1>1, <1>5, AtFacts DEF Check
  <2>2. QED
    BY <1>1, <2>1, SettledIsFresh
<1>6. CASE EndRun
  <2>1. faults = 0 /\ pc' = "done"
    BY <1>6 DEF EndRun
  <2>2. past # "exposed"
    BY <1>1, <2>1 DEF Typed
  <2>3. \A m \in Module : Kept(m)'
    BY <1>1, <1>6, <2>2, EndRunInv
  <2>4. QED
    BY <2>1, <2>3 DEF SettledInv
<1>7. ASSUME NEW m \in Module, WriteData(m) \/ WriteMeta(m) \/ WriteMetaEx(m) PROVE FALSE
  <2>1. settled /\ pc \in {"data", "meta", "implementation"}
    BY <1>7 DEF WriteData, WriteMeta, WriteMetaEx
  <2>2. QED
    BY <1>1, <2>1 DEF SettledInv
<1>8. ASSUME NEW m \in Module, NEW s \in Source[m], Edit(m, s) PROVE FALSE
  BY <1>8 DEF Edit
<1>9. QED
  BY <1>3, <1>4, <1>5, <1>6, <1>7, <1>8 DEF CacheNext

LEMMA CInvStep ==
  CInv /\ [CacheNext]_runVars => CInv'
<1> SUFFICES ASSUME CInv, [CacheNext]_runVars PROVE CInv'
  OBVIOUS
<1>1. Typed /\ (past # "exposed" => RunInv) /\ (past = "cold" => ColdInv)
  BY DEF CInv
<1>2. CASE UNCHANGED runVars
  <2>1. UNCHANGED <<src, data, meta, metaEx, run, pc, at, left, interfaceHash, tree, stamp, shown, faults, settled, past>>
    BY <1>2 DEF runVars, disk, memory
  <2>2. Typed'
    BY <1>1, <2>1 DEF Typed, CacheTypeOK, Current
  <2>3. \A m \in Module : Same(m) /\ FilesSame(m)
    BY <2>1 DEF Same, FilesSame
  <2>4. past' # "exposed" => RunInv'
    <3> SUFFICES ASSUME past' # "exposed" PROVE RunInv'
      OBVIOUS
    <3>1. RunInv /\ Before(at) \subseteq Module /\ (at \in DOMAIN Order => Current \subseteq Module)
      BY <1>1, <2>1, AtFacts
    <3>2. ASSUME NEW m \in Module PROVE /\ DiskOK(m) => DiskOK(m)'
                                        /\ Waits(m) => Waits(m)'
                                        /\ Finished(m) => Finished(m)'
      BY <2>1, <2>3, Frame
    <3>3. ASSUME NEW m \in Module, Processed(m) PROVE Processed(m)'
      <4>1. /\ Waits(m) => Waits(m)'
            /\ WroteTree(m) => WroteTree(m)'
            /\ WroteMeta(m) => WroteMeta(m)'
            /\ Finished(m) => Finished(m)'
        BY <2>1, <2>3, Frame
      <4>2. QED
        BY <2>1, <3>3, <4>1 DEF Processed
    <3>4. Current' = Current /\ (Processing' <=> Processing) /\ Before(at)' = Before(at) /\ (Processing => at \in DOMAIN Order)
      BY <1>1, <2>1 DEF Current, Processing, Typed
    <3>5. QED
      BY <2>1, <3>1, <3>2, <3>3, <3>4 DEF RunInv
  <2>5. past' = "cold" => ColdInv'
    BY <1>1, <2>1 DEF ColdInv, MetaOf, ExOf
  <2>6. settled' => SettledInv'
    BY <2>1 DEF CInv, SettledInv, Kept, Valid, Found, MetaOf, ExOf
  <2>7. QED
    BY <2>2, <2>4, <2>5, <2>6 DEF CInv
<1>3. CASE CacheNext
  <2>1. CASE StartRun
    <3>1. Typed' /\ (past' # "exposed" => RunInv')
      BY <1>1, <2>1, TypedStartRun, StartRunInv DEF StartRun
    <3>2. QED
      BY <1>3, <3>1, ColdStep, SettledStep DEF CInv
  <2>2. CASE Skip
    <3>1. Typed' /\ (past' # "exposed" => RunInv')
      BY <1>1, <2>2, TypedNext, SkipInv DEF Skip
    <3>2. QED
      BY <1>3, <3>1, ColdStep, SettledStep DEF CInv
  <2>3. CASE Check
    <3>1. Typed' /\ (past' # "exposed" => RunInv')
      BY <1>1, <2>3, TypedNext, CheckInv DEF Check
    <3>2. QED
      BY <1>3, <3>1, ColdStep, SettledStep DEF CInv
  <2>4. CASE EndRun
    <3>1. Typed' /\ (past' # "exposed" => RunInv')
      BY <1>1, <2>4, TypedNext, EndRunInv DEF EndRun
    <3>2. QED
      BY <1>3, <3>1, ColdStep, SettledStep DEF CInv
  <2>5. CASE Interrupt
    <3>1. Typed' /\ (past' # "exposed" => RunInv')
      BY <1>1, <2>5, TypedInterrupt, InterruptInv, FaultTyped DEF Interrupt
    <3>2. QED
      BY <1>3, <3>1, ColdStep, SettledStep DEF CInv
  <2>6. CASE NoMoreRuns
    BY <1>2, <2>6 DEF NoMoreRuns
  <2>7. ASSUME NEW m \in Module, WriteData(m) PROVE CInv'
    <3>1. Typed' /\ (past' # "exposed" => past # "exposed")
      BY <1>1, <2>7, TypedWriteData, FaultTyped DEF WriteData
    <3>2. past' # "exposed" => RunInv'
      BY <1>1, <2>7, <3>1, WriteDataInv
    <3>3. QED
      BY <1>3, <3>1, <3>2, ColdStep, SettledStep DEF CInv
  <2>8. ASSUME NEW m \in Module, WriteMeta(m) PROVE CInv'
    <3>1. Typed' /\ (past' # "exposed" => past # "exposed")
      BY <1>1, <2>8, TypedWriteMeta, FaultTyped DEF WriteMeta
    <3>2. past' # "exposed" => RunInv'
      BY <1>1, <2>8, <3>1, WriteMetaInv
    <3>3. QED
      BY <1>3, <3>1, <3>2, ColdStep, SettledStep DEF CInv
  <2>9. ASSUME NEW m \in Module, WriteMetaEx(m) PROVE CInv'
    <3>1. Typed' /\ (past' # "exposed" => past # "exposed")
      BY <1>1, <2>9, TypedWriteMetaEx, FaultTyped DEF WriteMetaEx
    <3>2. past' # "exposed" => RunInv'
      BY <1>1, <2>9, <3>1, WriteMetaExInv
    <3>3. QED
      BY <1>3, <3>1, <3>2, ColdStep, SettledStep DEF CInv
  <2>10. ASSUME NEW m \in Module, NEW s \in Source[m], Edit(m, s) PROVE CInv'
    <3>1. Typed' /\ (past' # "exposed" => past # "exposed")
      BY <1>1, <2>10, TypedEdit DEF Edit
    <3>2. past' # "exposed" => RunInv'
      BY <1>1, <2>10, <3>1, EditInv
    <3>3. QED
      BY <1>3, <3>1, <3>2, ColdStep, SettledStep DEF CInv
  <2>11. QED
    BY <1>3, <2>1, <2>2, <2>3, <2>4, <2>5, <2>6, <2>7, <2>8, <2>9, <2>10 DEF CacheNext
<1>4. QED
  BY <1>2, <1>3

LEMMA AlwaysCInv ==
  CacheSpec => []CInv
BY CInvInit, CInvStep, PTL DEF CacheSpec

\* The types of the incremental cache's state: files are stamped by runs that have begun,
\* and the loops of process_graph stay within the SCC.
THEOREM AlwaysCacheTypeOK ==
  CacheSpec => []CacheTypeOK
<1>1. CInv => CacheTypeOK
  BY DEF CInv, Typed
<1>2. QED
  BY <1>1, AlwaysCInv, PTL

\* validate_meta may trust the time of the data file: a meta that carries it describes
\* the tree in it, whatever was edited and whichever calls of write_cache did nothing.
THEOREM AlwaysMetaDescribesData ==
  CacheSpec => []MetaDescribesData
<1>1. CInv => MetaDescribesData
  <2> SUFFICES ASSUME CInv, past # "exposed", NEW m \in Module PROVE Described(m)
    BY DEF MetaDescribesData, Described
  <2>1. Typed /\ RunInv
    BY DEF CInv
  <2>2. DiskOK(m) => Described(m)
    BY DEF DiskOK, Described
  <2>3. CASE pc = "idle"
    BY <2>1, <2>2, <2>3 DEF RunInv
  <2>4. CASE pc # "idle" /\ ~(Processing /\ m \in Current)
    <3>1. Finished(m) \/ Waits(m)
      BY <2>1, <2>4 DEF RunInv
    <3>2. QED
      BY <2>2, <3>1 DEF Finished, Waits
  <2>5. CASE Processing /\ m \in Current
    <3>1. Waits(m) \/ WroteTree(m) \/ WroteMeta(m) \/ Finished(m)
      BY <2>1, <2>5 DEF RunInv, Processed, Processing
    <3>2. WroteTree(m) => Described(m)
      BY <2>2 DEF WroteTree, GaveUp
    <3>3. WroteMeta(m) => Described(m)
      BY <2>2 DEF WroteMeta, GaveUp, Described, TreeWritten, MetaOf
    <3>4. QED
      BY <2>2, <3>1, <3>2, <3>3 DEF Finished, Waits
  <2>6. QED
    BY <2>3, <2>4, <2>5 DEF Processing
<1>2. QED
  BY <1>1, AlwaysCInv, PTL

\* After a run without faults, a run on the same sources finds every SCC fresh: import
\* cycles, indirect dependencies and all.
THEOREM AlwaysNothingToRecheck ==
  CacheSpec => []NothingToRecheck
<1>1. CInv => NothingToRecheck
  BY DEF CInv, SettledInv, NothingToRecheck
<1>2. QED
  BY <1>1, AlwaysCInv, PTL

\* The comparison of hashes in find_stale_sccs is sound: an incremental run shows for
\* every module what a run without a cache shows, after any edits and runs, whichever
\* calls of write_cache did nothing, and whatever else went wrong before the first edit.
THEOREM AlwaysFaultsAreHarmless ==
  CacheSpec => []FaultsAreHarmless
<1>1. CInv => FaultsAreHarmless
  <2> SUFFICES ASSUME CInv, past # "exposed", pc = "done", NEW m \in Module PROVE shown[m] = CleanDiagnostics(m)
    BY DEF FaultsAreHarmless, LikeACleanBuild
  <2>1. m \in Before(at) /\ RunInv
    BY BeforeFacts DEF CInv, Typed
  <2>2. shown[m] = ErrorsOf(src, m)
    BY <2>1 DEF RunInv, Finished
  <2>3. QED
    BY <2>2 DEF ErrorsOf, SeenIn, Mention, CleanDiagnostics
<1>2. QED
  BY <1>1, AlwaysCInv, PTL
=============================================================================
