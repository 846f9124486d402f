----------------------- MODULE FineGrainedUpdateProofs -----------------------
(***************************************************************************)
(* The daemon's fine-grained increments, for any modules, any versions of  *)
(* them and any sources.  While every file is there and has no blocking    *)
(* error, the daemon loads exactly what a full build would load, never     *)
(* follows an import out of the graph, and gives the same diagnostics.     *)
(* With blocking errors too, while imports stay as they are, its answers   *)
(* are those of a full build and the blocking errors it reports are real.  *)
(* Without syntax errors, a blocking error of a module that was loaded is  *)
(* reported only while its file has one, whatever comes and goes.          *)
(***************************************************************************)
EXTENDS FineGrainedUpdate, FiniteSetTheorems, SequenceTheorems, WellFoundedInduction, NaturalsInduction, TLAPS

(***************************************************************************)
(* Modules and what is on the disk.                                        *)
(***************************************************************************)
LastModule == Cardinality(Modules)

LEMMA ModulesAre ==
  /\ IsFiniteSet(Modules) /\ LastModule \in Nat /\ Modules = 1 .. LastModule
  /\ Modules \subseteq Nat /\ 0 \notin Modules
<1>1. IsFiniteSet(Modules) /\ Modules = 1 .. Cardinality(Modules)
  BY UpdateAssumption DEF UpdateBounds
<1>2. LastModule \in Nat
  BY <1>1, FS_CardinalityType DEF LastModule
<1>3. QED
  BY <1>1, <1>2 DEF LastModule

Loaded    == [path : Modules, tree : Contents, deps : SUBSET Modules, iface : {0, 1}]
GraphType == [Modules -> Loaded \cup {NotLoaded}]
EntryType == [id : Modules, path : Modules]

LEMMA NotThere ==
  /\ NotLoaded \notin Loaded /\ NoEntry \notin EntryType
  /\ \A e \in EntryType : e.id \in Modules /\ e.path \in Modules /\ e # NoEntry
<1>1. NotLoaded.path = 0 /\ NoEntry.id = 0
  BY DEF NotLoaded, NoEntry
<1>2. QED
  BY <1>1, ModulesAre DEF Loaded, EntryType

\* A project and a state of its files.
LEMMA OnDisk ==
  ASSUME NEW q \in Projects, NEW D \in Disks(q)
  PROVE  /\ D \in [Modules -> Contents \cup {Absent}]
         /\ \A m \in Modules : D[m] \in q.versions[m]
         /\ \A m \in Modules : D[m] # Absent =>
              /\ D[m].imports \subseteq Modules /\ D[m].decl \in {0, 1}
              /\ D[m].reexports \subseteq D[m].imports /\ m \notin D[m].imports
<1>1. D \in [Modules -> UNION {q.versions[m] : m \in Modules}] /\ \A m \in Modules : D[m] \in q.versions[m]
  BY DEF Disks
<1>2. /\ q.versions \in [Modules -> SUBSET (Contents \cup {Absent})]
      /\ \A m \in Modules : \A v \in q.versions[m] \ {Absent} :
            v.reexports \subseteq v.imports /\ m \notin v.imports
  BY UpdateAssumption DEF UpdateBounds
<1>3. \A m \in Modules : D[m] \in Contents \cup {Absent}
  BY <1>1, <1>2
<1>4. D \in [Modules -> Contents \cup {Absent}]
  BY <1>1, <1>3
<1>5. QED
  BY <1>1, <1>2, <1>3, <1>4 DEF Contents

(***************************************************************************)
(* Reachability.                                                           *)
(***************************************************************************)
LEMMA Reaching ==
  ASSUME NEW D, NEW R \in SUBSET DOMAIN D
  PROVE  /\ R \subseteq Reach(D, R) /\ Reach(D, R) \subseteq DOMAIN D
         /\ \A m \in Reach(D, R) : \A i \in D[m] \cap DOMAIN D : i \in Reach(D, R)
         /\ \A M \in SUBSET DOMAIN D : R \subseteq M /\ ClosedUnder(D, M) => Reach(D, R) \subseteq M
BY DEF Reach, ClosedUnder

(***************************************************************************)
(* Iteration.  The library's theorems of induction are about operators;    *)
(* these are not.                                                          *)
(***************************************************************************)
LEMMA Smallest ==
  ASSUME NEW S \in SUBSET Nat, S # {}
  PROVE  \E n \in S : \A k \in S : n <= k
<1> DEFINE R == OpToRel(<, Nat)
<1>1. IsWellFoundedOn(R, Nat)
  BY NatLessThanWellFounded
<1>2. ASSUME NEW x \in Nat, NEW y \in Nat, y < x PROVE <<y, x>> \in R
  BY <1>2, Zenon DEF OpToRel
<1> HIDE DEF R
<1>3. PICK x \in S : \A y \in S : ~(<<y, x>> \in R)
  BY <1>1, WFMin
<1>4. ASSUME NEW k \in S PROVE x <= k
  <2>1. ~(k < x)
    BY <1>2, <1>3
  <2>2. QED
    BY <2>1
<1>5. QED
  BY <1>4

\* From a, by the steps F[1], F[2] and so on.
Iterates(f, S, a, F, n) == f \in [0..n -> S] /\ f[0] = a /\ \A k \in 1..n : f[k] = F[k][f[k - 1]]

LEMMA Iterating ==
  ASSUME NEW S, NEW a \in S, NEW n \in Nat, NEW F \in [1..n -> [S -> S]]
  PROVE  \E f : Iterates(f, S, a, F, n)
<1> DEFINE Bad == {k \in Nat : k <= n /\ ~\E f : Iterates(f, S, a, F, k)}
<1> SUFFICES ASSUME Bad # {}
             PROVE  FALSE
  <2>1. n \in Nat /\ n <= n
    OBVIOUS
  <2>2. n \notin Bad => \E f : Iterates(f, S, a, F, n)
    BY <2>1, Zenon
  <2>3. QED
    BY <2>2
<1>1. PICK b \in Bad : \A k \in Bad : b <= k
  BY Smallest
<1>2. CASE b = 0
  <2>1. Iterates([k \in 0..0 |-> a], S, a, F, 0)
    BY DEF Iterates
  <2>2. QED
    BY <1>2, <2>1
<1>3. CASE b # 0
  <2>1. b - 1 \in Nat /\ ~(b <= b - 1) /\ b \in 1..n /\ b - 1 <= n
    BY <1>3
  <2>2. PICK f : Iterates(f, S, a, F, b - 1)
    BY <1>1, <2>1
  <2> DEFINE g == [k \in 0..b |-> IF k = b THEN F[b][f[b - 1]] ELSE f[k]]
  <2>3. f \in [0..(b - 1) -> S] /\ f[0] = a /\ \A k \in 1..(b - 1) : f[k] = F[k][f[k - 1]]
    BY <2>2 DEF Iterates
  <2>4. f[b - 1] \in S /\ F[b][f[b - 1]] \in S
    BY <2>1, <2>3
  <2>5. g \in [0..b -> S] /\ g[0] = a
    BY <1>3, <2>3, <2>4
  <2>6. \A k \in 1..b : g[k] = F[k][g[k - 1]]
    BY <1>3, <2>1, <2>3
  <2>7. QED
    BY <2>5, <2>6 DEF Iterates
<1>4. QED
  BY <1>2, <1>3

LEMMA Climbing ==
  ASSUME NEW n \in Nat, NEW P, 0 \in P, \A k \in 1..n : k - 1 \in P => k \in P
  PROVE  \A k \in 0..n : k \in P
<1> DEFINE Bad == {k \in Nat : k <= n /\ k \notin P}
<1> SUFFICES ASSUME Bad # {}
             PROVE  FALSE
  OBVIOUS
<1>1. PICK b \in Bad : \A k \in Bad : b <= k
  BY Smallest
<1>2. b # 0 /\ b \in 1..n /\ b - 1 \in Nat /\ b - 1 <= n /\ ~(b <= b - 1)
  BY <1>1
<1>3. b - 1 \in P
  BY <1>1, <1>2
<1>4. QED
  BY <1>1, <1>2, <1>3

(***************************************************************************)
(* Lists of modules and their paths.                                       *)
(***************************************************************************)
\* An order of the modules of S names each of them, and no other.
LEMMA Ordered ==
  ASSUME NEW S \in SUBSET Modules, NEW s \in SetToSeqs(S)
  PROVE  s \in Seq(Modules) /\ {s[i] : i \in DOMAIN s} = S
<1> DEFINE D == 1 .. Cardinality(S)
<1>1. IsFiniteSet(S) /\ Cardinality(S) \in Nat
  BY ModulesAre, FS_Subset, FS_CardinalityType
<1>2. IsFiniteSet(D) /\ Cardinality(D) = Cardinality(S)
  BY <1>1, FS_Interval
<1>3. s \in [D -> S] /\ \A i, j \in D : i # j => s[i] # s[j]
  BY DEF SetToSeqs
<1>4. s \in Injection(D, S)
  BY <1>3 DEF Injection, IsInjective
<1>5. s \in Surjection(D, S)
  BY <1>1, <1>2, <1>4, FS_Injection
<1>6. {s[i] : i \in D} = S
  BY <1>3, <1>5 DEF Surjection
<1>7. DOMAIN s = D /\ s \in [D -> Modules]
  BY <1>3
<1>8. s \in Seq(Modules)
  BY <1>1, <1>7, SeqDef
<1>9. QED
  BY <1>6, <1>7, <1>8

LEMMA ListIds ==
  ASSUME NEW T \in SUBSET EntryType, NEW l \in Seq(T)
  PROVE  /\ Ids(l) \subseteq Modules
         /\ Ids(l) = {} <=> l = <<>>
         /\ \A m \in Ids(l) : \E e \in T : e.id = m
         /\ l # <<>> => /\ Head(l) \in T /\ Tail(l) \in Seq(T)
                        /\ Ids(l) = {Head(l).id} \cup Ids(Tail(l))
                        /\ Front(l) \in Seq(T) /\ Last(l) \in T
                        /\ Ids(l) = Ids(Front(l)) \cup {Last(l).id}
<1>1. Len(l) \in Nat /\ DOMAIN l = 1 .. Len(l) /\ \A i \in 1 .. Len(l) : l[i] \in T
  BY LenProperties
<1>2. Ids(l) \subseteq Modules /\ \A m \in Ids(l) : \E e \in T : e.id = m
  BY <1>1 DEF Ids, EntryType
<1>3. Ids(l) = {} <=> l = <<>>
  <2>1. l = <<>> => Ids(l) = {}
    BY DEF Ids
  <2>2. l # <<>> => l[1].id \in Ids(l)
    BY <1>1, EmptySeq DEF Ids
  <2>3. QED
    BY <2>1, <2>2
<1>4. ASSUME l # <<>>
      PROVE  Head(l) \in T /\ Tail(l) \in Seq(T) /\ Ids(l) = {Head(l).id} \cup Ids(Tail(l))
  <2>1. /\ Head(l) = l[1] /\ Tail(l) \in Seq(T) /\ Len(Tail(l)) = Len(l) - 1 /\ Len(l) \in Nat \ {0}
        /\ \A i \in 1 .. Len(Tail(l)) : Tail(l)[i] = l[i + 1]
    BY <1>4, HeadTailProperties, EmptySeq
  <2>2. DOMAIN Tail(l) = 1 .. (Len(l) - 1)
    BY <2>1, LenProperties
  <2>3. ASSUME NEW i \in 1 .. Len(l) PROVE l[i].id \in {Head(l).id} \cup Ids(Tail(l))
    <3>1. CASE i = 1
      BY <2>1, <3>1
    <3>2. CASE i # 1
      <4>1. i - 1 \in 1 .. (Len(l) - 1) /\ (i - 1) + 1 = i
        BY <1>1, <3>2
      <4>2. Tail(l)[i - 1] = l[i]
        BY <2>1, <4>1
      <4>3. QED
        BY <2>2, <4>1, <4>2 DEF Ids
    <3>3. QED
      BY <3>1, <3>2
  <2>4. ASSUME NEW i \in 1 .. (Len(l) - 1) PROVE Tail(l)[i].id \in Ids(l)
    <3>1. i + 1 \in 1 .. Len(l) /\ Tail(l)[i] = l[i + 1]
      BY <2>1
    <3>2. QED
      BY <1>1, <3>1 DEF Ids
  <2>5. l[1].id \in Ids(l)
    BY <1>1, <2>1 DEF Ids
  <2>6. Ids(l) \subseteq {Head(l).id} \cup Ids(Tail(l))
    BY <1>1, <2>3 DEF Ids
  <2>7. Ids(Tail(l)) \subseteq Ids(l)
    BY <2>2, <2>4 DEF Ids
  <2>8. Head(l) \in T
    BY <1>1, <2>1
  <2>9. QED
    BY <2>1, <2>5, <2>6, <2>7, <2>8
<1>5. ASSUME l # <<>>
      PROVE  Front(l) \in Seq(T) /\ Last(l) \in T /\ Ids(l) = Ids(Front(l)) \cup {Last(l).id}
  <2>1. Len(l) \in Nat \ {0} /\ Last(l) = l[Len(l)]
    BY <1>5, EmptySeq DEF Last
  <2>2. /\ Front(l) \in Seq(T) /\ Len(Front(l)) = Len(l) - 1
        /\ \A i \in 1 .. (Len(l) - 1) : Front(l)[i] = l[i]
    <3>1. Front(l) = SubSeq(l, 1, Len(l) - 1)
      BY DEF Front
    <3>2. \A i \in 1 .. (Len(l) - 1) : l[i] \in T
      BY <1>1, <2>1
    <3>3. SubSeq(l, 1, Len(l) - 1) \in Seq(T)
      BY <2>1, <3>2, SubSeqProperties
    <3>4. Len(SubSeq(l, 1, Len(l) - 1)) = Len(l) - 1
      <4> DEFINE n == Len(l) - 1
      <4>1. n \in Nat /\ \A i \in 1 .. n : l[i] \in T
        BY <2>1, <3>2
      <4> HIDE DEF n
      <4>2. Len(SubSeq(l, 1, n)) = IF 1 <= n THEN n - 1 + 1 ELSE 0
        BY <4>1, SubSeqProperties
      <4>3. Len(SubSeq(l, 1, n)) = n
        BY <4>1, <4>2
      <4>4. QED
        BY <4>3 DEF n
    <3>5. \A i \in 1 .. (Len(l) - 1) : SubSeq(l, 1, Len(l) - 1)[i] = l[i]
      BY <2>1, <3>2
    <3>6. QED
      BY <3>1, <3>3, <3>4, <3>5
  <2>3. DOMAIN Front(l) = 1 .. (Len(l) - 1)
    BY <2>2, LenProperties
  <2>4. \A i \in 1 .. Len(l) : i \in 1 .. (Len(l) - 1) \/ i = Len(l)
    BY <2>1
  <2>5. \A i \in 1 .. (Len(l) - 1) : i \in 1 .. Len(l)
    BY <2>1
  <2>6. Ids(Front(l)) \subseteq Ids(l) /\ Last(l).id \in Ids(l)
    BY <1>1, <2>1, <2>2, <2>3, <2>5 DEF Ids
  <2>7. Ids(l) \subseteq Ids(Front(l)) \cup {Last(l).id}
    BY <1>1, <2>1, <2>2, <2>3, <2>4 DEF Ids
  <2>8. QED
    BY <2>2, <1>1, <2>1, <2>6, <2>7
<1>6. QED
  BY <1>2, <1>3, <1>4, <1>5

LEMMA Joined ==
  ASSUME NEW T \in SUBSET EntryType, NEW l \in Seq(T), NEW k \in Seq(T)
  PROVE  l \o k \in Seq(T) /\ Ids(l \o k) = Ids(l) \cup Ids(k)
<1>1. /\ l \o k \in Seq(T) /\ Len(l \o k) = Len(l) + Len(k)
      /\ \A i \in 1 .. Len(l) + Len(k) : (l \o k)[i] = IF i <= Len(l) THEN l[i] ELSE k[i - Len(l)]
  BY ConcatProperties
<1>2. Len(l) \in Nat /\ DOMAIN l = 1 .. Len(l) /\ Len(k) \in Nat /\ DOMAIN k = 1 .. Len(k)
  BY LenProperties
<1>3. DOMAIN (l \o k) = 1 .. (Len(l) + Len(k))
  BY <1>1, LenProperties
<1>4. Ids(l) \subseteq Ids(l \o k)
  BY <1>1, <1>2, <1>3 DEF Ids
<1>5. ASSUME NEW j \in 1 .. Len(k) PROVE k[j].id \in Ids(l \o k)
  <2>1. Len(l) + j \in 1 .. (Len(l) + Len(k)) /\ (Len(l) + j) - Len(l) = j /\ ~(Len(l) + j <= Len(l))
    BY <1>2
  <2>2. (l \o k)[Len(l) + j] = k[j]
    BY <1>1, <2>1
  <2>3. QED
    BY <1>3, <2>1, <2>2 DEF Ids
<1>6. ASSUME NEW i \in 1 .. (Len(l) + Len(k)) PROVE (l \o k)[i].id \in Ids(l) \cup Ids(k)
  <2>1. CASE i <= Len(l)
    BY <1>1, <1>2, <2>1 DEF Ids
  <2>2. CASE ~(i <= Len(l))
    <3>1. i - Len(l) \in 1 .. Len(k)
      BY <1>2, <2>2
    <3>2. QED
      BY <1>1, <1>2, <2>2, <3>1 DEF Ids
  <2>3. QED
    BY <2>1, <2>2
<1>7. Ids(k) \subseteq Ids(l \o k)
  BY <1>2, <1>5 DEF Ids
<1>8. Ids(l \o k) \subseteq Ids(l) \cup Ids(k)
  BY <1>3, <1>6 DEF Ids
<1>9. QED
  BY <1>1, <1>4, <1>7, <1>8

LEMMA OneMore ==
  ASSUME NEW T \in SUBSET EntryType, NEW l \in Seq(T), NEW e \in T
  PROVE  Append(l, e) \in Seq(T) /\ Ids(Append(l, e)) = Ids(l) \cup {e.id}
<1>1. /\ Append(l, e) \in Seq(T) /\ Len(Append(l, e)) = Len(l) + 1
      /\ \A i \in 1 .. Len(l) : Append(l, e)[i] = l[i]
      /\ Append(l, e)[Len(l) + 1] = e
  BY AppendProperties
<1>2. Len(l) \in Nat /\ DOMAIN l = 1 .. Len(l) /\ DOMAIN Append(l, e) = 1 .. (Len(l) + 1)
  BY <1>1, LenProperties
<1>3. \A i \in 1 .. (Len(l) + 1) : i \in 1 .. Len(l) \/ i = Len(l) + 1
  BY <1>2
<1>4. \A i \in 1 .. Len(l) : i \in 1 .. (Len(l) + 1)
  BY <1>2
<1>5. Len(l) + 1 \in 1 .. (Len(l) + 1)
  BY <1>2
<1>6. QED
  BY <1>1, <1>2, <1>3, <1>4, <1>5 DEF Ids

\* dedupe_modules neither adds a module nor loses one.
LEMMA Deduped ==
  ASSUME NEW T \in SUBSET EntryType, NEW list \in Seq(T)
  PROVE  Dedupe(list) \in Seq(T) /\ Ids(Dedupe(list)) = Ids(list)
<1> DEFINE n == Len(list)
           Add(k, h) == IF list[k].id \in Ids(h) THEN h ELSE Append(h, list[k])
           F == [k \in 1 .. n |-> [h \in Seq(T) |-> Add(k, h)]]
           Is(f) == f = [k \in 0 .. Len(list) |->
                           IF k = 0 THEN <<>>
                           ELSE IF list[k].id \in Ids(f[k - 1]) THEN f[k - 1] ELSE Append(f[k - 1], list[k])]
           g == CHOOSE f : Is(f)
<1>1. n \in Nat /\ DOMAIN list = 1 .. n /\ \A k \in 1 .. n : list[k] \in T
  BY LenProperties
<1>2. ASSUME NEW k \in 1 .. n, NEW h \in Seq(T)
      PROVE  Add(k, h) \in Seq(T) /\ Ids(Add(k, h)) = Ids(h) \cup {list[k].id}
  <2>1. CASE list[k].id \in Ids(h)
    BY <2>1
  <2>2. CASE list[k].id \notin Ids(h)
    BY <1>1, <2>2, OneMore
  <2>3. QED
    BY <2>1, <2>2
<1>3. F \in [1 .. n -> [Seq(T) -> Seq(T)]] /\ <<>> \in Seq(T)
  BY <1>2, EmptySeq
<1>4. \A k \in 1 .. n : \A h \in Seq(T) : F[k][h] = Add(k, h)
  OBVIOUS
<1>5. PICK f : Iterates(f, Seq(T), <<>>, F, n)
  <2> HIDE DEF F, n
  <2>1. QED
    BY <1>1, <1>3, Iterating
<1> HIDE DEF F
<1>6. f \in [0 .. n -> Seq(T)] /\ f[0] = <<>> /\ \A k \in 1 .. n : f[k] = F[k][f[k - 1]]
  BY <1>5 DEF Iterates
<1>7. \A k \in 1 .. n : k - 1 \in 0 .. n /\ f[k - 1] \in Seq(T) /\ f[k] = Add(k, f[k - 1])
  <2> TAKE k \in 1 .. n
  <2>1. k - 1 \in 0 .. n
    BY <1>1
  <2>2. QED
    BY <1>4, <1>6, <2>1
<1>8. Is(f)
  <2>1. \A k \in 0 .. n : k = 0 \/ k \in 1 .. n
    BY <1>1
  <2>2. \A k \in 0 .. n : f[k] = IF k = 0 THEN <<>>
                                 ELSE IF list[k].id \in Ids(f[k - 1]) THEN f[k - 1] ELSE Append(f[k - 1], list[k])
    BY <1>1, <1>6, <1>7, <2>1
  <2>3. QED
    BY <1>6, <2>2
<1>9. Is(g)
  BY <1>8
<1>10. Dedupe(list) = g[n]
  BY DEF Dedupe
<1> HIDE DEF g
<1>11. g[0] = <<>> /\ \A k \in 1 .. n : g[k] = Add(k, g[k - 1])
  <2>1. 0 \in 0 .. n /\ \A k \in 1 .. n : k # 0 /\ k \in 0 .. n
    BY <1>1
  <2>2. QED
    BY <1>9, <2>1
<1> DEFINE P == {k \in 0 .. n : g[k] \in Seq(T) /\ Ids(g[k]) = {list[i].id : i \in 1 .. k}}
<1>12. 0 \in P
  <2>1. 1 .. 0 = {} /\ Ids(<<>>) = {}
    BY DEF Ids
  <2>2. Ids(g[0]) = {} /\ g[0] \in Seq(T) /\ 0 \in 0 .. n
    BY <1>1, <1>3, <1>11, <2>1
  <2>3. {list[i].id : i \in 1 .. 0} = {}
    BY <2>1
  <2>4. QED
    BY <2>2, <2>3
<1>13. ASSUME NEW k \in 1 .. n, k - 1 \in P PROVE k \in P
  <2>1. g[k] \in Seq(T) /\ Ids(g[k]) = Ids(g[k - 1]) \cup {list[k].id}
    <3>1. g[k - 1] \in Seq(T) /\ g[k] = Add(k, g[k - 1])
      BY <1>11, <1>13
    <3> HIDE DEF Add, P, n
    <3>2. QED
      BY <1>2, <3>1
  <2>2. \A i : i \in 1 .. k <=> i \in 1 .. (k - 1) \/ i = k
    BY <1>1
  <2>3. k \in 0 .. n
    BY <1>1
  <2>4. QED
    BY <1>13, <2>1, <2>2, <2>3
<1>14. \A k \in 0 .. n : k \in P
  <2> HIDE DEF P, n, g, Add, F
  <2>1. \A k \in 1 .. n : k - 1 \in P => k \in P
    BY <1>13
  <2>2. QED
    BY <1>1, <1>12, <2>1, Climbing
<1>15. n \in P
  <2>1. n \in 0 .. n
    BY <1>1
  <2> HIDE DEF P
  <2>2. QED
    BY <1>14, <2>1
<1>16. QED
  BY <1>1, <1>10, <1>15 DEF Ids

LEMMA TakenOut ==
  ASSUME NEW T \in SUBSET EntryType, NEW list \in Seq(T), NEW m
  PROVE  Without(list, m) \in Seq(T) /\ Ids(Without(list, m)) = Ids(list) \ {m}
<1> DEFINE n == Len(list)
           Add(k, h) == IF list[k].id = m THEN h ELSE Append(h, list[k])
           F == [k \in 1 .. n |-> [h \in Seq(T) |-> Add(k, h)]]
           Is(f) == f = [k \in 0 .. Len(list) |->
                           IF k = 0 THEN <<>>
                           ELSE IF list[k].id = m THEN f[k - 1] ELSE Append(f[k - 1], list[k])]
           g == CHOOSE f : Is(f)
<1>1. n \in Nat /\ DOMAIN list = 1 .. n /\ \A k \in 1 .. n : list[k] \in T
  BY LenProperties
<1>2. ASSUME NEW k \in 1 .. n, NEW h \in Seq(T)
      PROVE  Add(k, h) \in Seq(T) /\ Ids(Add(k, h)) = Ids(h) \cup ({list[k].id} \ {m})
  <2>1. CASE list[k].id = m
    BY <2>1
  <2>2. CASE list[k].id # m
    BY <1>1, <2>2, OneMore
  <2>3. QED
    BY <2>1, <2>2
<1>3. F \in [1 .. n -> [Seq(T) -> Seq(T)]] /\ <<>> \in Seq(T)
  BY <1>2, EmptySeq
<1>4. \A k \in 1 .. n : \A h \in Seq(T) : F[k][h] = Add(k, h)
  OBVIOUS
<1>5. PICK f : Iterates(f, Seq(T), <<>>, F, n)
  <2> HIDE DEF F, n
  <2>1. QED
    BY <1>1, <1>3, Iterating
<1> HIDE DEF F
<1>6. f \in [0 .. n -> Seq(T)] /\ f[0] = <<>> /\ \A k \in 1 .. n : f[k] = F[k][f[k - 1]]
  BY <1>5 DEF Iterates
<1>7. \A k \in 1 .. n : k - 1 \in 0 .. n /\ f[k - 1] \in Seq(T) /\ f[k] = Add(k, f[k - 1])
  <2> TAKE k \in 1 .. n
  <2>1. k - 1 \in 0 .. n
    BY <1>1
  <2>2. QED
    BY <1>4, <1>6, <2>1
<1>8. Is(f)
  <2>1. \A k \in 0 .. n : k = 0 \/ k \in 1 .. n
    BY <1>1
  <2>2. \A k \in 0 .. n : f[k] = IF k = 0 THEN <<>>
                                 ELSE IF list[k].id = m THEN f[k - 1] ELSE Append(f[k - 1], list[k])
    BY <1>1, <1>6, <1>7, <2>1
  <2>3. QED
    BY <1>6, <2>2
<1>9. Is(g)
  BY <1>8
<1>10. Without(list, m) = g[n]
  BY DEF Without
<1> HIDE DEF g
<1>11. g[0] = <<>> /\ \A k \in 1 .. n : g[k] = Add(k, g[k - 1])
  <2>1. 0 \in 0 .. n /\ \A k \in 1 .. n : k # 0 /\ k \in 0 .. n
    BY <1>1
  <2>2. QED
    BY <1>9, <2>1
<1> DEFINE P == {k \in 0 .. n : g[k] \in Seq(T) /\ Ids(g[k]) = {list[i].id : i \in 1 .. k} \ {m}}
<1>12. 0 \in P
  <2>1. 1 .. 0 = {} /\ Ids(<<>>) = {}
    BY DEF Ids
  <2>2. Ids(g[0]) = {} /\ g[0] \in Seq(T) /\ 0 \in 0 .. n
    BY <1>1, <1>3, <1>11, <2>1
  <2>3. {list[i].id : i \in 1 .. 0} \ {m} = {}
    BY <2>1
  <2>4. QED
    BY <2>2, <2>3
<1>13. ASSUME NEW k \in 1 .. n, k - 1 \in P PROVE k \in P
  <2>1. g[k] \in Seq(T) /\ Ids(g[k]) = Ids(g[k - 1]) \cup ({list[k].id} \ {m})
    <3>1. g[k - 1] \in Seq(T) /\ g[k] = Add(k, g[k - 1])
      BY <1>11, <1>13
    <3> HIDE DEF Add, P, n
    <3>2. QED
      BY <1>2, <3>1
  <2>2. \A i : i \in 1 .. k <=> i \in 1 .. (k - 1) \/ i = k
    BY <1>1
  <2>3. k \in 0 .. n
    BY <1>1
  <2>4. QED
    BY <1>13, <2>1, <2>2, <2>3
<1>14. \A k \in 0 .. n : k \in P
  <2> HIDE DEF P, n, g, Add, F
  <2>1. \A k \in 1 .. n : k - 1 \in P => k \in P
    BY <1>13
  <2>2. QED
    BY <1>1, <1>12, <2>1, Climbing
<1>15. n \in P
  <2>1. n \in 0 .. n
    BY <1>1
  <2> HIDE DEF P
  <2>2. QED
    BY <1>14, <2>1
<1>16. QED
  BY <1>1, <1>10, <1>15 DEF Ids

(***************************************************************************)
(* Checking modules again.                                                 *)
(***************************************************************************)
LookType == [Modules -> {Missing, 0, 1}]

\* What may be seen of the modules when g is loaded.
Faces(g) == {look \in LookType : \A m \in InGraph(g) : look[m] \in {0, 1}}

LEMMA Interfaces ==
  ASSUME NEW v \in Contents, NEW look \in LookType
  PROVE  Interface(v, look) \in {0, 1} /\ Complaints(v, look) \subseteq Modules
<1>1. v.imports \subseteq Modules /\ v.reexports \subseteq Modules /\ v.decl \in {0, 1}
  BY DEF Contents
<1>2. \A i \in v.reexports : look[i] \in {Missing, 0, 1}
  BY <1>1 DEF LookType
<1>3. v.reexports # {} => (CHOOSE i \in v.reexports : TRUE) \in v.reexports
  OBVIOUS
<1>4. QED
  BY <1>1, <1>2, <1>3 DEF Interface, Complaints

LEMMA InGraphAre ==
  ASSUME NEW g \in GraphType
  PROVE  /\ InGraph(g) \subseteq Modules
         /\ \A m \in Modules : m \in InGraph(g) <=> g[m] \in Loaded
         /\ \A m \in Modules : m \notin InGraph(g) <=> g[m] = NotLoaded
         /\ \A m \in InGraph(g) :
              /\ g[m].path \in Modules /\ g[m].tree \in Contents
              /\ g[m].deps \subseteq Modules /\ g[m].iface \in {0, 1}
BY NotThere DEF InGraph, GraphType, Loaded

\* What is seen after each module, when those of todo are checked in turn.
InTurn(g, look, todo, looks) ==
  /\ \A k \in 0 .. LastModule : looks[k] \in Faces(g)
  /\ \A k \in 0 .. LastModule : \A m \in Modules :
       looks[k][m] = IF m <= k THEN looks[LastModule][m] ELSE look[m]
  /\ \A m \in Modules :
       looks[LastModule][m] = IF m \in todo THEN Interface(g[m].tree, looks[m - 1]) ELSE look[m]

LEMMA Reprocessed ==
  ASSUME NEW g \in GraphType, NEW look \in Faces(g), NEW todo \in SUBSET InGraph(g)
  PROVE  InTurn(g, look, todo, Reprocess(g, look, todo))
<1> DEFINE N == Cardinality(Modules)
           S == Faces(g)
           New(k, h) == IF k \notin todo THEN h ELSE [h EXCEPT ![k] = Interface(g[k].tree, h)]
           F == [k \in 1 .. N |-> [h \in S |-> New(k, h)]]
           Is(f) == f = [k \in 0 .. Cardinality(Modules) |->
                           IF k = 0 THEN look
                           ELSE IF k \notin todo THEN f[k - 1]
                           ELSE [f[k - 1] EXCEPT ![k] = Interface(g[k].tree, f[k - 1])]]
           looks == CHOOSE f : Is(f)
<1>1. N \in Nat /\ Modules = 1 .. N /\ N = LastModule
  BY ModulesAre DEF LastModule
<1>2. ASSUME NEW k \in 1 .. N, NEW h \in S
      PROVE  New(k, h) \in S
  <2>1. h \in LookType /\ \A m \in InGraph(g) : h[m] \in {0, 1}
    BY DEF Faces
  <2>2. CASE k \in todo
    <3>1. g[k].tree \in Contents
      BY <2>2, InGraphAre
    <3>2. Interface(g[k].tree, h) \in {0, 1}
      BY <2>1, <3>1, Interfaces
    <3>3. \A v \in {0, 1} : /\ [h EXCEPT ![k] = v] \in LookType
                            /\ \A m \in Modules : [h EXCEPT ![k] = v][m] = IF m = k THEN v ELSE h[m]
      BY <2>1 DEF LookType
    <3>4. \A v \in {0, 1} : [h EXCEPT ![k] = v] \in S
      BY <2>1, <3>3, InGraphAre DEF Faces
    <3>5. QED
      BY <2>2, <3>2, <3>4
  <2>3. CASE k \notin todo
    BY <2>3
  <2>4. QED
    BY <2>2, <2>3
<1>3. F \in [1 .. N -> [S -> S]]
  BY <1>2
<1>4. \A k \in 1 .. N : \A h \in S : F[k][h] = New(k, h)
  OBVIOUS
<1>5. PICK f : Iterates(f, S, look, F, N)
  <2> HIDE DEF F, N, S
  <2>1. look \in S
    BY DEF S
  <2>2. QED
    BY <1>1, <1>3, <2>1, Iterating
<1> HIDE DEF F
<1>6. f \in [0 .. N -> S] /\ f[0] = look /\ \A k \in 1 .. N : f[k] = F[k][f[k - 1]]
  BY <1>5 DEF Iterates
<1>7. \A k \in 1 .. N : f[k] = New(k, f[k - 1])
  <2> TAKE k \in 1 .. N
  <2>1. k - 1 \in 0 .. N
    BY <1>1
  <2>2. QED
    BY <1>4, <1>6, <2>1
<1>8. Is(f)
  <2>1. \A k \in 0 .. N : k = 0 \/ k \in 1 .. N
    BY <1>1
  <2>2. \A k \in 0 .. N : f[k] = IF k = 0 THEN look ELSE New(k, f[k - 1])
    BY <1>6, <1>7, <2>1
  <2>3. QED
    BY <1>6, <2>2
<1>9. Is(looks)
  BY <1>8
<1>10. Reprocess(g, look, todo) = looks
  BY DEF Reprocess
<1> HIDE DEF looks
<1>11. looks[0] = look /\ \A k \in 1 .. N : looks[k] = New(k, looks[k - 1])
  <2>1. 0 \in 0 .. N /\ \A k \in 1 .. N : k # 0 /\ k \in 0 .. N
    BY <1>1
  <2>2. QED
    BY <1>9, <2>1
<1>12. \A k \in 1 .. N : k - 1 \in 0 .. N
  BY <1>1
<1>13. \A k \in 0 .. N : looks[k] \in S
  <2> DEFINE P == {k \in 0 .. N : looks[k] \in S}
  <2>1. 0 \in P
    BY <1>1, <1>11
  <2>2. ASSUME NEW k \in 1 .. N, k - 1 \in P PROVE k \in P
    <3>1. looks[k - 1] \in S /\ k \in 0 .. N
      BY <1>1, <2>2
    <3> HIDE DEF New, N, S
    <3>2. looks[k] = New(k, looks[k - 1])
      BY <1>11
    <3>3. looks[k] \in S
      BY <1>2, <3>1, <3>2
    <3>4. QED
      BY <3>1, <3>3
  <2>3. \A k \in 1 .. N : k - 1 \in P => k \in P
    BY <2>2
  <2> HIDE DEF P, New, N, S
  <2>4. \A k \in 0 .. N : k \in P
    BY <1>1, <2>1, <2>3, Climbing
  <2>5. QED
    BY <2>4 DEF P
<1>14. ASSUME NEW k \in 1 .. N, NEW m \in Modules
       PROVE  looks[k][m] = IF m = k /\ m \in todo THEN Interface(g[m].tree, looks[m - 1]) ELSE looks[k - 1][m]
  <2>1. looks[k - 1] \in [Modules -> {Missing, 0, 1}]
    BY <1>12, <1>13 DEF Faces, LookType
  <2>2. QED
    BY <1>11, <2>1
<1> HIDE DEF New
\* Nothing is seen of the modules to come.
<1>15. ASSUME NEW m \in Modules PROVE \A k \in 0 .. N : m > k => looks[k][m] = look[m]
  <2> DEFINE P == {k \in 0 .. N : m > k => looks[k][m] = look[m]}
  <2>1. 0 \in P
    BY <1>1, <1>11
  <2>2. ASSUME NEW k \in 1 .. N, k - 1 \in P PROVE k \in P
    <3>1. k \in 0 .. N /\ (m > k => m # k /\ m > k - 1)
      BY <1>1
    <3>2. QED
      BY <1>14, <2>2, <3>1
  <2>3. \A k \in 1 .. N : k - 1 \in P => k \in P
    BY <2>2
  <2> HIDE DEF P, N, S
  <2>4. \A k \in 0 .. N : k \in P
    BY <1>1, <2>1, <2>3, Climbing
  <2>5. QED
    BY <2>4 DEF P
<1>16. ASSUME NEW m \in Modules PROVE \A k \in 0 .. N : m <= k => looks[k][m] = looks[m][m]
  <2> DEFINE P == {k \in 0 .. N : m <= k => looks[k][m] = looks[m][m]}
  <2>1. 0 \in P
    BY <1>1
  <2>2. ASSUME NEW k \in 1 .. N, k - 1 \in P PROVE k \in P
    <3>1. k \in 0 .. N /\ (m <= k => m = k \/ (m <= k - 1 /\ m # k))
      BY <1>1
    <3>2. QED
      BY <1>14, <2>2, <3>1
  <2>3. \A k \in 1 .. N : k - 1 \in P => k \in P
    BY <2>2
  <2> HIDE DEF P, N, S
  <2>4. \A k \in 0 .. N : k \in P
    BY <1>1, <2>1, <2>3, Climbing
  <2>5. QED
    BY <2>4 DEF P
<1>17. \A m \in Modules : looks[N][m] = looks[m][m]
  BY <1>1, <1>16
<1>18. ASSUME NEW m \in Modules
       PROVE  looks[N][m] = IF m \in todo THEN Interface(g[m].tree, looks[m - 1]) ELSE look[m]
  <2>1. m \in 1 .. N /\ m - 1 \in 0 .. N /\ m > m - 1
    BY <1>1
  <2>2. looks[m - 1][m] = look[m]
    BY <1>15, <2>1
  <2>3. looks[m][m] = IF m \in todo THEN Interface(g[m].tree, looks[m - 1]) ELSE looks[m - 1][m]
    BY <1>14, <2>1
  <2>4. QED
    BY <1>17, <2>2, <2>3
<1>19. ASSUME NEW k \in 0 .. N, NEW m \in Modules
       PROVE  looks[k][m] = IF m <= k THEN looks[N][m] ELSE look[m]
  <2>1. m <= k \/ m > k
    BY <1>1
  <2>2. QED
    BY <1>15, <1>16, <1>17, <2>1
<1>20. InTurn(g, look, todo, looks)
  BY <1>1, <1>13, <1>18, <1>19 DEF InTurn
<1>21. QED
  BY <1>10, <1>20

RoundType(g) == [look : Faces(g), errors : [Modules -> SUBSET Modules], triggered : SUBSET Modules,
                 upToDate : SUBSET (Modules \cup {0}), withErrors : SUBSET Modules]
DepsType == [Modules -> SUBSET Modules]

\* What one round does, for any module.
LEMMA OneRound ==
  ASSUME NEW g \in GraphType, NEW d \in DepsType, NEW r \in RoundType(g)
  PROVE  /\ Todo(d, g, r) \in SUBSET InGraph(g)
         /\ Round(d, g, r) \in RoundType(g)
         /\ Round(d, g, r).upToDate = {} /\ Round(d, g, r).withErrors = {}
         /\ \E looks : /\ InTurn(g, r.look, Todo(d, g, r), looks)
                       /\ Round(d, g, r).look = looks[LastModule]
                       /\ \A m \in Modules : Round(d, g, r).errors[m] =
                            IF m \in Todo(d, g, r) THEN Complaints(g[m].tree, looks[m - 1]) ELSE r.errors[m]
                       /\ Round(d, g, r).triggered =
                            {m \in Todo(d, g, r) : looks[LastModule][m] # r.look[m]}
<1> DEFINE todo  == Todo(d, g, r)
           looks == Reprocess(g, r.look, todo)
           next  == Round(d, g, r)
<1>1. r.look \in Faces(g) /\ r.errors \in [Modules -> SUBSET Modules]
  BY DEF RoundType
<1>2. todo \in SUBSET InGraph(g)
  BY DEF Todo
<1>3. InTurn(g, r.look, todo, looks)
  <2> HIDE DEF todo
  <2>1. QED
    BY <1>1, <1>2, Reprocessed
<1>4. next = [look       |-> looks[LastModule],
              errors     |-> [m \in Modules |-> IF m \in todo THEN Complaints(g[m].tree, looks[m - 1]) ELSE r.errors[m]],
              triggered  |-> {m \in todo : looks[LastModule][m] # r.look[m]},
              upToDate   |-> {},
              withErrors |-> {}]
  BY DEF Round, LastModule
<1> HIDE DEF todo, looks, next
<1>5. /\ next.look = looks[LastModule] /\ next.upToDate = {} /\ next.withErrors = {}
      /\ next.errors = [m \in Modules |-> IF m \in todo THEN Complaints(g[m].tree, looks[m - 1]) ELSE r.errors[m]]
      /\ next.triggered = {m \in todo : looks[LastModule][m] # r.look[m]}
  BY <1>4
<1>6. looks[LastModule] \in Faces(g)
  BY <1>3, ModulesAre DEF InTurn
<1>7. ASSUME NEW m \in todo PROVE Complaints(g[m].tree, looks[m - 1]) \in SUBSET Modules
  <2>1. g[m].tree \in Contents /\ m - 1 \in 0 .. LastModule
    BY <1>2, InGraphAre, ModulesAre
  <2>2. looks[m - 1] \in LookType
    BY <1>3, <2>1 DEF InTurn, Faces
  <2>3. QED
    BY <2>1, <2>2, Interfaces
<1>8. next.errors \in [Modules -> SUBSET Modules]
  BY <1>1, <1>5, <1>7
<1>9. next.triggered \in SUBSET Modules
  BY <1>2, <1>5 DEF InGraph
<1>10. next \in RoundType(g)
  BY <1>4, <1>5, <1>6, <1>8, <1>9 DEF RoundType
<1>11. /\ InTurn(g, r.look, todo, looks)
       /\ next.look = looks[LastModule]
       /\ \A m \in Modules : next.errors[m] =
            IF m \in todo THEN Complaints(g[m].tree, looks[m - 1]) ELSE r.errors[m]
       /\ next.triggered = {m \in todo : looks[LastModule][m] # r.look[m]}
  BY <1>3, <1>5
<1>12. QED
  BY <1>2, <1>5, <1>10, <1>11 DEF todo, next

\* What every round preserves is so in the end.
LEMMA Propagating ==
  ASSUME NEW d, NEW g, NEW S, NEW start \in S, \A r \in S : Round(d, g, r) \in S
  PROVE  \E r \in S : Propagate(d, g, start) =
                        [graph |-> WithLook(g, r.look), errors |-> r.errors, settled |-> IsSettled(r)]
<1> DEFINE F == [k \in 1 .. MAX_ITER |-> [r \in S |-> Round(d, g, r)]]
           Is(f) == f = [n \in 0 .. MAX_ITER |->
                           IF n = 0 THEN start ELSE Round(d, g, f[n - 1])]
           round == CHOOSE f : Is(f)
           n0    == CHOOSE n \in 0 .. MAX_ITER : IsSettled(round[n]) \/ n = MAX_ITER
<1>1. MAX_ITER \in Nat
  BY DEF MAX_ITER
<1>2. F \in [1 .. MAX_ITER -> [S -> S]] /\ \A k \in 1 .. MAX_ITER : \A r \in S : F[k][r] = Round(d, g, r)
  OBVIOUS
<1>4. PICK f : Iterates(f, S, start, F, MAX_ITER)
  <2> HIDE DEF F
  <2>1. QED
    BY <1>1, <1>2, Iterating
<1> HIDE DEF F
<1>5. f \in [0 .. MAX_ITER -> S] /\ f[0] = start /\ \A k \in 1 .. MAX_ITER : f[k] = F[k][f[k - 1]]
  BY <1>4 DEF Iterates
<1>6. \A k \in 1 .. MAX_ITER : f[k] = Round(d, g, f[k - 1])
  <2> TAKE k \in 1 .. MAX_ITER
  <2>1. k - 1 \in 0 .. MAX_ITER
    BY <1>1
  <2>2. QED
    BY <1>2, <1>5, <2>1
<1>7. Is(f)
  <2>1. \A k \in 0 .. MAX_ITER : k = 0 \/ k \in 1 .. MAX_ITER
    BY <1>1
  <2>2. \A k \in 0 .. MAX_ITER : f[k] = IF k = 0 THEN start ELSE Round(d, g, f[k - 1])
    BY <1>5, <1>6, <2>1
  <2>3. QED
    BY <1>5, <2>2
<1>8. Is(round)
  BY <1>7
<1>9. Propagate(d, g, start) =
        [graph |-> WithLook(g, round[n0].look), errors |-> round[n0].errors, settled |-> IsSettled(round[n0])]
  BY DEF Propagate
<1> HIDE DEF round
<1>10. round[0] = start /\ \A k \in 1 .. MAX_ITER : round[k] = Round(d, g, round[k - 1])
  <2>1. 0 \in 0 .. MAX_ITER /\ \A k \in 1 .. MAX_ITER : k # 0 /\ k \in 0 .. MAX_ITER
    BY <1>1
  <2>2. QED
    BY <1>8, <2>1
<1>11. \A k \in 0 .. MAX_ITER : round[k] \in S
  <2> DEFINE P == {k \in 0 .. MAX_ITER : round[k] \in S}
  <2>1. 0 \in P
    BY <1>1, <1>10
  <2>2. ASSUME NEW k \in 1 .. MAX_ITER, k - 1 \in P PROVE k \in P
    <3>1. round[k - 1] \in S /\ k \in 0 .. MAX_ITER
      BY <1>1, <2>2
    <3>2. QED
      BY <1>10, <3>1
  <2>3. \A k \in 1 .. MAX_ITER : k - 1 \in P => k \in P
    BY <2>2
  <2> HIDE DEF P
  <2>4. \A k \in 0 .. MAX_ITER : k \in P
    BY <1>1, <2>1, <2>3, Climbing
  <2>5. QED
    BY <2>4 DEF P
<1>12. n0 \in 0 .. MAX_ITER
  <2>1. MAX_ITER \in 0 .. MAX_ITER /\ (IsSettled(round[MAX_ITER]) \/ MAX_ITER = MAX_ITER)
    BY <1>1
  <2>2. \E n \in 0 .. MAX_ITER : IsSettled(round[n]) \/ n = MAX_ITER
    BY <2>1
  <2>3. QED
    BY <2>2
<1> HIDE DEF n0
<1>13. QED
  BY <1>9, <1>11, <1>12

\* h has the modules of g, with other interfaces at most.
SameModules(h, g) ==
  /\ InGraph(h) = InGraph(g)
  /\ \A m \in InGraph(g) : h[m].path = g[m].path /\ h[m].tree = g[m].tree /\ h[m].deps = g[m].deps

LEMMA Relooked ==
  ASSUME NEW g \in GraphType, NEW look \in Faces(g)
  PROVE  /\ WithLook(g, look) \in GraphType /\ SameModules(WithLook(g, look), g)
         /\ \A m \in InGraph(g) : WithLook(g, look)[m].iface = look[m]
<1> DEFINE h == WithLook(g, look)
<1>1. \A m \in Modules : h[m] = IF g[m] = NotLoaded THEN NotLoaded ELSE [g[m] EXCEPT !.iface = look[m]]
  BY DEF WithLook
<1>2. ASSUME NEW m \in InGraph(g)
      PROVE  /\ h[m] \in Loaded /\ h[m].path = g[m].path /\ h[m].tree = g[m].tree
             /\ h[m].deps = g[m].deps /\ h[m].iface = look[m]
  <2>1. m \in Modules /\ g[m] \in Loaded /\ g[m] # NotLoaded /\ look[m] \in {0, 1}
    BY InGraphAre, NotThere DEF Faces
  <2>2. h[m] = [g[m] EXCEPT !.iface = look[m]]
    BY <1>1, <2>1
  <2>3. QED
    BY <2>1, <2>2 DEF Loaded
<1>3. \A m \in Modules : m \notin InGraph(g) => h[m] = NotLoaded
  BY <1>1, InGraphAre
<1>4. h = [m \in Modules |-> h[m]]
  BY DEF WithLook
<1>5. \A m \in Modules : h[m] \in Loaded \cup {NotLoaded}
  BY <1>2, <1>3
<1> HIDE DEF h
<1>6. h \in GraphType
  BY <1>4, <1>5 DEF GraphType
<1>7. InGraph(h) = InGraph(g)
  <2>1. \A m \in Modules : m \in InGraph(g) <=> h[m] # NotLoaded
    BY <1>2, <1>3, NotThere
  <2>2. InGraph(g) \subseteq Modules
    BY InGraphAre
  <2>3. QED
    BY <2>1, <2>2 DEF InGraph
<1>8. QED
  BY <1>2, <1>6, <1>7 DEF h, SameModules

LEMMA LooksAre ==
  ASSUME NEW g \in GraphType, NEW D
  PROVE  /\ Lookup(D, g) \in Faces(g)
         /\ \A m \in InGraph(g) : Lookup(D, g)[m] = g[m].iface
         /\ \A m \in Modules \ InGraph(g) : Lookup(D, g)[m] = IF D[m] = Absent THEN Missing ELSE 0
<1>1. \A m \in Modules : Lookup(D, g)[m] = IF g[m] # NotLoaded THEN g[m].iface
                                           ELSE IF D[m] = Absent THEN Missing ELSE 0
  BY DEF Lookup
<1>2. \A m \in InGraph(g) : m \in Modules /\ g[m] # NotLoaded /\ g[m].iface \in {0, 1}
  BY InGraphAre, NotThere
<1>3. \A m \in Modules \ InGraph(g) : g[m] = NotLoaded
  BY InGraphAre
<1>4. \A m \in Modules : Lookup(D, g)[m] \in {Missing, 0, 1}
  BY <1>1, <1>2, <1>3
<1>5. Lookup(D, g) \in LookType
  BY <1>4 DEF Lookup, LookType
<1>6. QED
  BY <1>1, <1>2, <1>3, <1>5 DEF Faces

(***************************************************************************)
(* Types.  T are the entries that lists may have: any, or, as long as      *)
(* there are no syntax errors, those of modules in files of their own.     *)
(***************************************************************************)
ErrorsType == [Modules -> SUBSET Modules]
OwnFiles == {Entry(m, m) : m \in Modules}
NoSyntaxErrors == \A m \in Modules : \A v \in project.versions[m] : v # Absent => v.bad # "parse"
Suits(T) == T = EntryType \/ (T = OwnFiles /\ NoSyntaxErrors)

Listed(T) ==
  /\ pending \in Seq(T) /\ stale \in Seq(T) /\ queue \in Seq(T)
  /\ blockingError \in T \cup {NoEntry}
  /\ \A m \in InGraph(graph) : Entry(m, graph[m].path) \in T

Typed(T) ==
  /\ project \in Projects /\ files \in Disks(project) /\ roots \in project.roots
  /\ pc \in {"idle", "daemon", "update", "crashed", "endless"}
  /\ step \in {"none", "follow", "delete", "finish"}
  /\ changedFiles \subseteq Modules /\ visited \subseteq Modules /\ origModules \subseteq Modules
  /\ previousSources \subseteq Modules /\ previousModules \subseteq Modules
  /\ graph \in GraphType /\ deps \in DepsType /\ complaints \in ErrorsType
  /\ targetsWithErrors \subseteq Modules
  /\ messages.blocker \in Modules \cup {0} /\ lastId \in Modules \cup {0}
  /\ initialSet \subseteq Modules /\ removedSet \subseteq Modules
  /\ Listed(T)

LEMMA SuitsAre ==
  ASSUME NEW T, Suits(T)
  PROVE  T \in SUBSET EntryType /\ \A m \in Modules : Entry(m, m) \in T
<1>1. \A m \in Modules : Entry(m, m) \in EntryType
  BY DEF EntryType, Entry
<1>2. OwnFiles \subseteq EntryType /\ \A m \in Modules : Entry(m, m) \in OwnFiles
  BY <1>1 DEF OwnFiles
<1>3. QED
  BY <1>1, <1>2 DEF Suits

LEMMA EntriesAre ==
  ASSUME NEW T, Suits(T), NEW S \in SUBSET Modules, NEW g \in GraphType, NEW s \in Entries(g, S),
         \A m \in InGraph(g) : Entry(m, g[m].path) \in T
  PROVE  s \in Seq(T) /\ Ids(s) = S
<1>1. PICK q \in SetToSeqs(S) : s = [i \in DOMAIN q |-> Entry(q[i], PathOf(g, q[i]))]
  BY DEF Entries
<1>2. q \in Seq(Modules) /\ {q[i] : i \in DOMAIN q} = S
  BY Ordered
<1>3. ASSUME NEW m \in Modules PROVE Entry(m, PathOf(g, m)) \in T /\ Entry(m, PathOf(g, m)).id = m
  <2>1. m \in InGraph(g) \/ g[m] = NotLoaded
    BY InGraphAre
  <2>2. m \in InGraph(g) => g[m] # NotLoaded
    BY InGraphAre, NotThere
  <2>3. QED
    BY <2>1, <2>2, SuitsAre DEF PathOf, Entry
<1>4. Len(q) \in Nat /\ DOMAIN q = 1 .. Len(q) /\ \A i \in 1 .. Len(q) : q[i] \in Modules
  BY <1>2, LenProperties
<1>5. s \in [1 .. Len(q) -> T]
  BY <1>1, <1>3, <1>4
<1>6. s \in Seq(T)
  BY <1>4, <1>5, SeqDef
<1>7. \A i \in DOMAIN q : s[i].id = q[i]
  BY <1>1, <1>3, <1>4
<1>8. DOMAIN s = DOMAIN q
  BY <1>1
<1>9. Ids(s) = S
  BY <1>2, <1>7, <1>8 DEF Ids
<1>10. QED
  BY <1>6, <1>9

LEMMA RemainingAre ==
  ASSUME NEW T, Suits(T), NEW m \in Modules, NEW p \in Modules, Entry(m, p) \in T,
         NewModules(m, p) \subseteq Modules, NEW s \in Remaining(m, p)
  PROVE  s \in Seq(T) /\ Ids(s) = NewModules(m, p) \ {Leaf(m, p)}
<1> DEFINE new == NewModules(m, p)
           x   == Leaf(m, p)
           At(n) == Entry(n, IF n = m THEN p ELSE n)
<1>1. PICK q \in SetToSeqs(new \ {x}) : s = [i \in DOMAIN q |-> At(q[i])]
  BY DEF Remaining
<1> HIDE DEF x
<1>2. q \in Seq(Modules) /\ {q[i] : i \in DOMAIN q} = new \ {x}
  BY Ordered
<1>3. ASSUME NEW n \in Modules PROVE At(n) \in T /\ At(n).id = n
  BY SuitsAre DEF Entry
<1> HIDE DEF At
<1>4. Len(q) \in Nat /\ DOMAIN q = 1 .. Len(q) /\ \A i \in 1 .. Len(q) : q[i] \in Modules
  BY <1>2, LenProperties
<1>5. s \in [1 .. Len(q) -> T]
  BY <1>1, <1>3, <1>4
<1>6. s \in Seq(T)
  BY <1>4, <1>5, SeqDef
<1>7. \A i \in DOMAIN q : s[i].id = q[i]
  BY <1>1, <1>3, <1>4
<1>8. DOMAIN s = DOMAIN q
  BY <1>1
<1>9. Ids(s) = new \ {x}
  BY <1>2, <1>7, <1>8 DEF Ids
<1>10. QED
  BY <1>6, <1>9 DEF x

(***************************************************************************)
(* A full build.                                                           *)
(***************************************************************************)
LEMMA FullAre ==
  ASSUME NEW q \in Projects, NEW D \in Disks(q), NEW R \in SUBSET Modules, \A m \in R : D[m] # Absent
  PROVE  /\ R \subseteq FullModules(D, R) /\ FullModules(D, R) \subseteq Modules
         /\ \A m \in FullModules(D, R) : D[m] # Absent /\ D[m] \in Contents
         /\ \A m \in FullModules(D, R) : D[m].bad # "parse" =>
              \A i \in D[m].imports : D[i] # Absent => i \in FullModules(D, R)
         /\ \A M \in SUBSET Modules :
              R \subseteq M /\ (\A m \in M : D[m] # Absent => \A i \in D[m].imports : D[i] # Absent => i \in M)
                => FullModules(D, R) \subseteq M
<1> DEFINE E == FullEdges(D)
           full == FullModules(D, R)
<1>1. DOMAIN E = Modules /\ full = Reach(E, R)
  BY DEF FullEdges, FullModules
<1>2. \A m \in Modules : E[m] = IF D[m] = Absent \/ D[m].bad = "parse" THEN {}
                                ELSE {i \in D[m].imports : D[i] # Absent}
  BY DEF FullEdges
<1>3. /\ D \in [Modules -> Contents \cup {Absent}]
      /\ \A m \in Modules : D[m] # Absent => D[m].imports \subseteq Modules
  BY OnDisk
<1>4. \A m \in Modules : E[m] \subseteq Modules
  BY <1>2, <1>3
<1> HIDE DEF E, full
<1>5. /\ R \subseteq full /\ full \subseteq Modules
      /\ \A m \in full : \A i \in E[m] \cap Modules : i \in full
      /\ \A M \in SUBSET Modules : R \subseteq M /\ ClosedUnder(E, M) => full \subseteq M
  BY <1>1, Reaching
<1>6. \A m \in full : D[m] # Absent
  <2> DEFINE M == {m \in Modules : D[m] # Absent}
  <2>1. R \subseteq M
    OBVIOUS
  <2>2. ClosedUnder(E, M)
    BY <1>2, <1>4 DEF ClosedUnder
  <2>3. M \in SUBSET Modules
    OBVIOUS
  <2>4. full \subseteq M
    BY <1>5, <2>1, <2>2, <2>3
  <2>5. QED
    BY <2>4
<1>7. \A m \in full : D[m] \in Contents
  BY <1>3, <1>5, <1>6
<1>8. ASSUME NEW m \in full, D[m].bad # "parse", NEW i \in D[m].imports, D[i] # Absent
      PROVE  i \in full
  BY <1>2, <1>3, <1>5, <1>6, <1>8
<1>9. ASSUME NEW M \in SUBSET Modules, R \subseteq M,
             \A m \in M : D[m] # Absent => \A i \in D[m].imports : D[i] # Absent => i \in M
      PROVE  full \subseteq M
  <2>1. ClosedUnder(E, M)
    BY <1>2, <1>9 DEF ClosedUnder
  <2>2. QED
    BY <1>5, <1>9, <2>1
<1>10. QED
  BY <1>5, <1>6, <1>7, <1>8, <1>9 DEF full

\* The interface of m, when those of the others are as in look.
FullFace(D, R, m, look) == IF m \notin FullModules(D, R) THEN Missing ELSE Interface(D[m], look)

LEMMA FullFaceType ==
  ASSUME NEW q \in Projects, NEW D \in Disks(q), NEW R \in SUBSET Modules, \A m \in R : D[m] # Absent,
         NEW m \in Modules, NEW look \in LookType
  PROVE  FullFace(D, R, m, look) \in {Missing, 0, 1} /\ (m \in FullModules(D, R) => FullFace(D, R, m, look) \in {0, 1})
<1>1. m \in FullModules(D, R) => D[m] \in Contents
  BY FullAre
<1>2. QED
  BY <1>1, Interfaces DEF FullFace

\* Chains of re-exports end.
LEMMA Chains ==
  ASSUME NEW q \in Projects, NEW D \in Disks(q)
  PROVE  \E rank \in [Modules -> Modules] :
           \A m \in Modules : D[m] # Absent => \A i \in D[m].reexports : rank[i] < rank[m]
BY UpdateAssumption DEF UpdateBounds

LEMMA FaceByRank ==
  ASSUME NEW q \in Projects, NEW D \in Disks(q), NEW R \in SUBSET Modules, \A m \in R : D[m] # Absent,
         NEW rank \in [Modules -> Modules],
         \A m \in Modules : D[m] # Absent => \A i \in D[m].reexports : rank[i] < rank[m],
         NEW m \in Modules, NEW f \in LookType, NEW h \in LookType,
         \A i \in Modules : rank[i] < rank[m] => f[i] = h[i]
  PROVE  FullFace(D, R, m, f) = FullFace(D, R, m, h)
<1>1. m \in FullModules(D, R) => D[m] # Absent /\ D[m].reexports \subseteq Modules
  BY FullAre, OnDisk
<1>2. m \in FullModules(D, R) => \A i \in D[m].reexports : f[i] = h[i]
  BY <1>1
<1>3. D[m].reexports # {} => (CHOOSE i \in D[m].reexports : TRUE) \in D[m].reexports
  OBVIOUS
<1>4. QED
  BY <1>2, <1>3 DEF FullFace, Interface

LEMMA FullLooks ==
  ASSUME NEW q \in Projects, NEW D \in Disks(q), NEW R \in SUBSET Modules, \A m \in R : D[m] # Absent
  PROVE  /\ FullLook(D, R) \in LookType
         /\ \A m \in Modules : FullLook(D, R)[m] = FullFace(D, R, m, FullLook(D, R))
<1> DEFINE mods == FullModules(D, R)
           Is(f) == f = [m \in Modules |->
                           IF m \notin mods THEN Missing
                           ELSE IF D[m].reexports = {} THEN D[m].decl
                           ELSE LET i == CHOOSE i \in D[m].reexports : TRUE
                                IN  IF f[i] = Missing THEN 0 ELSE f[i]]
           face == CHOOSE f : Is(f)
<1>1. PICK rank \in [Modules -> Modules] :
        \A m \in Modules : D[m] # Absent => \A i \in D[m].reexports : rank[i] < rank[m]
  BY Chains
<1>2. \A m \in Modules : \A look \in LookType : FullFace(D, R, m, look) \in {Missing, 0, 1}
  BY FullFaceType
<1> DEFINE Good(k, f) == f \in LookType /\ \A m \in Modules : rank[m] <= k => f[m] = FullFace(D, R, m, f)
           P == {k \in 0 .. LastModule : \E f : Good(k, f)}
<1>3. 0 \in P
  <2>1. [m \in Modules |-> 0] \in LookType
    BY DEF LookType
  <2>2. \A m \in Modules : rank[m] \in Modules /\ ~(rank[m] <= 0)
    BY ModulesAre
  <2>3. Good(0, [m \in Modules |-> 0])
    BY <2>1, <2>2
  <2>4. 0 \in 0 .. LastModule
    BY ModulesAre
  <2> HIDE DEF Good
  <2>5. QED
    BY <2>3, <2>4
<1>4. ASSUME NEW k \in 1 .. LastModule, k - 1 \in P PROVE k \in P
  <2>1. PICK f : Good(k - 1, f)
    BY <1>4
  <2> DEFINE h == [m \in Modules |-> IF rank[m] = k THEN FullFace(D, R, m, f) ELSE f[m]]
  <2>2. h \in LookType
    BY <1>2, <2>1 DEF LookType
  <2>3. ASSUME NEW m \in Modules, rank[m] <= k PROVE h[m] = FullFace(D, R, m, h)
    <3>1. rank[m] \in Nat /\ k \in Nat /\ \A i \in Modules : rank[i] \in Nat
      BY ModulesAre
    <3>2. \A i \in Modules : rank[i] < rank[m] => h[i] = f[i]
      BY <2>3, <3>1
    <3>3. f \in LookType /\ (rank[m] # k => f[m] = FullFace(D, R, m, f))
      BY <2>1, <2>3, <3>1
    <3>4. h[m] = FullFace(D, R, m, f)
      BY <3>3
    <3> HIDE DEF h
    <3>5. FullFace(D, R, m, h) = FullFace(D, R, m, f)
      BY <1>1, <2>2, <3>2, <3>3, FaceByRank
    <3>6. QED
      BY <3>4, <3>5
  <2> HIDE DEF h
  <2>4. Good(k, h)
    BY <2>2, <2>3
  <2>5. k \in 0 .. LastModule
    BY ModulesAre
  <2> HIDE DEF Good
  <2>6. QED
    BY <2>4, <2>5
<1>5. LastModule \in P
  <2>1. \A k \in 1 .. LastModule : k - 1 \in P => k \in P
    BY <1>4
  <2> HIDE DEF P
  <2>2. LastModule \in Nat /\ LastModule \in 0 .. LastModule
    BY ModulesAre
  <2>3. \A k \in 0 .. LastModule : k \in P
    BY <1>3, <2>1, <2>2, Climbing
  <2>4. QED
    BY <2>2, <2>3
<1>6. PICK f : Good(LastModule, f)
  <2> HIDE DEF Good
  <2>1. QED
    BY <1>5
<1>7. f \in LookType /\ \A m \in Modules : f[m] = FullFace(D, R, m, f)
  BY <1>6, ModulesAre
<1>8. Is(f)
  <2>1. f = [m \in Modules |-> FullFace(D, R, m, f)]
    BY <1>7 DEF LookType
  <2>2. QED
    BY <2>1 DEF FullFace, Interface
<1>9. Is(face)
  BY <1>8, ZenonT(30)
<1>10. FullLook(D, R) = face
  BY DEF FullLook
<1> HIDE DEF face
<1>11. face = [m \in Modules |-> FullFace(D, R, m, face)]
  BY <1>9 DEF FullFace, Interface
<1>12. \A m \in Modules : FullFace(D, R, m, face) \in {Missing, 0, 1}
  <2> DEFINE Q == {k \in 0 .. LastModule : \A m \in Modules : rank[m] <= k => face[m] \in {Missing, 0, 1}}
  <2>1. \A m \in Modules : rank[m] \in Nat /\ rank[m] # 0 /\ rank[m] <= LastModule
    BY ModulesAre
  <2>2. 0 \in Q
    BY <2>1, ModulesAre
  <2>3. ASSUME NEW k \in 1 .. LastModule, k - 1 \in Q PROVE k \in Q
    <3>1. ASSUME NEW m \in Modules, rank[m] <= k PROVE face[m] \in {Missing, 0, 1}
      <4>1. face[m] = FullFace(D, R, m, face)
        BY <1>11
      <4>2. m \in mods => D[m] # Absent /\ D[m].decl \in {0, 1} /\ D[m].reexports \subseteq Modules
        BY FullAre, OnDisk
      <4>3. m \in mods => \A i \in D[m].reexports : rank[i] < rank[m]
        BY <1>1, <4>2
      <4>4. m \in mods => \A i \in D[m].reexports : face[i] \in {Missing, 0, 1}
        <5>1. \A i \in Modules : rank[i] < rank[m] => rank[i] <= k - 1
          BY <2>1, <3>1
        <5>2. QED
          BY <2>3, <4>2, <4>3, <5>1
      <4>5. D[m].reexports # {} => (CHOOSE i \in D[m].reexports : TRUE) \in D[m].reexports
        OBVIOUS
      <4>6. QED
        BY <4>1, <4>2, <4>4, <4>5 DEF FullFace, Interface
    <3>2. k \in 0 .. LastModule
      BY ModulesAre
    <3>3. QED
      BY <3>1, <3>2
  <2>4. \A k \in 1 .. LastModule : k - 1 \in Q => k \in Q
    BY <2>3
  <2>5. LastModule \in Nat /\ LastModule \in 0 .. LastModule
    BY ModulesAre
  <2> HIDE DEF Q
  <2>6. LastModule \in Q
    BY <2>2, <2>4, <2>5, Climbing
  <2>7. \A m \in Modules : face[m] \in {Missing, 0, 1}
    BY <2>1, <2>6 DEF Q
  <2>8. QED
    BY <1>11, <2>7
<1>13. QED
  BY <1>10, <1>11, <1>12 DEF LookType

LEMMA FirstGraph ==
  ASSUME FirstBuild
  PROVE  /\ project \in Projects /\ files \in Disks(project) /\ roots \in project.roots /\ roots \in SUBSET Modules
         /\ graph \in GraphType /\ InGraph(graph) = FullModules(files, roots)
         /\ \A m \in InGraph(graph) :
              /\ graph[m].path = m /\ graph[m].tree = files[m]
              /\ graph[m].deps = files[m].imports \cap InGraph(graph)
              /\ graph[m].iface = FullLook(files, roots)[m]
<1> DEFINE mods == FullModules(files, roots)
           full(m) == [path |-> m, tree |-> files[m], deps |-> files[m].imports \cap mods,
                       iface |-> FullLook(files, roots)[m]]
<1>1. /\ project \in Projects /\ files \in Disks(project) /\ roots \in project.roots
      /\ \A m \in roots : files[m] # Absent
      /\ graph = [m \in Modules |-> IF m \notin mods THEN NotLoaded ELSE full(m)]
  BY DEF FirstBuild
<1>2. roots \in SUBSET Modules
  BY <1>1, UpdateAssumption DEF UpdateBounds
<1>3. mods \subseteq Modules /\ \A m \in mods : files[m] \in Contents
  BY <1>1, <1>2, FullAre
<1>4. \A m \in mods : FullLook(files, roots)[m] \in {0, 1}
  BY <1>1, <1>2, <1>3, FullLooks, FullFaceType
<1> HIDE DEF mods
<1>5. \A m \in mods : full(m) \in Loaded /\ full(m).path = m
  BY <1>3, <1>4 DEF Loaded
<1>6. graph \in GraphType
  BY <1>1, <1>5 DEF GraphType
<1>7. \A m \in Modules : m \in mods <=> graph[m] # NotLoaded
  BY <1>1, <1>5, NotThere
<1>8. InGraph(graph) = mods
  BY <1>3, <1>7 DEF InGraph
<1>9. \A m \in mods : graph[m] = full(m)
  BY <1>1, <1>3
<1>10. \A m \in mods : /\ graph[m].path = m /\ graph[m].tree = files[m]
                       /\ graph[m].deps = files[m].imports \cap mods
                       /\ graph[m].iface = FullLook(files, roots)[m]
  <2> TAKE m \in mods
  <2>1. graph[m] = full(m)
    BY <1>9
  <2>2. /\ full(m).path = m /\ full(m).tree = files[m] /\ full(m).deps = files[m].imports \cap mods
        /\ full(m).iface = FullLook(files, roots)[m]
    OBVIOUS
  <2> HIDE DEF full
  <2>3. QED
    BY <2>1, <2>2
<1>11. QED
  BY <1>1, <1>2, <1>6, <1>8, <1>10 DEF mods

LEMMA FullErrorsType ==
  ASSUME NEW q \in Projects, NEW D \in Disks(q), NEW R \in SUBSET Modules, \A m \in R : D[m] # Absent
  PROVE  FullErrors(D, R) \in ErrorsType
<1>1. FullLook(D, R) \in LookType
  BY FullLooks
<1>2. \A m \in FullModules(D, R) : Complaints(D[m], FullLook(D, R)) \in SUBSET Modules
  BY <1>1, FullAre, Interfaces
<1>3. QED
  BY <1>2 DEF FullErrors, ErrorsType

LEMMA StartsTyped ==
  ASSUME UpdateInit, NEW T, Suits(T)
  PROVE  Typed(T)
<1>1. FirstBuild /\ pc = "idle"
  BY DEF UpdateInit
<1>2. /\ project \in Projects /\ files \in Disks(project) /\ roots \in project.roots /\ roots \in SUBSET Modules
      /\ graph \in GraphType /\ InGraph(graph) = FullModules(files, roots)
      /\ \A m \in InGraph(graph) : graph[m].path = m
  BY <1>1, FirstGraph
<1>3. InGraph(graph) \subseteq Modules
  BY <1>2, InGraphAre
<1>4. /\ \A m \in roots : files[m] # Absent
      /\ deps = [i \in Modules |-> {m \in InGraph(graph) : i \in files[m].imports}]
      /\ previousSources = InGraph(graph) /\ previousModules = InGraph(graph)
      /\ complaints = FullErrors(files, roots) /\ targetsWithErrors = Targets(complaints)
      /\ messages = [blocker |-> 0, errors |-> complaints]
      /\ blockingError = NoEntry /\ stale = <<>> /\ step = "none"
      /\ changedFiles = {} /\ queue = <<>> /\ visited = {} /\ origModules = {}
      /\ pending = <<>> /\ initialSet = {} /\ removedSet = {} /\ lastId = 0
  BY <1>1, <1>2 DEF FirstBuild
<1>5. deps \in DepsType
  BY <1>3, <1>4 DEF DepsType
<1>6. complaints \in ErrorsType /\ targetsWithErrors \subseteq Modules
  BY <1>2, <1>4, FullErrorsType DEF Targets
<1>7. <<>> \in Seq(T)
  BY EmptySeq
<1>8. Listed(T)
  BY <1>2, <1>3, <1>4, <1>7, SuitsAre DEF Listed
<1>9. messages.blocker = 0
  BY <1>4
<1>10. QED
  BY <1>1, <1>2, <1>3, <1>4, <1>5, <1>6, <1>8, <1>9 DEF Typed

(***************************************************************************)
(* What update() does, in general.                                         *)
(***************************************************************************)
\* The rest of update_module: whatever the rounds preserve is so after them.
LEMMA PropagatedIs ==
  ASSUME NEW m, NEW g, NEW e, NEW triggered, NEW remaining, NEW S,
         Propagated(m, g, e, triggered, remaining),
         FirstRound(Lookup(files, g), e, triggered, {m}, {}) \in S, \A r \in S : Round(deps', g, r) \in S
  PROVE  \E r \in S : /\ graph' = WithLook(g, r.look) /\ complaints' = r.errors
                      /\ pc' = IF IsSettled(r) THEN pc ELSE "endless"
<1>1. PICK r \in S : Propagate(deps', g, FirstRound(Lookup(files, g), e, triggered, {m}, {})) =
                       [graph |-> WithLook(g, r.look), errors |-> r.errors, settled |-> IsSettled(r)]
  BY Propagating
<1> DEFINE p == Propagate(deps', g, FirstRound(Lookup(files, g), e, triggered, {m}, {}))
<1>2. graph' = p.graph /\ complaints' = p.errors /\ pc' = IF p.settled THEN pc ELSE "endless"
  BY DEF Propagated
<1> HIDE DEF p
<1>3. p = [graph |-> WithLook(g, r.look), errors |-> r.errors, settled |-> IsSettled(r)]
  BY <1>1 DEF p
<1>4. QED
  BY <1>2, <1>3

LEMMA PropagatedTyped ==
  ASSUME NEW m \in Modules, NEW g \in GraphType, NEW e \in ErrorsType, NEW triggered \in SUBSET Modules,
         NEW remaining, deps' \in DepsType, Propagated(m, g, e, triggered, remaining)
  PROVE  /\ graph' \in GraphType /\ SameModules(graph', g) /\ complaints' \in ErrorsType
         /\ pc' \in {pc, "endless"}
<1>1. FirstRound(Lookup(files, g), e, triggered, {m}, {}) \in RoundType(g)
  BY LooksAre DEF RoundType, ErrorsType, FirstRound
<1>2. \A r \in RoundType(g) : Round(deps', g, r) \in RoundType(g)
  BY OneRound
<1>3. PICK r \in RoundType(g) : /\ graph' = WithLook(g, r.look) /\ complaints' = r.errors
                                /\ pc' = IF IsSettled(r) THEN pc ELSE "endless"
  BY <1>1, <1>2, PropagatedIs
<1>4. r.look \in Faces(g) /\ r.errors \in ErrorsType
  BY DEF RoundType, ErrorsType
<1>5. WithLook(g, r.look) \in GraphType /\ SameModules(WithLook(g, r.look), g)
  BY <1>4, Relooked
<1>6. QED
  BY <1>3, <1>4, <1>5

\* FinishUpdate does so for what is in the graph.
LEMMA FinishedTyped ==
  ASSUME graph \in GraphType, deps \in DepsType, complaints \in ErrorsType, lastId \in Modules \cup {0},
         targetsWithErrors \subseteq Modules, FinishUpdate
  PROVE  /\ graph' \in GraphType /\ SameModules(graph', graph) /\ complaints' \in ErrorsType
         /\ targetsWithErrors' \subseteq Modules /\ pc' \in {"daemon", "endless"}
         /\ messages' = [blocker |-> 0, errors |-> complaints']
<1> DEFINE a == FirstRound(Lookup(files, graph), complaints, {}, {lastId}, targetsWithErrors)
           p == Propagate(deps, graph, a)
<1>1. a \in RoundType(graph)
  BY LooksAre DEF RoundType, ErrorsType, FirstRound
<1>2. \A r \in RoundType(graph) : Round(deps, graph, r) \in RoundType(graph)
  BY OneRound
<1>3. PICK r \in RoundType(graph) : p = [graph |-> WithLook(graph, r.look), errors |-> r.errors,
                                         settled |-> IsSettled(r)]
  BY <1>1, <1>2, Propagating
<1>4. /\ graph' = p.graph /\ complaints' = p.errors /\ targetsWithErrors' = Targets(p.errors)
      /\ messages' = [blocker |-> 0, errors |-> p.errors]
      /\ pc' = IF p.settled THEN "daemon" ELSE "endless"
  BY DEF FinishUpdate
<1> HIDE DEF p
<1>5. graph' = WithLook(graph, r.look) /\ complaints' = r.errors /\ targetsWithErrors' = Targets(r.errors)
  BY <1>3, <1>4
<1>6. r.look \in Faces(graph) /\ r.errors \in ErrorsType
  BY DEF RoundType, ErrorsType
<1>7. WithLook(graph, r.look) \in GraphType /\ SameModules(WithLook(graph, r.look), graph)
  BY <1>6, Relooked
<1>8. QED
  BY <1>4, <1>5, <1>6, <1>7 DEF Targets

\* load_graph: what m brings in, and is not in the graph yet.
LEMMA NewAre ==
  ASSUME NEW m \in Modules, NEW p \in Modules, graph \in GraphType,
         project \in Projects, files \in Disks(project), files[p] # Absent
  PROVE  /\ m \in NewModules(m, p) /\ NewModules(m, p) \subseteq Modules
         /\ NewModules(m, p) \cap InGraph(graph) \subseteq {m}
         /\ \A n \in NewModules(m, p) : Sources(m, p)[n] # Absent /\ Sources(m, p)[n] \in Contents
         /\ \A n \in NewModules(m, p) : Sources(m, p)[n].bad # "parse" =>
              \A i \in Sources(m, p)[n].imports : files[i] # Absent => i \in InGraph(graph) \cup NewModules(m, p)
         /\ \A M \in SUBSET Modules :
              m \in M /\ (\A n \in M : Sources(m, p)[n] # Absent =>
                            \A i \in Sources(m, p)[n].imports : files[i] # Absent => i \in M)
                => NewModules(m, p) \subseteq M
<1> DEFINE candidate == {i \in Modules \ InGraph(graph) : files[i] # Absent} \ {m}
           Edge(n) == IF Sources(m, p)[n] = Absent \/ Sources(m, p)[n].bad = "parse" THEN {}
                      ELSE Sources(m, p)[n].imports \cap candidate
           E == [n \in Modules |-> Edge(n)]
           new == NewModules(m, p)
<1>1. new = Reach(E, {m}) /\ DOMAIN E = Modules /\ \A n \in Modules : E[n] = Edge(n)
  BY DEF NewModules
<1>2. \A n \in Modules : Edge(n) \subseteq candidate
  OBVIOUS
<1>3. /\ files \in [Modules -> Contents \cup {Absent}]
      /\ \A n \in Modules : files[n] # Absent => files[n].imports \subseteq Modules
  BY OnDisk
<1>13. \A n \in Modules : Sources(m, p)[n] = IF n = m THEN files[p] ELSE files[n]
  BY <1>3 DEF Sources
<1>4. \A n \in Modules : /\ Sources(m, p)[n] \in Contents \cup {Absent}
                         /\ Sources(m, p)[n] # Absent => Sources(m, p)[n].imports \subseteq Modules
  BY <1>3, <1>13
<1> HIDE DEF E, new
<1>5. /\ {m} \subseteq new /\ new \subseteq Modules
      /\ \A n \in new : \A i \in E[n] \cap Modules : i \in new
      /\ \A M \in SUBSET Modules : {m} \subseteq M /\ ClosedUnder(E, M) => new \subseteq M
  <2>1. {m} \in SUBSET DOMAIN E
    BY <1>1
  <2>2. QED
    BY <1>1, <2>1, Reaching
<1>6. new \subseteq {m} \cup candidate
  <2> DEFINE M == {m} \cup candidate
  <2>1. M \in SUBSET Modules /\ {m} \subseteq M
    OBVIOUS
  <2>2. ClosedUnder(E, M)
    BY <1>1, <1>2, <2>1 DEF ClosedUnder
  <2>3. QED
    BY <1>5, <2>1, <2>2
<1>7. \A n \in new : Sources(m, p)[n] # Absent
  BY <1>6, <1>13
<1>8. ASSUME NEW n \in new, Sources(m, p)[n].bad # "parse", NEW i \in Sources(m, p)[n].imports, files[i] # Absent
      PROVE  i \in InGraph(graph) \cup new
  <2>1. i \in Modules /\ n \in Modules
    BY <1>4, <1>5, <1>7, <1>8
  <2>2. CASE i \in candidate
    <3>1. i \in E[n]
      BY <1>1, <1>7, <1>8, <2>1, <2>2
    <3>2. QED
      BY <1>5, <2>1, <3>1
  <2>3. CASE i \notin candidate
    BY <1>5, <1>8, <2>1, <2>3
  <2>4. QED
    BY <2>2, <2>3
<1>9. ASSUME NEW M \in SUBSET Modules, m \in M,
             \A n \in M : Sources(m, p)[n] # Absent =>
                            \A i \in Sources(m, p)[n].imports : files[i] # Absent => i \in M
      PROVE  new \subseteq M
  <2>1. ClosedUnder(E, M)
    BY <1>1, <1>9 DEF ClosedUnder
  <2>2. QED
    BY <1>5, <1>9, <2>1
<1>10. new \cap InGraph(graph) \subseteq {m}
  BY <1>6
<1>11. \A n \in new : Sources(m, p)[n] \in Contents
  BY <1>4, <1>5, <1>7
<1>12. QED
  BY <1>5, <1>7, <1>8, <1>9, <1>10, <1>11 DEF new

LEMMA LeafIs ==
  ASSUME NEW m, NEW p, NewModules(m, p) \subseteq Modules, NewModules(m, p) # {}
  PROVE  Leaf(m, p) \in NewModules(m, p)
<1> DEFINE new == NewModules(m, p)
           leaves == {n \in new : Sources(m, p)[n].imports \cap (new \ {n}) = {}}
           S == IF leaves = {} THEN new ELSE leaves
<1>1. S \in SUBSET new /\ S # {}
  OBVIOUS
<1>2. S \in SUBSET Nat
  BY <1>1, ModulesAre
<1>3. Leaf(m, p) = CHOOSE x \in S : \A y \in S : x <= y
  BY DEF Leaf, Min
<1> HIDE DEF S
<1>4. \E x \in S : \A y \in S : x <= y
  BY <1>1, <1>2, Smallest
<1>5. (CHOOSE x \in S : \A y \in S : x <= y) \in S
  BY <1>4
<1>6. QED
  BY <1>1, <1>3, <1>5

LEMMA LoadedAre ==
  ASSUME NEW m \in Modules, NEW p \in Modules, graph \in GraphType, NewModules(m, p) \subseteq Modules,
         NEW x \in NewModules(m, p), x = Leaf(m, p), Sources(m, p)[x] \in Contents
  PROVE  /\ LoadedGraph(m, p) \in GraphType
         /\ InGraph(LoadedGraph(m, p)) = InGraph(graph) \cup {x}
         /\ LoadedGraph(m, p)[x] =
              [path |-> IF x = m THEN p ELSE x, tree |-> Sources(m, p)[x],
               deps |-> Sources(m, p)[x].imports \cap ((InGraph(graph) \ {m}) \cup NewModules(m, p)), iface |-> 0]
         /\ \A n \in InGraph(graph) \ {x} :
              /\ LoadedGraph(m, p)[n].path = graph[n].path
              /\ LoadedGraph(m, p)[n].tree = graph[n].tree
              /\ LoadedGraph(m, p)[n].iface = graph[n].iface
              /\ graph[n].deps \subseteq LoadedGraph(m, p)[n].deps
              /\ LoadedGraph(m, p)[n].deps \subseteq graph[n].deps \cup graph[n].tree.imports
<1> DEFINE there == (InGraph(graph) \ {m}) \cup NewModules(m, p)
           With(n)  == [graph[n] EXCEPT !.deps = @ \cup (graph[n].tree.imports \cap there)]
           old   == [n \in Modules |-> IF n = m \/ graph[n] = NotLoaded THEN graph[n] ELSE With(n)]
           v     == Sources(m, p)[x]
           fresh == [path |-> IF x = m THEN p ELSE x, tree |-> v, deps |-> v.imports \cap there, iface |-> 0]
           g     == LoadedGraph(m, p)
<1>1. g = [old EXCEPT ![x] = fresh]
  BY DEF LoadedGraph
<1>2. InGraph(graph) \subseteq Modules /\ x \in Modules
  BY InGraphAre
<1>3. there \subseteq Modules
  BY <1>2
<1> HIDE DEF there
<1>4. fresh \in Loaded
  <2>1. v.imports \cap there \in SUBSET Modules /\ (IF x = m THEN p ELSE x) \in Modules
    BY <1>2, <1>3
  <2> HIDE DEF v
  <2>2. v \in Contents
    BY DEF v
  <2>3. QED
    BY <2>1, <2>2 DEF Loaded
<1>5. ASSUME NEW n \in InGraph(graph)
      PROVE  /\ With(n) \in Loaded /\ With(n).path = graph[n].path /\ With(n).tree = graph[n].tree
             /\ With(n).iface = graph[n].iface /\ With(n).deps = graph[n].deps \cup (graph[n].tree.imports \cap there)
  <2>1. graph[n] \in Loaded
    BY <1>2, InGraphAre
  <2>2. graph[n].deps \cup (graph[n].tree.imports \cap there) \in SUBSET Modules
    BY <1>3, InGraphAre
  <2> DEFINE d == graph[n].deps \cup (graph[n].tree.imports \cap there)
  <2>3. With(n) = [graph[n] EXCEPT !.deps = d]
    OBVIOUS
  <2> HIDE DEF d, With
  <2>4. d \in SUBSET Modules
    BY <2>2 DEF d
  <2>5. [graph[n] EXCEPT !.deps = d] = [path |-> graph[n].path, tree |-> graph[n].tree, deps |-> d, iface |-> graph[n].iface]
    BY <2>1 DEF Loaded
  <2>6. With(n) = [path |-> graph[n].path, tree |-> graph[n].tree, deps |-> d, iface |-> graph[n].iface]
    BY <2>3, <2>5
  <2>7. With(n) \in Loaded
    BY <2>1, <2>4, <2>6 DEF Loaded
  <2>8. QED
    BY <2>6, <2>7 DEF d
<1>6. \A n \in Modules : old[n] = IF n = m \/ graph[n] = NotLoaded THEN graph[n] ELSE With(n)
  OBVIOUS
<1>7. DOMAIN old = Modules
  OBVIOUS
<1> HIDE DEF With, fresh, old, g
<1>8. g[x] = fresh /\ (\A n \in Modules \ {x} : g[n] = old[n]) /\ g = [n \in Modules |-> g[n]]
  BY <1>1, <1>2, <1>7 DEF old
<1>9. ASSUME NEW n \in InGraph(graph) \ {x}
      PROVE  /\ g[n] \in Loaded /\ g[n].path = graph[n].path /\ g[n].tree = graph[n].tree /\ g[n].iface = graph[n].iface
             /\ graph[n].deps \subseteq g[n].deps /\ g[n].deps \subseteq graph[n].deps \cup graph[n].tree.imports
  <2>1. g[n] = graph[n] \/ g[n] = With(n)
    BY <1>2, <1>6, <1>8
  <2>2. graph[n] \in Loaded
    BY <1>2, InGraphAre
  <2>3. QED
    BY <1>5, <2>1, <2>2
<1>10. ASSUME NEW n \in Modules, n \notin InGraph(graph), n # x PROVE g[n] = NotLoaded
  BY <1>6, <1>8, <1>10, InGraphAre
<1>11. \A n \in Modules : g[n] \in Loaded \cup {NotLoaded}
  BY <1>4, <1>8, <1>9, <1>10
<1>12. g \in GraphType
  BY <1>8, <1>11 DEF GraphType
<1>13. \A n \in Modules : g[n] # NotLoaded <=> n \in InGraph(graph) \cup {x}
  BY <1>4, <1>8, <1>9, <1>10, NotThere
<1>14. InGraph(g) = InGraph(graph) \cup {x}
  BY <1>2, <1>13 DEF InGraph
<1>15. QED
  BY <1>8, <1>9, <1>12, <1>14 DEF g, fresh, there

LEMMA UpdateStarted ==
  ASSUME NEW T, Suits(T), stale \in Seq(T), blockingError \in T \cup {NoEntry},
         NEW changed \in Seq(T), NEW removed \in Seq(T), StartUpdate(changed, removed)
  PROVE  /\ UNCHANGED <<graph, deps, complaints, targetsWithErrors, previousModules, messages, stale>>
         /\ Ids(changed) = {} /\ Ids(removed) = {} =>
              pc' = "daemon" /\ UNCHANGED <<blockingError, pending, initialSet, removedSet, blocking, lastId>>
         /\ ~(Ids(changed) = {} /\ Ids(removed) = {}) =>
              /\ pc' = "update" /\ pending' \in Seq(T)
              /\ Ids(pending') = Ids(changed) \cup Ids(removed) \cup Ids(stale)
                                   \cup (IF blockingError = NoEntry THEN {} ELSE {blockingError.id})
              /\ initialSet' = Ids(changed) \cup Ids(removed) \cup Ids(stale)
              /\ removedSet' = Ids(removed) /\ blocking' = blockingError.id
              /\ blockingError' = NoEntry /\ lastId' = 0
<1>1. T \in SUBSET EntryType
  BY SuitsAre
<1>2. (Ids(changed) = {} <=> changed = <<>>) /\ (Ids(removed) = {} <=> removed = <<>>)
  BY <1>1, ListIds
<1>3. CASE changed = <<>> /\ removed = <<>>
  BY <1>2, <1>3 DEF StartUpdate, keptVars, localVars
<1>4. CASE ~(changed = <<>> /\ removed = <<>>)
  <2> DEFINE all == Dedupe(changed \o removed \o stale)
  <2>1. changed \o removed \in Seq(T) /\ Ids(changed \o removed) = Ids(changed) \cup Ids(removed)
    BY <1>1, Joined
  <2>2. /\ (changed \o removed) \o stale \in Seq(T)
        /\ Ids((changed \o removed) \o stale) = Ids(changed) \cup Ids(removed) \cup Ids(stale)
    <3> HIDE DEF all
    <3> DEFINE both == changed \o removed
    <3>1. both \in Seq(T) /\ Ids(both) = Ids(changed) \cup Ids(removed)
      BY <2>1
    <3> HIDE DEF both
    <3>2. both \o stale \in Seq(T) /\ Ids(both \o stale) = Ids(both) \cup Ids(stale)
      BY <1>1, <3>1, Joined
    <3>3. QED
      BY <3>1, <3>2 DEF both
  <2>3. all \in Seq(T) /\ Ids(all) = Ids(changed) \cup Ids(removed) \cup Ids(stale)
    BY <1>1, <2>2, Deduped
  <2>4. /\ pc' = "update" /\ pending' = IF blockingError = NoEntry THEN all ELSE Dedupe(<<blockingError>> \o all)
        /\ initialSet' = Ids(all) /\ removedSet' = Ids(removed) /\ blocking' = blockingError.id
        /\ blockingError' = NoEntry /\ lastId' = 0
        /\ UNCHANGED <<graph, deps, complaints, targetsWithErrors, previousModules, messages, stale>>
    BY <1>4 DEF StartUpdate
  <2> HIDE DEF all
  <2>5. CASE blockingError = NoEntry
    BY <1>2, <1>4, <2>3, <2>4, <2>5
  <2>6. CASE blockingError # NoEntry
    <3>1. blockingError \in T
      BY <2>6
    <3>2. <<blockingError>> \in Seq(T) /\ Ids(<<blockingError>>) = {blockingError.id}
      BY <3>1 DEF Ids
    <3> DEFINE one == <<blockingError>>
    <3> HIDE DEF one
    <3>3. one \in Seq(T) /\ Ids(one) = {blockingError.id}
      BY <3>2 DEF one
    <3>4. one \o all \in Seq(T) /\ Ids(one \o all) = {blockingError.id} \cup Ids(all)
      BY <1>1, <2>3, <3>3, Joined
    <3>5. Dedupe(one \o all) \in Seq(T) /\ Ids(Dedupe(one \o all)) = Ids(one \o all)
      BY <1>1, <3>4, Deduped
    <3>6. pending' = Dedupe(one \o all)
      BY <2>4, <2>6 DEF one
    <3>7. Ids(pending') = {blockingError.id} \cup Ids(all) /\ pending' \in Seq(T)
      BY <3>4, <3>5, <3>6
    <3>8. QED
      BY <1>2, <1>4, <2>3, <2>4, <2>6, <3>7
  <2>7. QED
    BY <2>5, <2>6
<1>5. QED
  BY <1>3, <1>4

\* What remains to be done after a module.
LEMMA RestIs ==
  ASSUME NEW T, Suits(T), pending \in Seq(T), pending # <<>>, NEW remaining \in Seq(T), NEW m
  PROVE  /\ Dedupe(remaining \o Without(Tail(pending), m)) \in Seq(T)
         /\ Ids(Dedupe(remaining \o Without(Tail(pending), m))) = Ids(remaining) \cup (Ids(Tail(pending)) \ {m})
<1>1. T \in SUBSET EntryType
  BY SuitsAre
<1>2. Tail(pending) \in Seq(T)
  BY <1>1, ListIds
<1> DEFINE w == Without(Tail(pending), m)
<1>3. w \in Seq(T) /\ Ids(w) = Ids(Tail(pending)) \ {m}
  BY <1>1, <1>2, TakenOut
<1> HIDE DEF w
<1>4. remaining \o w \in Seq(T) /\ Ids(remaining \o w) = Ids(remaining) \cup Ids(w)
  BY <1>1, <1>3, Joined
<1>5. Dedupe(remaining \o w) \in Seq(T) /\ Ids(Dedupe(remaining \o w)) = Ids(remaining \o w)
  BY <1>1, <1>4, Deduped
<1>6. QED
  BY <1>3, <1>4, <1>5 DEF w

\* The module that is next.
LEMMA NextIs ==
  ASSUME NEW T, Suits(T), pending \in Seq(T), NEW m, NEW p, IsNext(m, p)
  PROVE  /\ pc = "update" /\ pending # <<>> /\ Entry(m, p) \in T /\ m \in Modules /\ p \in Modules
         /\ Tail(pending) \in Seq(T) /\ Ids(pending) = {m} \cup Ids(Tail(pending))
<1>1. T \in SUBSET EntryType
  BY SuitsAre
<1>2. pc = "update" /\ pending # <<>> /\ Head(pending) = Entry(m, p)
  BY DEF IsNext
<1>3. Head(pending) \in T /\ Tail(pending) \in Seq(T) /\ Ids(pending) = {Head(pending).id} \cup Ids(Tail(pending))
  BY <1>1, <1>2, ListIds
<1>4. Entry(m, p).id = m /\ Entry(m, p).path = p
  BY DEF Entry
<1>5. m \in Modules /\ p \in Modules
  BY <1>1, <1>2, <1>3, <1>4, NotThere
<1>6. QED
  BY <1>2, <1>3, <1>4, <1>5

Put(g, x, l) == [g EXCEPT ![x] = l]

LEMMA Dropped ==
  ASSUME NEW g \in GraphType, NEW x \in Modules, NEW h, h = Put(g, x, NotLoaded)
  PROVE  h \in GraphType /\ InGraph(h) = InGraph(g) \ {x} /\ \A n \in InGraph(g) \ {x} : h[n] = g[n]
BY InGraphAre DEF GraphType, InGraph, Put

LEMMA PutBack ==
  ASSUME NEW g \in GraphType, NEW x \in Modules, NEW l \in Loaded, NEW h, h = Put(g, x, l)
  PROVE  /\ h \in GraphType /\ InGraph(h) = InGraph(g) \cup {x} /\ h[x] = l
         /\ \A n \in InGraph(g) \ {x} : h[n] = g[n]
BY InGraphAre, NotThere DEF GraphType, InGraph, Put

LEMMA SkipTyped ==
  ASSUME NEW T, Suits(T), Typed(T), NEW m, NEW p, SkipBlocker(m, p)
  PROVE  Typed(T)'
<1>1. pc = "update" /\ m \in Modules /\ Tail(pending) \in Seq(T)
  BY NextIs DEF SkipBlocker, Typed, Listed
<1>2. /\ pending' = Tail(pending) /\ lastId' = m
      /\ UNCHANGED <<pc, diskVars, serverVars, keptVars, initialSet, removedSet, blocking>>
  BY DEF SkipBlocker
<1>3. UNCHANGED <<pc, project, files, roots, step, changedFiles, queue, visited, origModules, previousSources,
                  graph, deps, complaints, targetsWithErrors, previousModules, messages, blockingError, stale,
                  initialSet, removedSet>>
  BY <1>2 DEF diskVars, serverVars, keptVars
<1>4. Listed(T)'
  BY <1>1, <1>2, <1>3 DEF Typed, Listed
<1>5. QED
  BY <1>1, <1>2, <1>3, <1>4 DEF Typed

LEMMA FinishTyped ==
  ASSUME NEW T, Suits(T), Typed(T), FinishUpdate
  PROVE  Typed(T)'
<1>1. /\ graph' \in GraphType /\ SameModules(graph', graph) /\ complaints' \in ErrorsType
      /\ targetsWithErrors' \subseteq Modules /\ pc' \in {"daemon", "endless"}
      /\ messages' = [blocker |-> 0, errors |-> complaints']
  BY FinishedTyped DEF Typed
<1>2. /\ deps' = deps
      /\ UNCHANGED <<diskVars, serverVars, previousModules, blockingError, stale, localVars>>
  BY DEF FinishUpdate
<1>3. UNCHANGED <<project, files, roots, step, changedFiles, queue, visited, origModules, previousSources,
                  deps, previousModules, blockingError, stale, pending, initialSet, removedSet, lastId>>
  BY <1>2 DEF diskVars, serverVars, localVars
<1>4. \A m \in InGraph(graph') : Entry(m, graph'[m].path) \in T
  BY <1>1 DEF SameModules, Typed, Listed
<1>5. Listed(T)'
  BY <1>3, <1>4 DEF Typed, Listed
<1>6. messages'.blocker = 0
  BY <1>1
<1>7. QED
  BY <1>1, <1>3, <1>5, <1>6 DEF Typed

LEMMA NoErrorsType == NoErrors \in ErrorsType
BY DEF NoErrors, ErrorsType

LEMMA DeleteTyped ==
  ASSUME NEW T, Suits(T), Typed(T), NEW m, NEW p, DeleteModule(m, p)
  PROVE  Typed(T)'
<1>12. PICK g : g = Put(graph, m, NotLoaded)
  OBVIOUS
<1>1. pc = "update" /\ pending # <<>> /\ m \in Modules
  BY NextIs DEF DeleteModule, Typed, Listed
<1>2. deps' = deps /\ Propagated(m, g, NoErrors, {m}, <<>>) /\ UNCHANGED <<diskVars, serverVars>>
  BY <1>12 DEF DeleteModule, Propagated, Put
<1>3. g \in GraphType /\ InGraph(g) = InGraph(graph) \ {m} /\ \A n \in InGraph(g) : g[n] = graph[n]
  BY <1>1, <1>12, Dropped DEF Typed
<1>4. graph' \in GraphType /\ SameModules(graph', g) /\ complaints' \in ErrorsType /\ pc' \in {pc, "endless"}
  BY <1>1, <1>2, <1>3, PropagatedTyped, NoErrorsType DEF Typed
<1>5. /\ targetsWithErrors' = targetsWithErrors \cup Targets(complaints') /\ previousModules' = InGraph(graph')
      /\ pending' = Dedupe(<<>> \o Without(Tail(pending), m)) /\ lastId' = m
      /\ UNCHANGED <<messages, blockingError, stale, initialSet, removedSet, blocking>>
  BY <1>2, Zenon DEF Propagated
<1>6. pending' \in Seq(T)
  BY <1>1, <1>5, RestIs, EmptySeq DEF Typed, Listed
<1>7. UNCHANGED <<project, files, roots, step, changedFiles, queue, visited, origModules, previousSources>>
  BY <1>2 DEF diskVars, serverVars
<1>8. \A n \in InGraph(graph') : Entry(n, graph'[n].path) \in T
  BY <1>3, <1>4 DEF SameModules, Typed, Listed
<1>9. Listed(T)'
  BY <1>5, <1>6, <1>7, <1>8 DEF Typed, Listed
<1>10. InGraph(graph') \subseteq Modules /\ Targets(complaints') \subseteq Modules
  BY <1>4, InGraphAre DEF Targets
<1>11. QED
  BY <1>1, <1>2, <1>4, <1>5, <1>7, <1>9, <1>10 DEF Typed

LEMMA CanLoadIs ==
  ASSUME NEW T, Suits(T), Typed(T), NEW m, NEW p, CanLoad(m, p)
  PROVE  /\ pc = "update" /\ pending # <<>> /\ m \in Modules /\ p \in Modules /\ Entry(m, p) \in T
         /\ files[p] # Absent /\ m \notin removedSet
         /\ Ids(pending) = {m} \cup Ids(Tail(pending)) /\ Tail(pending) \in Seq(T)
BY NextIs DEF CanLoad, Typed, Listed

\* With files of their own, modules are known by their names.
LEMMA OwnPaths ==
  ASSUME Typed(OwnFiles)
  PROVE  /\ \A n \in InGraph(graph) : n \in Modules /\ graph[n].path = n
         /\ \A n \in Modules : PathOf(graph, n) = n
<1>1. ASSUME NEW n \in InGraph(graph) PROVE n \in Modules /\ graph[n].path = n
  <2>1. Entry(n, graph[n].path) \in OwnFiles /\ n \in Modules
    BY InGraphAre DEF Typed, Listed
  <2>2. PICK k \in Modules : Entry(n, graph[n].path) = Entry(k, k)
    BY <2>1 DEF OwnFiles
  <2>3. Entry(n, graph[n].path).id = n /\ Entry(n, graph[n].path).path = graph[n].path
    BY DEF Entry
  <2>4. Entry(k, k).id = k /\ Entry(k, k).path = k
    BY DEF Entry
  <2>5. QED
    BY <2>1, <2>2, <2>3, <2>4
<1>2. \A n \in Modules : n \notin InGraph(graph) => graph[n] = NotLoaded
  BY InGraphAre DEF Typed
<1>3. QED
  BY <1>1, <1>2 DEF PathOf

\* Without syntax errors and with every module in a file of its own all can be loaded.
LEMMA AllLoadable ==
  ASSUME NoSyntaxErrors, Typed(OwnFiles), NEW m, NEW p, CanLoad(m, p)
  PROVE  p = m /\ Unloadable(m, p) = {}
<1>1. Suits(OwnFiles)
  BY DEF Suits
<1>2. m \in Modules /\ p \in Modules /\ Entry(m, p) \in OwnFiles /\ files[p] # Absent
  BY <1>1, CanLoadIs
<1>3. p = m
  BY <1>2 DEF OwnFiles, Entry
<1>4. /\ NewModules(m, p) \subseteq Modules /\ NewModules(m, p) \cap InGraph(graph) \subseteq {m}
      /\ \A n \in NewModules(m, p) : Sources(m, p)[n] # Absent
  BY <1>2, NewAre DEF Typed
<1>5. \A n \in InGraph(graph) : n \in Modules /\ graph[n].path = n
  BY OwnPaths
<1>6. ASSUME NEW n \in NewModules(m, p) PROVE Sources(m, p)[n].bad # "parse"
  <2>1. files \in [Modules -> Contents \cup {Absent}]
    BY OnDisk DEF Typed
  <2>2. n \in Modules /\ Sources(m, p)[n] = files[n] /\ files[n] # Absent
    BY <1>3, <1>4, <2>1 DEF Sources
  <2>3. files[n] \in project.versions[n]
    BY <2>2, OnDisk DEF Typed
  <2>4. QED
    BY <2>2, <2>3 DEF NoSyntaxErrors
<1>7. \A n \in NewModules(m, p) : n # m => n \notin {p} \cup {graph[i].path : i \in InGraph(graph) \ {m}}
  BY <1>3, <1>4, <1>5
<1>8. QED
  BY <1>3, <1>6, <1>7 DEF Unloadable

LEMMA BlockedTyped ==
  ASSUME NEW T, Suits(T), Typed(T), NEW x \in Modules, NEW p, NEW remaining \in Seq(T),
         pending # <<>>, Entry(x, p) \in T, Blocked(x, p, remaining),
         UNCHANGED <<diskVars, serverVars>>,
         graph' \in GraphType, \A n \in InGraph(graph') : Entry(n, graph'[n].path) \in T
  PROVE  Typed(T)'
<1>1. /\ blockingError' = Entry(x, p)
      /\ stale' = Dedupe(remaining \o Without(Tail(pending), x))
      /\ messages' = [blocker |-> x, errors |-> NoErrors] /\ complaints' = NoErrors
      /\ previousModules' = InGraph(graph') /\ pending' = <<>> /\ pc' = "daemon"
      /\ UNCHANGED <<deps, targetsWithErrors, initialSet, removedSet, blocking, lastId>>
  BY DEF Blocked
<1>2. stale' \in Seq(T) /\ <<>> \in Seq(T)
  BY <1>1, RestIs, EmptySeq DEF Typed, Listed
<1>3. UNCHANGED <<project, files, roots, step, changedFiles, queue, visited, origModules, previousSources>>
  BY DEF diskVars, serverVars
<1>4. Listed(T)'
  BY <1>1, <1>2, <1>3 DEF Typed, Listed
<1>5. InGraph(graph') \subseteq Modules /\ messages'.blocker = x
  BY <1>1, InGraphAre
<1>6. QED
  BY <1>1, <1>3, <1>4, <1>5, NoErrorsType DEF Typed

LEMMA LoadFailsTyped ==
  ASSUME NEW T, Suits(T), Typed(T), NEW m, NEW p, LoadFails(m, p)
  PROVE  Typed(T)'
<1>1. CanLoad(m, p) /\ graph' = graph /\ UNCHANGED <<diskVars, serverVars>>
  BY DEF LoadFails
<1>2. PICK b \in Unloadable(m, p) : Blocked(b, p, <<>>)
  BY DEF LoadFails
<1>3. pending # <<>> /\ m \in Modules /\ p \in Modules /\ files[p] # Absent
  BY <1>1, CanLoadIs
<1>4. T = EntryType
  <2> SUFFICES ASSUME T = OwnFiles, NoSyntaxErrors
               PROVE  FALSE
    BY DEF Suits
  <2>1. Unloadable(m, p) = {}
    BY <1>1, AllLoadable
  <2>2. QED
    BY <1>2, <2>1
<1>5. b \in Modules
  BY <1>2, <1>3, NewAre DEF Unloadable, Typed
<1>6. Entry(b, p) \in T
  BY <1>3, <1>4, <1>5 DEF Entry, EntryType
<1>7. <<>> \in Seq(T)
  BY EmptySeq
<1>8. graph' \in GraphType /\ \A n \in InGraph(graph') : Entry(n, graph'[n].path) \in T
  BY <1>1 DEF Typed, Listed
<1>9. QED
  BY <1>1, <1>2, <1>3, <1>5, <1>6, <1>7, <1>8, BlockedTyped

\* The module chosen, and the graph with it.
LoadedIs(T, m, p, x, g) ==
  /\ NewModules(m, p) \in SUBSET Modules /\ m \in NewModules(m, p)
  /\ NewModules(m, p) \cap InGraph(graph) \subseteq {m}
  /\ x \in NewModules(m, p) /\ Sources(m, p)[x] \in Contents
  /\ g \in GraphType /\ InGraph(g) = InGraph(graph) \cup {x}
  /\ g[x] = [path |-> IF x = m THEN p ELSE x, tree |-> Sources(m, p)[x],
             deps |-> Sources(m, p)[x].imports \cap ((InGraph(graph) \ {m}) \cup NewModules(m, p)),
             iface |-> 0]
  /\ \A n \in InGraph(graph) \ {x} :
       /\ g[n].path = graph[n].path /\ g[n].tree = graph[n].tree /\ g[n].iface = graph[n].iface
       /\ graph[n].deps \subseteq g[n].deps /\ g[n].deps \subseteq graph[n].deps \cup graph[n].tree.imports
  /\ \A n \in InGraph(g) : Entry(n, g[n].path) \in T
  /\ Entry(x, IF x = m THEN p ELSE x) \in T

LEMMA ChosenIs ==
  ASSUME NEW T, Suits(T), Typed(T), NEW m, NEW p, CanLoad(m, p), NEW x, NEW g,
         x = Leaf(m, p), g = LoadedGraph(m, p)
  PROVE  LoadedIs(T, m, p, x, g)
<1>1. m \in Modules /\ p \in Modules /\ Entry(m, p) \in T /\ files[p] # Absent
  BY CanLoadIs
<1>2. /\ m \in NewModules(m, p) /\ NewModules(m, p) \in SUBSET Modules
      /\ NewModules(m, p) \cap InGraph(graph) \subseteq {m}
      /\ \A n \in NewModules(m, p) : Sources(m, p)[n] \in Contents
  BY <1>1, NewAre DEF Typed
<1>5. x \in NewModules(m, p) /\ x \in Modules /\ Sources(m, p)[x] \in Contents
  BY <1>2, LeafIs
<1>6. /\ g \in GraphType /\ InGraph(g) = InGraph(graph) \cup {x}
      /\ g[x] = [path |-> IF x = m THEN p ELSE x, tree |-> Sources(m, p)[x],
                 deps |-> Sources(m, p)[x].imports \cap ((InGraph(graph) \ {m}) \cup NewModules(m, p)), iface |-> 0]
      /\ \A n \in InGraph(graph) \ {x} :
           /\ g[n].path = graph[n].path /\ g[n].tree = graph[n].tree /\ g[n].iface = graph[n].iface
           /\ graph[n].deps \subseteq g[n].deps /\ g[n].deps \subseteq graph[n].deps \cup graph[n].tree.imports
  BY <1>1, <1>2, <1>5, LoadedAre DEF Typed
<1>7. Entry(x, IF x = m THEN p ELSE x) \in T
  BY <1>1, <1>5, SuitsAre
<1>8. g[x].path = IF x = m THEN p ELSE x
  BY <1>6
<1>9. \A n \in InGraph(graph) : Entry(n, graph[n].path) \in T
  BY DEF Typed, Listed
<1>10. \A n \in InGraph(g) : Entry(n, g[n].path) \in T
  BY <1>6, <1>7, <1>8, <1>9
<1>11. QED
  BY <1>2, <1>5, <1>6, <1>7, <1>10 DEF LoadedIs

LEMMA AnalysisFailsTyped ==
  ASSUME NEW T, Suits(T), Typed(T), NEW m, NEW p, AnalysisFails(m, p)
  PROVE  Typed(T)'
<1>1. PICK x : x = Leaf(m, p)
  OBVIOUS
<1>2. PICK g : g = LoadedGraph(m, p)
  OBVIOUS
<1>11. PICK h : h = [g EXCEPT ![x] = IF x = m THEN graph[x] ELSE NotLoaded]
  OBVIOUS
<1>3. CanLoad(m, p) /\ UNCHANGED <<diskVars, serverVars>> /\ graph' = h
  BY <1>1, <1>2, <1>11 DEF AnalysisFails
<1>4. PICK q : q = IF x = m THEN p ELSE x
  OBVIOUS
<1>5. PICK rest \in Remaining(m, p) : Blocked(x, q, rest)
  BY <1>1, <1>4 DEF AnalysisFails, Blocked
<1>6. m \in Modules /\ p \in Modules /\ Entry(m, p) \in T /\ pending # <<>>
  BY <1>3, CanLoadIs
<1>7. /\ NewModules(m, p) \subseteq Modules /\ x \in NewModules(m, p) /\ x \in Modules
      /\ g \in GraphType /\ InGraph(g) = InGraph(graph) \cup {x}
      /\ \A n \in InGraph(g) : Entry(n, g[n].path) \in T
      /\ Entry(x, q) \in T
  <2>1. LoadedIs(T, m, p, x, g)
    BY <1>1, <1>2, <1>3, ChosenIs
  <2>2. QED
    BY <1>4, <2>1 DEF LoadedIs
<1>8. rest \in Seq(T)
  BY <1>5, <1>6, <1>7, RemainingAre
<1>9. h \in GraphType /\ \A n \in InGraph(h) : Entry(n, h[n].path) \in T
  <2>1. CASE x = m /\ graph[x] # NotLoaded
    <3>1. PICK l : l = graph[x]
      OBVIOUS
    <3>2. l \in Loaded /\ x \in InGraph(graph)
      BY <1>7, <2>1, <3>1, InGraphAre DEF Typed
    <3>3. Entry(x, l.path) \in T
      BY <3>1, <3>2 DEF Typed, Listed
    <3>4. h = Put(g, x, l)
      BY <1>11, <2>1, <3>1 DEF Put
    <3>5. QED
      BY <1>7, <3>2, <3>3, <3>4, PutBack
  <2>2. CASE ~(x = m /\ graph[x] # NotLoaded)
    <3>1. h = Put(g, x, NotLoaded)
      BY <1>11, <2>2 DEF Put
    <3>2. QED
      BY <1>7, <3>1, Dropped
  <2>3. QED
    BY <2>1, <2>2
<1>10. QED
  BY <1>3, <1>5, <1>6, <1>7, <1>8, <1>9, BlockedTyped

\* The module chosen, its contents, the graph with it, what it sees and what is
\* seen of it; the graph and the errors with that, and what is triggered.
Chosen(m, p, x, v, g, look, face, h, e, triggered) ==
  /\ x = Leaf(m, p) /\ v = Sources(m, p)[x] /\ g = LoadedGraph(m, p) /\ look = Lookup(files, g)
  /\ face = Interface(v, look) /\ h = [g EXCEPT ![x].iface = face]
  /\ e = [NoErrors EXCEPT ![x] = Complaints(v, look)]
  /\ triggered = IF graph[x] = NotLoaded \/ graph[x].iface # face THEN {x} ELSE {}

LEMMA ProcessIs ==
  ASSUME NEW m, NEW p, ProcessModule(m, p)
  PROVE  \E x, v, g, look, face, h, e, triggered :
           /\ Chosen(m, p, x, v, g, look, face, h, e, triggered)
           /\ CanLoad(m, p) /\ v.bad = "no" /\ UNCHANGED <<diskVars, serverVars>>
           /\ deps' = [i \in Modules |-> IF i \in v.imports THEN deps[i] \cup {x} ELSE deps[i]]
           /\ \E rest \in Remaining(m, p) : Propagated(x, h, e, triggered, rest)
<1>1. PICK x, v, g, look : x = Leaf(m, p) /\ v = Sources(m, p)[x] /\ g = LoadedGraph(m, p) /\ look = Lookup(files, g)
  OBVIOUS
<1>2. PICK face, h, e : /\ face = Interface(v, look) /\ h = [g EXCEPT ![x].iface = face]
                        /\ e = [NoErrors EXCEPT ![x] = Complaints(v, look)]
  OBVIOUS
<1>3. PICK triggered : triggered = IF graph[x] = NotLoaded \/ graph[x].iface # face THEN {x} ELSE {}
  OBVIOUS
<1>4. Chosen(m, p, x, v, g, look, face, h, e, triggered)
  BY <1>1, <1>2, <1>3 DEF Chosen
<1>5. /\ CanLoad(m, p) /\ v.bad = "no" /\ UNCHANGED <<diskVars, serverVars>>
      /\ deps' = [i \in Modules |-> IF i \in v.imports THEN deps[i] \cup {x} ELSE deps[i]]
  BY <1>1 DEF ProcessModule
<1>6. \E rest \in Remaining(m, p) : Propagated(x, h, e, triggered, rest)
  BY <1>1, <1>2, <1>3 DEF ProcessModule, Propagated
<1>7. QED
  BY <1>4, <1>5, <1>6

LEMMA ProcessTyped ==
  ASSUME NEW T, Suits(T), Typed(T), NEW m, NEW p, ProcessModule(m, p)
  PROVE  Typed(T)'
<1>1. PICK x, v, g, look, face, h, e, triggered :
        /\ Chosen(m, p, x, v, g, look, face, h, e, triggered)
        /\ CanLoad(m, p) /\ v.bad = "no" /\ UNCHANGED <<diskVars, serverVars>>
        /\ deps' = [i \in Modules |-> IF i \in v.imports THEN deps[i] \cup {x} ELSE deps[i]]
        /\ \E rest \in Remaining(m, p) : Propagated(x, h, e, triggered, rest)
  BY ProcessIs
<1>2. x = Leaf(m, p) /\ v = Sources(m, p)[x] /\ g = LoadedGraph(m, p) /\ look = Lookup(files, g)
  BY <1>1 DEF Chosen
<1>3. face = Interface(v, look) /\ e = [NoErrors EXCEPT ![x] = Complaints(v, look)]
  BY <1>1 DEF Chosen
<1>4. /\ h = [g EXCEPT ![x].iface = face]
      /\ triggered = IF graph[x] = NotLoaded \/ graph[x].iface # face THEN {x} ELSE {}
  BY <1>1 DEF Chosen
<1>5. /\ CanLoad(m, p) /\ UNCHANGED <<diskVars, serverVars>>
      /\ deps' = [i \in Modules |-> IF i \in v.imports THEN deps[i] \cup {x} ELSE deps[i]]
  BY <1>1
<1>6. PICK rest \in Remaining(m, p) : Propagated(x, h, e, triggered, rest)
  BY <1>1
<1>7. m \in Modules /\ p \in Modules /\ Entry(m, p) \in T /\ pending # <<>> /\ pc = "update"
  BY <1>5, CanLoadIs
<1>8. /\ NewModules(m, p) \subseteq Modules /\ x \in Modules /\ v \in Contents
      /\ g \in GraphType /\ x \in InGraph(g)
      /\ \A n \in InGraph(g) : Entry(n, g[n].path) \in T
  <2>1. LoadedIs(T, m, p, x, g)
    BY <1>2, <1>5, ChosenIs
  <2>2. QED
    BY <1>2, <2>1 DEF LoadedIs
<1>9. rest \in Seq(T)
  BY <1>6, <1>7, <1>8, RemainingAre
<1>10. look \in LookType
  BY <1>2, <1>8, LooksAre DEF Faces
<1>11. face \in {0, 1} /\ Complaints(v, look) \in SUBSET Modules
  BY <1>3, <1>8, <1>10, Interfaces
<1>12. e \in ErrorsType
  BY <1>3, <1>8, <1>11, NoErrorsType DEF ErrorsType
<1>13. h \in GraphType /\ \A n \in InGraph(h) : Entry(n, h[n].path) \in T
  <2>1. PICK l : l = [g[x] EXCEPT !.iface = face]
    OBVIOUS
  <2>2. g[x] \in Loaded
    BY <1>8, InGraphAre
  <2>3. l \in Loaded /\ l.path = g[x].path
    BY <1>11, <2>1, <2>2 DEF Loaded
  <2>4. h = Put(g, x, l)
    BY <1>4, <2>1 DEF Put
  <2>5. QED
    BY <1>8, <2>3, <2>4, PutBack
<1>14. triggered \in SUBSET Modules
  BY <1>4, <1>8
<1>15. deps' \in DepsType
  BY <1>5, <1>8 DEF Typed, DepsType
<1>16. graph' \in GraphType /\ SameModules(graph', h) /\ complaints' \in ErrorsType /\ pc' \in {pc, "endless"}
  BY <1>6, <1>8, <1>12, <1>13, <1>14, <1>15, PropagatedTyped
<1>17. /\ targetsWithErrors' = targetsWithErrors \cup Targets(complaints') /\ previousModules' = InGraph(graph')
       /\ pending' = Dedupe(rest \o Without(Tail(pending), x)) /\ lastId' = x
       /\ UNCHANGED <<messages, blockingError, stale, initialSet, removedSet, blocking>>
  BY <1>6, Zenon DEF Propagated
<1>18. pending' \in Seq(T)
  BY <1>7, <1>9, <1>17, RestIs DEF Typed, Listed
<1>19. UNCHANGED <<project, files, roots, step, changedFiles, queue, visited, origModules, previousSources>>
  BY <1>5 DEF diskVars, serverVars
<1>20. \A n \in InGraph(graph') : Entry(n, graph'[n].path) \in T
  BY <1>13, <1>16 DEF SameModules
<1>21. Listed(T)'
  BY <1>17, <1>18, <1>19, <1>20 DEF Typed, Listed
<1>22. InGraph(graph') \subseteq Modules /\ Targets(complaints') \subseteq Modules
  BY <1>16, InGraphAre DEF Targets
<1>23. QED
  BY <1>7, <1>8, <1>15, <1>16, <1>17, <1>19, <1>21, <1>22 DEF Typed

(***************************************************************************)
(* What fine_grained_increment_follow_imports does, in general.            *)
(***************************************************************************)
LEMMA ReachedAre ==
  ASSUME NEW g \in GraphType, NEW S \in SUBSET Modules, NEW before, NEW changed
  PROVE  /\ S \subseteq Reached(g, S, before, changed) /\ Reached(g, S, before, changed) \subseteq Modules
         /\ \A m \in Reached(g, S, before, changed) \cap InGraph(g) :
              g[m].path \notin changed => g[m].deps \ before \subseteq Reached(g, S, before, changed)
         /\ \A M \in SUBSET Modules :
              S \subseteq M /\ (\A m \in M \cap InGraph(g) : g[m].path \notin changed => g[m].deps \ before \subseteq M)
                => Reached(g, S, before, changed) \subseteq M
<1> DEFINE E == [m \in Modules |-> IF g[m] = NotLoaded \/ PathOf(g, m) \in changed THEN {}
                                   ELSE g[m].deps \ before]
           all == Reached(g, S, before, changed)
<1>1. all = Reach(E, S) /\ DOMAIN E = Modules
  BY DEF Reached
<1>2. \A m \in Modules : m \in InGraph(g) => E[m] = IF g[m].path \in changed THEN {} ELSE g[m].deps \ before
  BY InGraphAre, NotThere DEF PathOf
<1>3. \A m \in Modules : m \notin InGraph(g) => E[m] = {}
  BY InGraphAre
<1> HIDE DEF E, all
<1>4. /\ S \subseteq all /\ all \subseteq Modules
      /\ \A m \in all : \A i \in E[m] \cap Modules : i \in all
      /\ \A M \in SUBSET Modules : S \subseteq M /\ ClosedUnder(E, M) => all \subseteq M
  BY <1>1, Reaching
<1>5. ASSUME NEW m \in all \cap InGraph(g), g[m].path \notin changed
      PROVE  g[m].deps \ before \subseteq all
  BY <1>2, <1>4, <1>5, InGraphAre
<1>6. ASSUME NEW M \in SUBSET Modules, S \subseteq M,
             \A m \in M \cap InGraph(g) : g[m].path \notin changed => g[m].deps \ before \subseteq M
      PROVE  all \subseteq M
  <2>1. \A m \in M : E[m] \subseteq M
    BY <1>2, <1>3, <1>6
  <2>2. QED
    BY <1>4, <1>6, <2>1 DEF ClosedUnder
<1>7. QED
  BY <1>4, <1>5, <1>6 DEF all

\* The variables that an increment changes beside those of update().
ServerTyped(T) ==
  /\ project \in Projects /\ files \in Disks(project) /\ roots \in project.roots
  /\ step \in {"none", "follow", "delete", "finish"}
  /\ changedFiles \subseteq Modules /\ visited \subseteq Modules /\ origModules \subseteq Modules
  /\ previousSources \subseteq Modules /\ queue \in Seq(T)

LEMMA StartTyped ==
  ASSUME NEW T, Suits(T), Typed(T), NEW changed \in Seq(T), NEW removed \in Seq(T),
         StartUpdate(changed, removed), ServerTyped(T)'
  PROVE  Typed(T)'
<1>1. T \in SUBSET EntryType /\ stale \in Seq(T) /\ blockingError \in T \cup {NoEntry}
  BY SuitsAre DEF Typed, Listed
<1>2. /\ UNCHANGED <<graph, deps, complaints, targetsWithErrors, previousModules, messages, stale>>
      /\ Ids(changed) = {} /\ Ids(removed) = {} =>
           pc' = "daemon" /\ UNCHANGED <<blockingError, pending, initialSet, removedSet, blocking, lastId>>
      /\ ~(Ids(changed) = {} /\ Ids(removed) = {}) =>
           /\ pc' = "update" /\ pending' \in Seq(T)
           /\ initialSet' = Ids(changed) \cup Ids(removed) \cup Ids(stale)
           /\ removedSet' = Ids(removed) /\ blockingError' = NoEntry /\ lastId' = 0
  BY <1>1, UpdateStarted
<1>3. Ids(changed) \subseteq Modules /\ Ids(removed) \subseteq Modules /\ Ids(stale) \subseteq Modules
  BY <1>1, ListIds
<1>4. Listed(T)'
  BY <1>2 DEF ServerTyped, Typed, Listed
<1>5. QED
  BY <1>2, <1>3, <1>4 DEF ServerTyped, Typed

LEMMA FollowTyped ==
  ASSUME NEW T, Suits(T), Typed(T), FollowImports
  PROVE  Typed(T)'
<1>1. T \in SUBSET EntryType /\ graph \in GraphType /\ \A n \in InGraph(graph) : Entry(n, graph[n].path) \in T
  BY SuitsAre DEF Typed, Listed
<1>2. /\ pc = "daemon" /\ queue # <<>>
      /\ UNCHANGED <<project, files, roots, step, lastSeen, changedFiles, origModules, previousSources>>
  BY DEF FollowImports, diskVars
<1>3. PICK m : m = Last(queue).id
  OBVIOUS
<1>4. Front(queue) \in Seq(T) /\ m \in Modules
  BY <1>1, <1>2, <1>3, ListIds, NotThere DEF Typed, Listed
<1>5. PICK S, before, changed : S = graph[m].deps \ visited /\ before = visited /\ changed = changedFiles
  OBVIOUS
<1>6. PICK reached : reached = Reached(graph, S, before, changed)
  OBVIOUS
<1>7. CASE graph[m] = NotLoaded
  <2>1. queue' = Front(queue) /\ UNCHANGED <<pc, visited, keptVars, localVars>>
    BY <1>3, <1>7 DEF FollowImports
  <2>2. Listed(T)'
    BY <1>4, <2>1 DEF Typed, Listed, keptVars, localVars
  <2>3. QED
    BY <1>2, <2>1, <2>2 DEF Typed, keptVars, localVars
<1>8. CASE graph[m] # NotLoaded /\ graph[m].deps \cup reached \subseteq InGraph(graph)
  <2>1. /\ visited' = visited \cup reached
        /\ \E s \in Entries(graph, {n \in reached : PathOf(graph, n) \in changedFiles}) :
             queue' = Front(queue) \o s /\ StartUpdate(s, <<>>)
    BY <1>3, <1>5, <1>6, <1>8 DEF FollowImports
  <2>2. PICK C : C = {n \in reached : PathOf(graph, n) \in changedFiles}
    OBVIOUS
  <2>3. PICK s \in Entries(graph, C) : queue' = Front(queue) \o s /\ StartUpdate(s, <<>>)
    BY <2>1, <2>2
  <2>4. reached \subseteq Modules
    BY <1>8, InGraphAre, <1>1
  <2>5. C \in SUBSET Modules
    BY <2>2, <2>4
  <2>6. s \in Seq(T)
    BY <1>1, <2>3, <2>5, EntriesAre
  <2>7. Front(queue) \o s \in Seq(T) /\ <<>> \in Seq(T)
    BY <1>1, <1>4, <2>6, Joined, EmptySeq
  <2>8. ServerTyped(T)'
    BY <1>2, <2>1, <2>3, <2>4, <2>7 DEF ServerTyped, Typed
  <2>9. QED
    BY <2>3, <2>6, <2>7, <2>8, StartTyped
<1>9. CASE graph[m] # NotLoaded /\ ~(graph[m].deps \cup reached \subseteq InGraph(graph))
  <2>1. pc' = "crashed" /\ UNCHANGED <<queue, visited, keptVars, localVars>>
    BY <1>3, <1>5, <1>6, <1>9 DEF FollowImports
  <2>2. Listed(T)'
    BY <2>1 DEF Typed, Listed, keptVars, localVars
  <2>3. QED
    BY <1>2, <2>1, <2>2 DEF Typed, keptVars, localVars
<1>10. QED
  BY <1>7, <1>8, <1>9

LEMMA SuppressedTyped ==
  ASSUME NEW T, Suits(T), Typed(T), AddSuppressed
  PROVE  Typed(T)'
<1>1. /\ visited' = visited \cup Unsuppressed /\ step' = IF Unsuppressed = {} THEN "delete" ELSE "follow"
      /\ UNCHANGED <<project, files, roots, changedFiles, queue, origModules, previousSources>>
  BY DEF AddSuppressed, diskVars
<1>2. PICK S : S = Unsuppressed
  OBVIOUS
<1>3. PICK s \in Entries(graph, S) : StartUpdate(s, <<>>)
  BY <1>2 DEF AddSuppressed
<1>4. S \in SUBSET Modules
  BY <1>2 DEF Unsuppressed
<1>5. s \in Seq(T) /\ <<>> \in Seq(T)
  BY <1>3, <1>4, EntriesAre, EmptySeq DEF Typed, Listed
<1>6. ServerTyped(T)'
  BY <1>1, <1>2, <1>4 DEF ServerTyped, Typed, Listed
<1>7. QED
  BY <1>3, <1>5, <1>6, StartTyped

LEMMA UnreachedTyped ==
  ASSUME NEW T, Suits(T), Typed(T), DeleteUnreached
  PROVE  Typed(T)'
<1>1. step' = "finish" /\ UNCHANGED <<project, files, roots, changedFiles, queue, visited, origModules, previousSources>>
  BY DEF DeleteUnreached, diskVars
<1>2. PICK S : S = (origModules \cap InGraph(graph)) \ visited
  OBVIOUS
<1>3. PICK s \in Entries(graph, S) : StartUpdate(<<>>, s)
  BY <1>2 DEF DeleteUnreached
<1>4. S \in SUBSET Modules
  BY <1>2 DEF Typed
<1>5. s \in Seq(T) /\ <<>> \in Seq(T)
  BY <1>3, <1>4, EntriesAre, EmptySeq DEF Typed, Listed
<1>6. ServerTyped(T)'
  BY <1>1 DEF ServerTyped, Typed, Listed
<1>7. QED
  BY <1>3, <1>5, <1>6, StartTyped

\* fix_module_deps changes the dependencies of modules only.
LEMMA DepsFixed ==
  ASSUME NEW g \in GraphType, NEW h,
         h = [m \in Modules |-> IF g[m] = NotLoaded THEN NotLoaded
                                ELSE [g[m] EXCEPT !.deps = g[m].tree.imports \cap InGraph(g)]]
  PROVE  /\ h \in GraphType /\ InGraph(h) = InGraph(g)
         /\ \A m \in InGraph(g) : /\ h[m].path = g[m].path /\ h[m].tree = g[m].tree /\ h[m].iface = g[m].iface
                                  /\ h[m].deps = g[m].tree.imports \cap InGraph(g)
<1>1. ASSUME NEW m \in InGraph(g)
      PROVE  /\ h[m] \in Loaded /\ h[m].path = g[m].path /\ h[m].tree = g[m].tree /\ h[m].iface = g[m].iface
             /\ h[m].deps = g[m].tree.imports \cap InGraph(g)
  <2>1. PICK d : d = g[m].tree.imports \cap InGraph(g)
    OBVIOUS
  <2>2. m \in Modules /\ g[m] \in Loaded /\ g[m] # NotLoaded /\ d \in SUBSET Modules
    BY <2>1, InGraphAre, NotThere
  <2>3. h[m] = [g[m] EXCEPT !.deps = d]
    BY <2>1, <2>2
  <2>4. h[m] = [path |-> g[m].path, tree |-> g[m].tree, deps |-> d, iface |-> g[m].iface]
    BY <2>2, <2>3 DEF Loaded
  <2>7. g[m].path \in Modules /\ g[m].tree \in Contents /\ g[m].iface \in {0, 1}
    BY InGraphAre
  <2>8. PICK l : l = [path |-> g[m].path, tree |-> g[m].tree, deps |-> d, iface |-> g[m].iface]
    OBVIOUS
  <2>9. l \in Loaded
    BY <2>2, <2>7, <2>8 DEF Loaded
  <2>5. h[m] = l
    BY <2>4, <2>8, Zenon
  <2>10. l.path = g[m].path /\ l.tree = g[m].tree /\ l.iface = g[m].iface /\ l.deps = d
    BY <2>8
  <2>6. QED
    BY <2>1, <2>5, <2>9, <2>10, Zenon
<1>2. \A m \in Modules : m \notin InGraph(g) => h[m] = NotLoaded
  BY InGraphAre
<1>3. h = [m \in Modules |-> h[m]] /\ \A m \in Modules : h[m] \in Loaded \cup {NotLoaded}
  BY <1>1, <1>2
<1>4. h \in GraphType
  BY <1>3 DEF GraphType
<1>5. \A m \in Modules : h[m] # NotLoaded <=> m \in InGraph(g)
  BY <1>1, <1>2, NotThere
<1>6. InGraph(h) = InGraph(g)
  BY <1>5, InGraphAre DEF InGraph
<1>7. QED
  BY <1>1, <1>4, <1>6

LEMMA IncrementEndTyped ==
  ASSUME NEW T, Suits(T), Typed(T), FinishIncrement
  PROVE  Typed(T)'
<1>1. /\ previousSources' = InGraph(graph) /\ pc' = "idle" /\ step' = "none"
      /\ changedFiles' = {} /\ queue' = <<>> /\ visited' = {} /\ origModules' = {}
      /\ pending' = <<>> /\ initialSet' = {} /\ removedSet' = {} /\ lastId' = 0
      /\ UNCHANGED <<project, files, roots, deps, complaints, targetsWithErrors, previousModules, messages,
                     blockingError, stale>>
  BY DEF FinishIncrement, diskVars
<1>2. PICK g, h : /\ g = graph
                  /\ h = [m \in Modules |-> IF g[m] = NotLoaded THEN NotLoaded
                                            ELSE [g[m] EXCEPT !.deps = g[m].tree.imports \cap InGraph(g)]]
  OBVIOUS
<1>3. graph' = h
  BY <1>2 DEF FinishIncrement
<1>4. g \in GraphType
  BY <1>2 DEF Typed
<1>5. /\ h \in GraphType /\ InGraph(h) = InGraph(g) /\ \A m \in InGraph(g) : h[m].path = g[m].path
  BY <1>2, <1>4, DepsFixed
<1>6. <<>> \in Seq(T)
  BY EmptySeq
<1>7. \A n \in InGraph(graph') : Entry(n, graph'[n].path) \in T
  BY <1>2, <1>3, <1>5 DEF Typed, Listed
<1>8. Listed(T)'
  BY <1>1, <1>6, <1>7 DEF Typed, Listed
<1>9. InGraph(graph) \subseteq Modules
  BY InGraphAre DEF Typed
<1>10. QED
  BY <1>1, <1>3, <1>5, <1>8, <1>9 DEF Typed

LEMMA CheckTyped ==
  ASSUME NEW T, Suits(T), Typed(T), NEW R \in project.roots, NEW D \in Disks(project), CheckFiles(R, D)
  PROVE  Typed(T)'
<1>1. R \in SUBSET Modules
  BY UpdateAssumption DEF UpdateBounds, Typed
<1>2. PICK known : known = {m \in Modules : lastSeen[m] # Unwatched} \cup R
  OBVIOUS
<1>3. PICK changed : changed = {m \in known : D[m] # (IF lastSeen[m] = Unwatched THEN Absent ELSE lastSeen[m])}
  OBVIOUS
<1>4. PICK reached : reached = Reached(graph, R, R, changed)
  OBVIOUS
<1>5. PICK edited : edited = {m \in reached : PathOf(graph, m) \in changed}
  OBVIOUS
<1>6. PICK fresh : fresh = ExplicitlyNew(R, edited)
  OBVIOUS
<1>7. /\ files' = D /\ roots' = R /\ changedFiles' = changed /\ visited' = reached /\ origModules' = InGraph(graph)
      /\ step' = "follow" /\ UNCHANGED <<project, previousSources>>
  BY <1>2, <1>3, <1>4 DEF CheckFiles
<1>8. PICK s \in Entries(graph, edited), t \in Entries(graph, fresh) :
        queue' = s \o t /\ StartUpdate(s \o t, <<>>)
  BY <1>2, <1>3, <1>4, <1>5, <1>6 DEF CheckFiles, ExplicitlyNew
<1>9. changed \subseteq Modules /\ reached \subseteq Modules /\ InGraph(graph) \subseteq Modules
  BY <1>1, <1>2, <1>3, <1>4, ReachedAre, InGraphAre DEF Typed
<1>10. edited \in SUBSET Modules /\ fresh \in SUBSET Modules
  BY <1>1, <1>5, <1>6, <1>9 DEF ExplicitlyNew
<1>11. s \in Seq(T) /\ t \in Seq(T) /\ <<>> \in Seq(T)
  BY <1>8, <1>10, EntriesAre, EmptySeq DEF Typed, Listed
<1>12. s \o t \in Seq(T)
  BY <1>11, Joined, SuitsAre
<1>13. ServerTyped(T)'
  BY <1>7, <1>8, <1>9, <1>12 DEF ServerTyped, Typed
<1>14. QED
  BY <1>8, <1>11, <1>12, <1>13, StartTyped

LEMMA StepsTyped ==
  ASSUME NEW T, Suits(T), Typed(T), [UpdateNext]_updateVars
  PROVE  Typed(T)'
<1>1. CASE UNCHANGED updateVars
  <2>1. UNCHANGED <<project, files, pc, step, roots, changedFiles, queue, visited, origModules, previousSources,
                    graph, deps, complaints, targetsWithErrors, previousModules, messages, blockingError,
                    stale, pending, initialSet, removedSet, lastId>>
    BY <1>1 DEF updateVars, diskVars, serverVars, keptVars, localVars
  <2>2. Listed(T)'
    BY <2>1 DEF Typed, Listed
  <2>3. QED
    BY <2>1, <2>2 DEF Typed
<1>2. CASE Increment
  BY <1>2, FollowTyped, SuppressedTyped, UnreachedTyped, IncrementEndTyped DEF Increment
<1>3. CASE UpdateAction
  <2>1. CASE FinishUpdate
    BY <2>1, FinishTyped
  <2>2. ASSUME NEW m \in Modules, NEW p \in Modules,
               SkipBlocker(m, p) \/ DeleteModule(m, p) \/ LoadFails(m, p) \/ AnalysisFails(m, p) \/ ProcessModule(m, p)
        PROVE  Typed(T)'
    BY <2>2, SkipTyped, DeleteTyped, LoadFailsTyped, AnalysisFailsTyped, ProcessTyped
  <2>3. QED
    BY <1>3, <2>1, <2>2 DEF UpdateAction
<1>4. CASE \E R \in project.roots, D \in Disks(project) : CheckFiles(R, D)
  BY <1>4, CheckTyped
<1>5. QED
  BY <1>1, <1>2, <1>3, <1>4 DEF UpdateNext

\* Which versions files have is given by the project, which does not change.
LEMMA SameProject ==
  ASSUME NEW T, Suits(T), Typed(T), [UpdateNext]_updateVars
  PROVE  project' = project
<1>1. CASE UNCHANGED updateVars
  BY <1>1 DEF updateVars, diskVars
<1>2. CASE Increment
  BY <1>2 DEF Increment, FollowImports, AddSuppressed, DeleteUnreached, FinishIncrement, diskVars
<1>3. CASE UpdateAction
  <2>1. CASE FinishUpdate
    BY <2>1 DEF FinishUpdate, diskVars
  <2>2. ASSUME NEW m \in Modules, NEW p \in Modules,
               SkipBlocker(m, p) \/ DeleteModule(m, p) \/ LoadFails(m, p) \/ AnalysisFails(m, p) \/ ProcessModule(m, p)
        PROVE  project' = project
    <3>1. UNCHANGED diskVars
      BY <2>2 DEF SkipBlocker, DeleteModule, LoadFails, AnalysisFails, ProcessModule
    <3>2. QED
      BY <3>1 DEF diskVars
  <2>3. QED
    BY <1>3, <2>1, <2>2 DEF UpdateAction
<1>4. CASE \E R \in project.roots, D \in Disks(project) : CheckFiles(R, D)
  BY <1>4 DEF CheckFiles
<1>5. QED
  BY <1>1, <1>2, <1>3, <1>4 DEF UpdateNext

\* Every variable of the update has its type, whatever files come, go and change and
\* whatever errors they have.
THEOREM UpdateTyped == UpdateSpec => []UpdateTypeOK
<1>1. Suits(EntryType)
  BY DEF Suits
<1>2. UpdateInit => Typed(EntryType)
  BY <1>1, StartsTyped
<1>3. Typed(EntryType) /\ [UpdateNext]_updateVars => Typed(EntryType)'
  BY <1>1, StepsTyped
<1>4. Typed(EntryType) => UpdateTypeOK
  <2> SUFFICES ASSUME Typed(EntryType)
               PROVE  UpdateTypeOK
    OBVIOUS
  <2>1. \A m \in Modules : graph[m] # NotLoaded =>
          /\ graph[m].path \in Modules /\ graph[m].deps \subseteq Modules /\ graph[m].iface \in {0, 1}
    BY InGraphAre DEF Typed
  <2>2. EntryType \in SUBSET EntryType
    OBVIOUS
  <2>3. Ids(pending) \subseteq Modules /\ Ids(stale) \subseteq Modules /\ Ids(queue) \subseteq Modules
    BY <2>2, ListIds DEF Typed, Listed
  <2>4. QED
    BY <2>1, <2>3 DEF Typed, UpdateTypeOK, DepsType, ErrorsType
<1>5. QED
  BY <1>2, <1>3, <1>4, PTL DEF UpdateSpec

(***************************************************************************)
(* A blocking error is reported while its file has it.                     *)
(***************************************************************************)

\* The module with the blocking error still has it, or it has changed and is
\* waiting to be reached, or to be deleted.
BlockerKnown ==
  LET b == messages.blocker
  IN  /\ pc = "idle" => /\ \A m \in InGraph(graph) : lastSeen[m] = files[m]
                        /\ b \in InGraph(graph) => IsBad(b)
      /\ pc = "daemon" /\ b \in InGraph(graph) =>
           IsBad(b) \/ (step # "finish" /\ b \in (changedFiles \cap origModules) \ visited)

BlockerInv == NoSyntaxErrors /\ Typed(OwnFiles) /\ BlockerKnown

LEMMA BlockerInitially == UpdateInit /\ NoSyntaxErrors => BlockerInv
<1> SUFFICES ASSUME UpdateInit, NoSyntaxErrors
             PROVE  BlockerInv
  OBVIOUS
<1>1. Typed(OwnFiles)
  BY StartsTyped DEF Suits
<1>2. FirstBuild /\ pc = "idle"
  BY DEF UpdateInit
<1>3. InGraph(graph) = FullModules(files, roots)
  BY <1>2, FirstGraph
<1>4. /\ messages = [blocker |-> 0, errors |-> complaints]
      /\ lastSeen = [m \in Modules |-> IF m \in FullModules(files, roots) THEN files[m] ELSE Unwatched]
  BY <1>2 DEF FirstBuild
<1>5. InGraph(graph) \subseteq Modules /\ 0 \notin Modules
  BY <1>1, InGraphAre, ModulesAre DEF Typed
<1>6. messages.blocker = 0
  BY <1>4
<1>7. BlockerKnown
  BY <1>2, <1>3, <1>4, <1>5, <1>6 DEF BlockerKnown
<1>8. QED
  BY <1>1, <1>7 DEF BlockerInv

\* A check or a part of it that finds nothing to update.
LEMMA NothingToUpdate ==
  ASSUME Typed(OwnFiles), NEW changed \in Seq(OwnFiles), NEW removed \in Seq(OwnFiles), Suits(OwnFiles),
         StartUpdate(changed, removed)
  PROVE  /\ graph' = graph /\ messages' = messages /\ pc' \in {"daemon", "update"}
         /\ pc' = "daemon" => Ids(changed) = {} /\ Ids(removed) = {}
BY UpdateStarted DEF Typed, Listed

LEMMA BlockerChecked ==
  ASSUME BlockerInv, NEW R \in project.roots, NEW D \in Disks(project), CheckFiles(R, D)
  PROVE  BlockerKnown'
<1>1. Typed(OwnFiles) /\ Suits(OwnFiles) /\ BlockerKnown /\ pc = "idle"
  BY DEF BlockerInv, Suits, CheckFiles
<1>2. PICK known : known = {m \in Modules : lastSeen[m] # Unwatched} \cup R
  OBVIOUS
<1>3. PICK changed : changed = {m \in known : D[m] # (IF lastSeen[m] = Unwatched THEN Absent ELSE lastSeen[m])}
  OBVIOUS
<1>4. PICK reached : reached = Reached(graph, R, R, changed)
  OBVIOUS
<1>5. PICK edited : edited = {m \in reached : PathOf(graph, m) \in changed}
  OBVIOUS
<1>6. PICK fresh : fresh = ExplicitlyNew(R, edited)
  OBVIOUS
<1>7. /\ files' = D /\ changedFiles' = changed /\ visited' = reached /\ origModules' = InGraph(graph)
      /\ step' = "follow"
  BY <1>2, <1>3, <1>4 DEF CheckFiles
<1>8. PICK s \in Entries(graph, edited), t \in Entries(graph, fresh) : StartUpdate(s \o t, <<>>)
  BY <1>2, <1>3, <1>4, <1>5, <1>6 DEF CheckFiles, ExplicitlyNew
<1>9. R \in SUBSET Modules /\ graph \in GraphType
  BY <1>1, UpdateAssumption DEF UpdateBounds, Typed
<1>10. reached \subseteq Modules
  BY <1>4, <1>9, ReachedAre
<1>11. edited \in SUBSET Modules /\ fresh \in SUBSET Modules
  BY <1>5, <1>6, <1>9, <1>10 DEF ExplicitlyNew
<1>12. s \in Seq(OwnFiles) /\ Ids(s) = edited /\ t \in Seq(OwnFiles) /\ <<>> \in Seq(OwnFiles)
  BY <1>1, <1>8, <1>11, EntriesAre, EmptySeq DEF Typed, Listed
<1>13. s \o t \in Seq(OwnFiles) /\ Ids(s \o t) = Ids(s) \cup Ids(t)
  BY <1>1, <1>12, Joined, SuitsAre
<1>14. PICK l : l = s \o t
  OBVIOUS
<1>15. StartUpdate(l, <<>>) /\ l \in Seq(OwnFiles) /\ edited \subseteq Ids(l)
  BY <1>8, <1>12, <1>13, <1>14
<1>16. /\ graph' = graph /\ messages' = messages /\ pc' \in {"daemon", "update"}
       /\ pc' = "daemon" => edited = {}
  BY <1>1, <1>12, <1>15, NothingToUpdate
<1>17. ASSUME pc' = "daemon", messages.blocker \in InGraph(graph)
       PROVE  IsBad(messages.blocker)' \/ messages.blocker \in (changed \cap InGraph(graph)) \ reached
  <2>1. PICK b : b = messages.blocker
    OBVIOUS
  <2>2. b \in InGraph(graph) /\ b \in Modules /\ lastSeen[b] = files[b] /\ IsBad(b)
    BY <1>1, <1>9, <1>17, <2>1, InGraphAre DEF BlockerKnown
  <2>3. files[b] \in Contents \cup {Absent}
    BY <1>1, <2>2, OnDisk DEF Typed
  <2>4. lastSeen[b] # Unwatched
    BY <2>2, <2>3, UpdateAssumption DEF UpdateBounds
  <2>5. CASE D[b] = files[b]
    BY <1>7, <1>16, <2>1, <2>2, <2>5 DEF IsBad
  <2>6. CASE D[b] # files[b]
    <3>1. b \in changed
      BY <1>2, <1>3, <2>2, <2>4, <2>6
    <3>2. b \notin reached
      BY <1>1, <1>5, <1>16, <1>17, <2>2, <3>1, OwnPaths
    <3>3. QED
      BY <2>1, <2>2, <3>1, <3>2
  <2>7. QED
    BY <2>5, <2>6
<1>18. pc' # "idle"
  BY <1>16
<1>19. QED
  BY <1>7, <1>16, <1>17, <1>18 DEF BlockerKnown

LEMMA BlockerIncrement ==
  ASSUME BlockerInv, Increment
  PROVE  BlockerKnown'
<1>1. Typed(OwnFiles) /\ Suits(OwnFiles) /\ BlockerKnown /\ graph \in GraphType
  BY DEF BlockerInv, Suits, Typed
<1>2. <<>> \in Seq(OwnFiles)
  BY EmptySeq
<1>3. pc = "daemon" /\ (messages.blocker \in InGraph(graph) =>
         IsBad(messages.blocker)
         \/ (step # "finish" /\ messages.blocker \in (changedFiles \cap origModules) \ visited))
  BY <1>1 DEF BlockerKnown, Increment, FollowImports, AddSuppressed, DeleteUnreached, FinishIncrement
<1>4. PICK b : b = messages.blocker
  OBVIOUS
<1>5. CASE FollowImports
  <2>1. UNCHANGED <<files, step, changedFiles, origModules>>
    BY <1>5 DEF FollowImports, diskVars
  <2>2. PICK m, S, before, changed :
          m = Last(queue).id /\ S = graph[m].deps \ visited /\ before = visited /\ changed = changedFiles
    OBVIOUS
  <2>3. PICK reached : reached = Reached(graph, S, before, changed)
    OBVIOUS
  <2>4. CASE graph[m] = NotLoaded
    <3>1. UNCHANGED <<pc, visited, keptVars>>
      BY <1>5, <2>2, <2>4 DEF FollowImports
    <3>2. QED
      BY <1>3, <2>1, <3>1 DEF BlockerKnown, keptVars, IsBad
  <2>5. CASE graph[m] # NotLoaded /\ graph[m].deps \cup reached \subseteq InGraph(graph)
    <3>1. /\ visited' = visited \cup reached
          /\ \E s \in Entries(graph, {n \in reached : PathOf(graph, n) \in changedFiles}) : StartUpdate(s, <<>>)
      BY <1>5, <2>2, <2>3, <2>5 DEF FollowImports
    <3>2. PICK C : C = {n \in reached : PathOf(graph, n) \in changedFiles}
      OBVIOUS
    <3>3. PICK s \in Entries(graph, C) : StartUpdate(s, <<>>)
      BY <3>1, <3>2
    <3>4. C \in SUBSET Modules
      BY <1>1, <2>5, <3>2, InGraphAre
    <3>5. s \in Seq(OwnFiles) /\ Ids(s) = C
      BY <1>1, <3>3, <3>4, EntriesAre DEF Typed, Listed
    <3>6. /\ graph' = graph /\ messages' = messages /\ pc' \in {"daemon", "update"}
          /\ pc' = "daemon" => C = {}
      BY <1>1, <1>2, <3>3, <3>5, NothingToUpdate
    <3>7. b \in InGraph(graph) => (pc' = "daemon" /\ b \in changedFiles => b \notin reached)
      BY <1>1, <3>2, <3>6, OwnPaths
    <3>8. QED
      BY <1>3, <1>4, <2>1, <3>1, <3>6, <3>7 DEF BlockerKnown, IsBad
  <2>6. CASE graph[m] # NotLoaded /\ ~(graph[m].deps \cup reached \subseteq InGraph(graph))
    <3>1. pc' = "crashed"
      BY <1>5, <2>2, <2>3, <2>6 DEF FollowImports
    <3>2. QED
      BY <3>1 DEF BlockerKnown
  <2>7. QED
    BY <2>4, <2>5, <2>6
<1>6. CASE AddSuppressed
  <2>1. /\ visited' = visited \cup Unsuppressed /\ step' \in {"delete", "follow"}
        /\ UNCHANGED <<files, changedFiles, origModules>>
    BY <1>6 DEF AddSuppressed, diskVars
  <2>2. PICK S : S = Unsuppressed
    OBVIOUS
  <2>3. PICK s \in Entries(graph, S) : StartUpdate(s, <<>>)
    BY <1>6, <2>2 DEF AddSuppressed
  <2>4. S \in SUBSET Modules /\ S \cap InGraph(graph) = {}
    BY <2>2 DEF Unsuppressed
  <2>5. s \in Seq(OwnFiles)
    BY <1>1, <2>3, <2>4, EntriesAre DEF Typed, Listed
  <2>6. graph' = graph /\ messages' = messages /\ pc' \in {"daemon", "update"}
    BY <1>1, <1>2, <2>3, <2>5, NothingToUpdate
  <2>7. QED
    BY <1>3, <1>4, <2>1, <2>2, <2>4, <2>6 DEF BlockerKnown, IsBad
<1>7. CASE DeleteUnreached
  <2>1. step' = "finish" /\ UNCHANGED <<files, visited, changedFiles, origModules>>
    BY <1>7 DEF DeleteUnreached, diskVars
  <2>2. PICK S : S = (origModules \cap InGraph(graph)) \ visited
    OBVIOUS
  <2>3. PICK s \in Entries(graph, S) : StartUpdate(<<>>, s)
    BY <1>7, <2>2 DEF DeleteUnreached
  <2>4. S \in SUBSET Modules
    BY <1>1, <2>2 DEF Typed
  <2>5. s \in Seq(OwnFiles) /\ Ids(s) = S
    BY <1>1, <2>3, <2>4, EntriesAre DEF Typed, Listed
  <2>6. graph' = graph /\ messages' = messages /\ pc' \in {"daemon", "update"} /\ (pc' = "daemon" => S = {})
    BY <1>1, <1>2, <2>3, <2>5, NothingToUpdate
  <2>7. pc' = "daemon" /\ b \in InGraph(graph) => IsBad(b)
    BY <1>3, <1>4, <2>2, <2>6
  <2>8. QED
    BY <1>4, <2>1, <2>6, <2>7 DEF BlockerKnown, IsBad
<1>8. CASE FinishIncrement
  <2>1. /\ pc' = "idle" /\ step = "finish" /\ UNCHANGED <<files, messages>>
        /\ lastSeen' = [m \in Modules |->
                  IF lastSeen[m] # Unwatched \/ \E n \in InGraph(graph) : graph[n].path = m
                  THEN files[m] ELSE Unwatched]
    BY <1>8 DEF FinishIncrement, diskVars
  <2>2. PICK g, h : /\ g = graph
                    /\ h = [m \in Modules |-> IF g[m] = NotLoaded THEN NotLoaded
                                            ELSE [g[m] EXCEPT !.deps = g[m].tree.imports \cap InGraph(g)]]
    OBVIOUS
  <2>3. graph' = h
    BY <1>8, <2>2 DEF FinishIncrement
  <2>4. InGraph(graph') = InGraph(graph)
    BY <1>1, <2>2, <2>3, DepsFixed
  <2>5. \A m \in InGraph(graph) : lastSeen'[m] = files[m]
    BY <1>1, <2>1, OwnPaths
  <2>6. messages.blocker \in InGraph(graph) => IsBad(messages.blocker)
    BY <1>3, <2>1
  <2>7. QED
    BY <2>1, <2>4, <2>5, <2>6 DEF BlockerKnown, IsBad
<1>9. QED
  BY <1>5, <1>6, <1>7, <1>8 DEF Increment

LEMMA BlockerUpdate ==
  ASSUME BlockerInv, UpdateAction
  PROVE  BlockerKnown'
<1>1. Typed(OwnFiles) /\ NoSyntaxErrors /\ Suits(OwnFiles)
  BY DEF BlockerInv, Suits
<1>2. CASE FinishUpdate
  <2>1. messages'.blocker = 0 /\ pc' \in {"daemon", "endless"} /\ graph' \in GraphType
    BY <1>1, <1>2, FinishedTyped DEF Typed
  <2>2. 0 \notin InGraph(graph')
    BY <2>1, InGraphAre, ModulesAre
  <2>3. QED
    BY <2>1, <2>2 DEF BlockerKnown
<1>3. ASSUME NEW m \in Modules, NEW p \in Modules,
             SkipBlocker(m, p) \/ DeleteModule(m, p) \/ ProcessModule(m, p)
      PROVE  BlockerKnown'
  <2>1. pc = "update"
    BY <1>3 DEF SkipBlocker, DeleteModule, ProcessModule, CanLoad, IsNext
  <2>2. pc' = pc \/ pc' = "endless"
    <3>1. CASE SkipBlocker(m, p)
      BY <3>1 DEF SkipBlocker
    <3>2. CASE DeleteModule(m, p)
      BY <3>2 DEF DeleteModule, Propagated
    <3>3. CASE ProcessModule(m, p)
      BY <3>3 DEF ProcessModule, Propagated
    <3>4. QED
      BY <1>3, <3>1, <3>2, <3>3
  <2>3. QED
    BY <2>1, <2>2 DEF BlockerKnown
<1>4. ASSUME NEW m \in Modules, NEW p \in Modules, LoadFails(m, p)
      PROVE  FALSE
  <2>1. CanLoad(m, p) /\ Unloadable(m, p) # {}
    BY <1>4 DEF LoadFails
  <2>2. QED
    BY <1>1, <2>1, AllLoadable
<1>5. ASSUME NEW m \in Modules, NEW p \in Modules, AnalysisFails(m, p)
      PROVE  BlockerKnown'
  <2>1. PICK x, g : x = Leaf(m, p) /\ g = LoadedGraph(m, p)
    OBVIOUS
  <2>2. /\ CanLoad(m, p) /\ Sources(m, p)[x].bad = "semantic" /\ UNCHANGED <<diskVars, serverVars>>
        /\ messages' = [blocker |-> x, errors |-> NoErrors] /\ pc' = "daemon"
    BY <1>5, <2>1 DEF AnalysisFails, Blocked
  <2>3. p = m
    BY <1>1, <2>2, AllLoadable
  <2>4. LoadedIs(OwnFiles, m, p, x, g)
    BY <1>1, <2>1, <2>2, ChosenIs
  <2>5. x \in Modules /\ Sources(m, p)[x] \in Contents
    BY <2>4 DEF LoadedIs
  <2>6. files \in [Modules -> Contents \cup {Absent}]
    BY <1>1, OnDisk DEF Typed
  <2>7. Sources(m, p)[x] = files[x]
    BY <2>3, <2>5, <2>6 DEF Sources
  <2>8. files' = files /\ messages'.blocker = x
    BY <2>2 DEF diskVars
  <2>9. IsBad(messages.blocker)'
    BY <2>2, <2>5, <2>7, <2>8, UpdateAssumption DEF IsBad, UpdateBounds
  <2>10. QED
    BY <2>2, <2>9 DEF BlockerKnown
<1>6. QED
  BY <1>2, <1>3, <1>4, <1>5 DEF UpdateAction

\* Whatever else goes wrong, a module of the graph is reported for a blocking error
\* only as long as its file has it: "stuck with the blocking error" is nobody.  It is
\* so while no file has a syntax error: a new module with one is remembered under the
\* path of the module that imports it, and may be reported for that one's errors.
THEOREM KnownBlockersAreReal == UpdateSpec /\ NoSyntaxErrors => []KnownBlockerIsReal
<1>1. UpdateInit /\ NoSyntaxErrors => BlockerInv
  BY BlockerInitially
<1>2. BlockerInv /\ [UpdateNext]_updateVars => BlockerInv'
  <2> SUFFICES ASSUME BlockerInv, [UpdateNext]_updateVars
               PROVE  BlockerInv'
    OBVIOUS
  <2>1. Typed(OwnFiles) /\ NoSyntaxErrors /\ Suits(OwnFiles)
    BY DEF BlockerInv, Suits
  <2>2. Typed(OwnFiles)' /\ project' = project
    BY <2>1, StepsTyped, SameProject
  <2>3. NoSyntaxErrors'
    BY <2>1, <2>2 DEF NoSyntaxErrors
  <2>8. BlockerKnown'
    <3>1. CASE UNCHANGED updateVars
      BY <3>1 DEF BlockerInv, BlockerKnown, IsBad, updateVars, diskVars, serverVars, keptVars
    <3>2. CASE Increment
      BY <3>2, BlockerIncrement
    <3>3. CASE UpdateAction
      BY <3>3, BlockerUpdate
    <3>4. CASE \E R \in project.roots, D \in Disks(project) : CheckFiles(R, D)
      BY <3>4, BlockerChecked
    <3>5. QED
      BY <3>1, <3>2, <3>3, <3>4 DEF UpdateNext
  <2>9. QED
    BY <2>2, <2>3, <2>8 DEF BlockerInv
<1>3. BlockerInv => KnownBlockerIsReal
  BY DEF BlockerInv, BlockerKnown, KnownBlockerIsReal, Answered
<1>4. QED
  BY <1>1, <1>2, <1>3, PTL DEF UpdateSpec

(***************************************************************************)
(* The graph, while every file is there and none has a blocking error:     *)
(* contents, imports and sources change.                                   *)
(***************************************************************************)
AlwaysThere == \A m \in Modules : \A v \in project.versions[m] : v # Absent
Steady == AlwaysThere /\ NeverBlocked

\* Every module can be loaded.
Present == AlwaysThere /\ NoSyntaxErrors

LEMMA PresentFiles ==
  ASSUME Present, project \in Projects, NEW D \in Disks(project), NEW R \in project.roots
  PROVE  /\ R \in SUBSET Modules
         /\ \A m \in Modules : /\ D[m] \in Contents /\ D[m] # Absent /\ D[m].bad # "parse"
                               /\ D[m].imports \subseteq Modules /\ m \notin D[m].imports
         /\ R \subseteq FullModules(D, R) /\ FullModules(D, R) \subseteq Modules
         /\ \A m \in FullModules(D, R) : D[m].imports \subseteq FullModules(D, R)
         /\ \A M \in SUBSET Modules :
              R \subseteq M /\ (\A m \in M : D[m].imports \subseteq M) => FullModules(D, R) \subseteq M
<1>1. R \in SUBSET Modules
  BY UpdateAssumption DEF UpdateBounds
<1>2. \A m \in Modules : D[m] # Absent /\ D[m] \in Contents /\ D[m].bad # "parse"
  <2> TAKE m \in Modules
  <2>1. D[m] \in project.versions[m] /\ D[m] \in Contents \cup {Absent}
    BY OnDisk
  <2>2. QED
    BY <2>1 DEF Present, AlwaysThere, NoSyntaxErrors
<1>3. \A m \in Modules : D[m].imports \subseteq Modules /\ m \notin D[m].imports
  BY <1>2, OnDisk
<1>4. \A m \in R : D[m] # Absent
  BY <1>1, <1>2
<1>5. /\ R \subseteq FullModules(D, R) /\ FullModules(D, R) \subseteq Modules
      /\ \A m \in FullModules(D, R) : D[m].bad # "parse" =>
              \A i \in D[m].imports : D[i] # Absent => i \in FullModules(D, R)
      /\ \A M \in SUBSET Modules :
              R \subseteq M /\ (\A m \in M : D[m] # Absent => \A i \in D[m].imports : D[i] # Absent => i \in M)
                => FullModules(D, R) \subseteq M
  BY <1>1, <1>4, FullAre
<1>6. \A m \in FullModules(D, R) : D[m].imports \subseteq FullModules(D, R)
  BY <1>2, <1>3, <1>5
<1>7. ASSUME NEW M \in SUBSET Modules, R \subseteq M, \A m \in M : D[m].imports \subseteq M
      PROVE  FullModules(D, R) \subseteq M
  BY <1>5, <1>7
<1>8. QED
  BY <1>1, <1>2, <1>3, <1>5, <1>6, <1>7

LEMMA SteadyFiles ==
  ASSUME Steady, project \in Projects, NEW D \in Disks(project), NEW R \in project.roots
  PROVE  /\ R \in SUBSET Modules
         /\ \A m \in Modules : /\ D[m] \in Contents /\ D[m] # Absent /\ D[m].bad = "no"
                               /\ D[m].imports \subseteq Modules /\ m \notin D[m].imports
         /\ R \subseteq FullModules(D, R) /\ FullModules(D, R) \subseteq Modules
         /\ \A m \in FullModules(D, R) : D[m].imports \subseteq FullModules(D, R)
         /\ \A M \in SUBSET Modules :
              R \subseteq M /\ (\A m \in M : D[m].imports \subseteq M) => FullModules(D, R) \subseteq M
<1>1. Present
  BY DEF Present, Steady, NeverBlocked, NoSyntaxErrors
<1>2. \A m \in Modules : D[m].bad = "no"
  BY OnDisk DEF Steady, AlwaysThere, NeverBlocked
<1>3. QED
  BY <1>1, <1>2, PresentFiles

Full == FullModules(files, roots)

\* m was in the graph, has changed, and has not been processed again.
Outdated(m) == m \in origModules \cap changedFiles /\ (m \notin visited \/ m \in Ids(pending))

\* Between increments.
GraphAtRest ==
  /\ InGraph(graph) = Full /\ previousSources = InGraph(graph)
  /\ \A m \in InGraph(graph) : graph[m].tree = files[m] /\ lastSeen[m] = files[m]
  /\ \A m \in Modules : lastSeen[m] \in {files[m], Unwatched}

\* While imports are followed: what is in the graph leads nowhere else but to what
\* is pending, what was visited and is not queued any more is up to date, and what
\* it imports was visited.
GraphFollowed ==
  /\ \A m \in InGraph(graph) : graph[m].tree.imports \subseteq InGraph(graph) \cup Ids(pending)
  /\ origModules \subseteq InGraph(graph) /\ InGraph(graph) \subseteq origModules \cup Full
  /\ roots \subseteq visited /\ visited \subseteq Full
  /\ Ids(queue) \subseteq visited /\ Ids(queue) \subseteq InGraph(graph) \cup Ids(pending)
  /\ Ids(pending) \subseteq Full /\ Ids(pending) \cap visited \subseteq Ids(queue)
  /\ \A m \in InGraph(graph) : Outdated(m) \/ graph[m].tree = files[m]
  /\ \A m \in visited \ Ids(queue) : m \in InGraph(graph) /\ graph[m].tree.imports \subseteq visited
  /\ step = "delete" => pc = "daemon" /\ Ids(queue) = {}
  /\ pc = "update" => removedSet = {}

\* While what is not imported any more is deleted.
GraphReduced ==
  /\ Full \subseteq InGraph(graph) /\ InGraph(graph) \subseteq Full \cup Ids(pending)
  /\ \A m \in Full : graph[m].tree = files[m]
  /\ Ids(pending) \cap Full = {} /\ (pc = "update" => Ids(pending) \subseteq removedSet)

GraphKnown ==
  /\ pc # "update" => Ids(pending) = {}
  /\ pc = "update" => Ids(pending) # {} \/ lastId # 0
  /\ pc = "idle" <=> step = "none"
  /\ \A m \in InGraph(graph) : graph[m].deps = graph[m].tree.imports
  /\ step = "none" => GraphAtRest
  /\ step \in {"follow", "delete"} => GraphFollowed
  /\ step = "finish" => GraphReduced

\* There is nothing left to do from an update that was blocked.
NothingBlocked ==
  stale = <<>> /\ blockingError = NoEntry /\ blocking = 0 /\ messages.blocker = 0 /\ pc # "crashed"

GraphInv == Steady /\ Typed(OwnFiles) /\ NothingBlocked /\ (pc # "endless" => GraphKnown)

LEMMA GraphInitially ==
  ASSUME UpdateInit, Steady
  PROVE  GraphInv
<1>1. FirstBuild /\ pc = "idle"
  BY DEF UpdateInit
<1>2. NoSyntaxErrors
  BY DEF Steady, NeverBlocked, NoSyntaxErrors
<1>3. Typed(OwnFiles)
  BY <1>2, StartsTyped DEF Suits
<1>4. /\ InGraph(graph) = Full
      /\ \A m \in InGraph(graph) : graph[m].tree = files[m] /\ graph[m].deps = files[m].imports \cap InGraph(graph)
  BY <1>1, FirstGraph DEF Full
<1>5. /\ lastSeen = [m \in Modules |-> IF m \in Full THEN files[m] ELSE Unwatched]
      /\ previousSources = Full /\ step = "none" /\ pending = <<>>
      /\ stale = <<>> /\ blockingError = NoEntry /\ blocking = 0
      /\ messages = [blocker |-> 0, errors |-> complaints]
  BY <1>1 DEF FirstBuild, Full
<1>6. Full \subseteq Modules /\ \A m \in Full : files[m].imports \subseteq Full
  BY <1>3, SteadyFiles DEF Typed, Full
<1>7. \A m \in InGraph(graph) : graph[m].deps = graph[m].tree.imports
  BY <1>4, <1>6
<1>8. GraphAtRest
  BY <1>4, <1>5, <1>6 DEF GraphAtRest
<1>9. Ids(pending) = {}
  BY <1>5 DEF Ids
<1>10. messages.blocker = 0
  BY <1>5
<1>11. QED
  BY <1>1, <1>3, <1>5, <1>7, <1>8, <1>9, <1>10 DEF GraphInv, GraphKnown, NothingBlocked

\* An update starts with what it is given, and nothing else.
LEMMA StartIs ==
  ASSUME Typed(OwnFiles), Suits(OwnFiles), NothingBlocked, Ids(pending) = {},
         NEW changed \in Seq(OwnFiles), NEW removed \in Seq(OwnFiles), StartUpdate(changed, removed)
  PROVE  /\ NothingBlocked'
         /\ UNCHANGED <<graph, deps, complaints, targetsWithErrors, previousModules, messages>>
         /\ Ids(pending') = Ids(changed) \cup Ids(removed)
         /\ pc' = IF Ids(changed) = {} /\ Ids(removed) = {} THEN "daemon" ELSE "update"
         /\ pc' = "update" => removedSet' = Ids(removed) /\ lastId' = 0
<1>1. /\ UNCHANGED <<graph, deps, complaints, targetsWithErrors, previousModules, messages, stale>>
      /\ Ids(changed) = {} /\ Ids(removed) = {} =>
           pc' = "daemon" /\ UNCHANGED <<blockingError, pending, initialSet, removedSet, blocking, lastId>>
      /\ ~(Ids(changed) = {} /\ Ids(removed) = {}) =>
           /\ pc' = "update"
           /\ Ids(pending') = Ids(changed) \cup Ids(removed) \cup Ids(stale)
                                \cup (IF blockingError = NoEntry THEN {} ELSE {blockingError.id})
           /\ removedSet' = Ids(removed) /\ blocking' = blockingError.id
           /\ blockingError' = NoEntry /\ lastId' = 0
  BY UpdateStarted DEF Typed, Listed
<1>2. Ids(stale) = {} /\ blockingError = NoEntry /\ NoEntry.id = 0
  BY DEF NothingBlocked, Ids, NoEntry
<1>3. QED
  BY <1>1, <1>2 DEF NothingBlocked

LEMMA GraphChecked ==
  ASSUME GraphInv, NEW R \in project.roots, NEW D \in Disks(project), CheckFiles(R, D)
  PROVE  NothingBlocked' /\ GraphKnown'
<1>1. /\ Typed(OwnFiles) /\ Suits(OwnFiles) /\ Steady /\ NothingBlocked /\ graph \in GraphType
      /\ \A n \in InGraph(graph) : Entry(n, graph[n].path) \in OwnFiles
  BY DEF GraphInv, Suits, Steady, NeverBlocked, NoSyntaxErrors, Typed, Listed
<1>2. /\ pc = "idle" /\ Ids(pending) = {} /\ GraphAtRest
      /\ \A m \in InGraph(graph) : graph[m].deps = graph[m].tree.imports
  BY DEF GraphInv, GraphKnown, CheckFiles
<1>3. PICK known : known = {m \in Modules : lastSeen[m] # Unwatched} \cup R
  OBVIOUS
<1>4. PICK changed : changed = {m \in known : D[m] # (IF lastSeen[m] = Unwatched THEN Absent ELSE lastSeen[m])}
  OBVIOUS
<1>5. PICK reached : reached = Reached(graph, R, R, changed)
  OBVIOUS
<1>6. PICK edited : edited = {m \in reached : PathOf(graph, m) \in changed}
  OBVIOUS
<1>7. PICK fresh : fresh = ExplicitlyNew(R, edited)
  OBVIOUS
<1>8. /\ files' = D /\ roots' = R /\ changedFiles' = changed /\ visited' = reached
      /\ origModules' = InGraph(graph) /\ step' = "follow"
  BY <1>3, <1>4, <1>5 DEF CheckFiles
<1>9. PICK s \in Entries(graph, edited), t \in Entries(graph, fresh) :
        queue' = s \o t /\ StartUpdate(s \o t, <<>>)
  BY <1>3, <1>4, <1>5, <1>6, <1>7 DEF CheckFiles, ExplicitlyNew
<1>10. PICK G, F : G = InGraph(graph) /\ F = FullModules(D, R)
  OBVIOUS
<1>11. /\ R \in SUBSET Modules /\ R \subseteq F /\ F \subseteq Modules
       /\ \A m \in F : D[m].imports \subseteq F
  BY <1>1, <1>10, SteadyFiles DEF Typed
<1>12. G \subseteq Modules /\ \A m \in G : graph[m].path = m
  BY <1>1, <1>10, OwnPaths
<1>13. \A m \in G : graph[m].tree = files[m] /\ lastSeen[m] = files[m] /\ graph[m].deps \subseteq G
  <2>1. \A m \in Full : files[m].imports \subseteq Full
    BY <1>1, SteadyFiles DEF Typed, Full
  <2>2. QED
    BY <1>2, <1>10, <2>1 DEF GraphAtRest
\* A module of the graph that has not changed has the contents it had.
<1>14. \A m \in G : m \notin changed => graph[m].tree = D[m]
  <2> TAKE m \in G
  <2>1. files[m] # Unwatched
    BY <1>1, <1>12, SteadyFiles, UpdateAssumption DEF Typed, UpdateBounds
  <2>2. QED
    BY <1>3, <1>4, <1>12, <1>13, <2>1
<1>15. /\ R \subseteq reached /\ reached \subseteq Modules
       /\ \A m \in reached \cap G : m \notin changed => graph[m].deps \ R \subseteq reached
       /\ \A M \in SUBSET Modules :
              R \subseteq M /\ (\A m \in M \cap G : m \notin changed => graph[m].deps \ R \subseteq M)
                => reached \subseteq M
  BY <1>1, <1>5, <1>10, <1>11, <1>12, ReachedAre
<1>16. reached \subseteq F /\ reached \subseteq G \cup R
  <2>1. reached \subseteq F
    <3>1. \A m \in F \cap G : m \notin changed => graph[m].deps \ R \subseteq F
      BY <1>2, <1>10, <1>11, <1>14
    <3>2. QED
      BY <1>11, <1>15, <3>1
  <2>2. reached \subseteq G \cup R
    <3>1. G \cup R \in SUBSET Modules
      BY <1>11, <1>12
    <3>2. \A m \in (G \cup R) \cap G : m \notin changed => graph[m].deps \ R \subseteq G \cup R
      BY <1>13
    <3>3. QED
      BY <1>15, <3>1, <3>2
  <2>3. QED
    BY <2>1, <2>2
<1>17. edited = {m \in reached : m \in changed} /\ fresh = (R \ G) \ edited
  BY <1>1, <1>2, <1>6, <1>7, <1>10, <1>15, OwnPaths DEF ExplicitlyNew, GraphAtRest
<1>18. edited \in SUBSET Modules /\ fresh \in SUBSET Modules
  BY <1>11, <1>15, <1>17
<1>19. /\ s \in Seq(OwnFiles) /\ Ids(s) = edited /\ t \in Seq(OwnFiles) /\ Ids(t) = fresh
       /\ <<>> \in Seq(OwnFiles) /\ Ids(<<>>) = {}
  <2>1. Ids(<<>>) = {}
    BY DEF Ids
  <2>2. QED
    BY <1>1, <1>9, <1>18, <2>1, EntriesAre, EmptySeq
<1>20. PICK l : l = s \o t
  OBVIOUS
<1>21. queue' = l /\ StartUpdate(l, <<>>) /\ l \in Seq(OwnFiles) /\ Ids(l) = edited \cup fresh
  BY <1>1, <1>9, <1>19, <1>20, Joined, SuitsAre
<1>22. PICK todo : todo = edited \cup fresh
  OBVIOUS
<1>23. /\ NothingBlocked' /\ graph' = graph /\ Ids(pending') = todo /\ Ids(queue') = todo
       /\ pc' = IF todo = {} THEN "daemon" ELSE "update"
       /\ pc' = "update" => removedSet' = {}
  BY <1>1, <1>2, <1>19, <1>21, <1>22, StartIs
<1>24. Full' = F
  BY <1>8, <1>10 DEF Full
<1>25. todo \subseteq reached /\ \A m \in reached \cap G : m \in changed => m \in todo
  BY <1>15, <1>17, <1>22
<1>26. \A m \in G : Outdated(m)' \/ graph'[m].tree = files'[m]
  BY <1>8, <1>10, <1>14, <1>23, <1>25 DEF Outdated
<1>27. \A m \in reached \ todo : m \in G /\ graph[m].tree.imports \subseteq reached
  <2> TAKE m \in reached \ todo
  <2>1. m \in G
    BY <1>16, <1>17, <1>22
  <2>2. m \notin changed
    BY <1>25, <2>1
  <2>3. QED
    BY <1>2, <1>10, <1>15, <2>1, <2>2
<1>28. GraphFollowed'
  <2>1. \A m \in InGraph(graph') : graph'[m].tree.imports \subseteq InGraph(graph') \cup Ids(pending')
    BY <1>2, <1>10, <1>13, <1>23
  <2>2. origModules' \subseteq InGraph(graph') /\ InGraph(graph') \subseteq origModules' \cup Full'
    BY <1>8, <1>23
  <2>3. roots' \subseteq visited' /\ visited' \subseteq Full'
    BY <1>8, <1>15, <1>16, <1>24
  <2>4. /\ Ids(queue') \subseteq visited' /\ Ids(queue') \subseteq InGraph(graph') \cup Ids(pending')
        /\ Ids(pending') \subseteq Full' /\ Ids(pending') \cap visited' \subseteq Ids(queue')
    BY <1>8, <1>16, <1>23, <1>24, <1>25
  <2>5. \A m \in visited' \ Ids(queue') : m \in InGraph(graph') /\ graph'[m].tree.imports \subseteq visited'
    BY <1>8, <1>10, <1>23, <1>27
  <2>6. (step' = "delete" => pc' = "daemon" /\ Ids(queue') = {}) /\ (pc' = "update" => removedSet' = {})
    BY <1>8, <1>23
  <2>7. QED
    BY <1>10, <1>23, <1>26, <2>1, <2>2, <2>3, <2>4, <2>5, <2>6 DEF GraphFollowed
<1>29. (IF pc' = "update" THEN Ids(pending') # {} ELSE Ids(pending') = {}) /\ pc' # "idle"
  BY <1>23
<1>30. QED
  BY <1>2, <1>8, <1>23, <1>28, <1>29 DEF GraphKnown

LEMMA GraphFollowedOn ==
  ASSUME GraphInv, FollowImports
  PROVE  NothingBlocked' /\ GraphKnown'
<1>1. /\ Typed(OwnFiles) /\ Suits(OwnFiles) /\ Steady /\ NothingBlocked /\ graph \in GraphType
      /\ \A n \in InGraph(graph) : Entry(n, graph[n].path) \in OwnFiles
  BY DEF GraphInv, Suits, Steady, NeverBlocked, NoSyntaxErrors, Typed, Listed
<1>2. /\ pc = "daemon" /\ step = "follow" /\ queue # <<>>
      /\ UNCHANGED <<files, roots, step, changedFiles, origModules>>
  BY DEF FollowImports, diskVars
<1>3. /\ Ids(pending) = {} /\ GraphFollowed
      /\ \A m \in InGraph(graph) : graph[m].deps = graph[m].tree.imports
  BY <1>2 DEF GraphInv, GraphKnown
<1>4. PICK m : m = Last(queue).id
  OBVIOUS
<1>5. Front(queue) \in Seq(OwnFiles) /\ Ids(queue) = Ids(Front(queue)) \cup {m}
  BY <1>1, <1>2, <1>4, ListIds, SuitsAre DEF Typed, Listed
<1>6. PICK G, F, Q, V : G = InGraph(graph) /\ F = Full /\ Q = Ids(queue) /\ V = visited
  OBVIOUS
<1>7. /\ \A n \in G : graph[n].tree.imports \subseteq G /\ graph[n].deps = graph[n].tree.imports
      /\ origModules \subseteq G /\ G \subseteq origModules \cup F
      /\ roots \subseteq V /\ V \subseteq F /\ Q \subseteq V /\ Q \subseteq G
      /\ \A n \in G : Outdated(n) \/ graph[n].tree = files[n]
      /\ \A n \in V \ Q : n \in G /\ graph[n].tree.imports \subseteq V
  BY <1>3, <1>6 DEF GraphFollowed
<1>8. G \subseteq Modules /\ \A n \in G : graph[n].path = n /\ PathOf(graph, n) = n /\ graph[n] # NotLoaded
  BY <1>1, <1>6, OwnPaths, InGraphAre, NotThere
<1>9. F \subseteq Modules /\ \A n \in F : files[n].imports \subseteq F
  BY <1>1, <1>6, SteadyFiles DEF Typed, Full
<1>10. m \in G /\ m \in V
  BY <1>5, <1>6, <1>7
<1>11. PICK S, before, changed : S = graph[m].deps \ visited /\ before = visited /\ changed = changedFiles
  OBVIOUS
<1>12. PICK reached : reached = Reached(graph, S, before, changed)
  OBVIOUS
<1>13. S \in SUBSET Modules /\ S \subseteq G
  BY <1>7, <1>8, <1>10, <1>11
<1>14. /\ S \subseteq reached /\ reached \subseteq Modules
       /\ \A n \in reached \cap G : n \notin changedFiles => graph[n].deps \ V \subseteq reached
       /\ \A M \in SUBSET Modules :
            S \subseteq M /\ (\A n \in M \cap G : n \notin changedFiles => graph[n].deps \ V \subseteq M) => reached \subseteq M
  <2>1. /\ S \subseteq reached /\ reached \subseteq Modules
        /\ \A n \in reached \cap InGraph(graph) : graph[n].path \notin changed => graph[n].deps \ before \subseteq reached
        /\ \A M \in SUBSET Modules :
             S \subseteq M
             /\ (\A n \in M \cap InGraph(graph) : graph[n].path \notin changed => graph[n].deps \ before \subseteq M)
               => reached \subseteq M
    BY <1>1, <1>12, <1>13, ReachedAre
  <2>2. InGraph(graph) = G /\ before = V /\ changed = changedFiles
    BY <1>6, <1>11
  <2>3. \A n \in G : graph[n].path \notin changed <=> n \notin changedFiles
    BY <1>8, <2>2
  <2>4. QED
    BY <2>1, <2>2, <2>3
<1>15. reached \subseteq G
  BY <1>7, <1>8, <1>13, <1>14
\* What was visited is up to date, and so is what has not changed.
<1>16. \A n \in G : n \in V \/ n \notin changedFiles => graph[n].tree = files[n]
  BY <1>3, <1>6, <1>7 DEF Outdated
<1>17. reached \subseteq F
  <2>1. S \subseteq F
    BY <1>7, <1>9, <1>10, <1>11, <1>16
  <2>2. \A n \in F \cap G : n \notin changedFiles => graph[n].deps \ V \subseteq F
    BY <1>7, <1>9, <1>16
  <2>3. QED
    BY <1>9, <1>14, <2>1, <2>2
<1>18. PICK C : C = {n \in reached : PathOf(graph, n) \in changedFiles}
  OBVIOUS
<1>19. /\ visited' = visited \cup reached
       /\ \E s \in Entries(graph, C) : queue' = Front(queue) \o s /\ StartUpdate(s, <<>>)
  <2>1. graph[m] # NotLoaded /\ graph[m].deps \cup reached \subseteq InGraph(graph)
    BY <1>6, <1>7, <1>8, <1>10, <1>15
  <2>2. QED
    BY <1>4, <1>11, <1>12, <1>18, <2>1 DEF FollowImports
<1>20. PICK s \in Entries(graph, C) : queue' = Front(queue) \o s /\ StartUpdate(s, <<>>)
  BY <1>19
<1>21. C = {n \in reached : n \in changedFiles} /\ C \in SUBSET Modules
  BY <1>8, <1>14, <1>15, <1>18
<1>22. /\ s \in Seq(OwnFiles) /\ Ids(s) = C /\ <<>> \in Seq(OwnFiles) /\ Ids(<<>>) = {}
  <2>1. Ids(<<>>) = {}
    BY DEF Ids
  <2>2. QED
    BY <1>1, <1>20, <1>21, <2>1, EntriesAre, EmptySeq
<1>23. Ids(queue') = Ids(Front(queue)) \cup C
  <2>1. PICK f : f = Front(queue)
    OBVIOUS
  <2>2. f \in Seq(OwnFiles) /\ queue' = f \o s
    BY <1>5, <1>20, <2>1
  <2>3. PICK l : l = f \o s
    OBVIOUS
  <2>4. Ids(l) = Ids(f) \cup C
    BY <1>1, <1>22, <2>2, <2>3, Joined, SuitsAre
  <2>5. QED
    BY <2>1, <2>2, <2>3, <2>4
<1>24. /\ NothingBlocked' /\ graph' = graph /\ Ids(pending') = C
       /\ pc' = IF C = {} THEN "daemon" ELSE "update"
       /\ pc' = "update" => removedSet' = {}
  BY <1>1, <1>3, <1>20, <1>22, StartIs
<1>25. Full' = F
  BY <1>2, <1>6 DEF Full
<1>26. \A n \in G : Outdated(n)' \/ graph[n].tree = files[n]
  <2> TAKE n \in G
  <2>1. CASE n \in origModules \cap changedFiles /\ ~(n \notin V \cup reached \/ n \in C)
    <3>1. n \in V
      BY <1>21, <2>1
    <3>2. QED
      BY <1>16, <3>1
  <2>2. CASE n \notin origModules \cap changedFiles
    BY <1>7, <2>2 DEF Outdated
  <2>3. CASE n \in origModules \cap changedFiles /\ (n \notin V \cup reached \/ n \in C)
    BY <1>2, <1>6, <1>19, <1>24, <2>3 DEF Outdated
  <2>4. QED
    BY <2>1, <2>2, <2>3
<1>27. \A n \in visited' \ Ids(queue') : n \in G /\ graph[n].tree.imports \subseteq visited'
  <2> TAKE n \in visited' \ Ids(queue')
  <2>1. CASE n \in V \ Q
    BY <1>6, <1>7, <1>19, <2>1
  <2>2. CASE n \in V /\ n \in Q
    <3>1. n = m
      BY <1>5, <1>6, <1>23, <2>2
    <3>2. QED
      BY <1>6, <1>7, <1>10, <1>11, <1>14, <1>19, <3>1
  <2>3. CASE n \notin V
    <3>1. n \in reached /\ n \notin changedFiles /\ n \in G
      BY <1>6, <1>15, <1>19, <1>21, <1>23, <2>3
    <3>2. QED
      BY <1>6, <1>7, <1>14, <1>19, <3>1
  <2>4. QED
    BY <2>1, <2>2, <2>3
<1>28. GraphFollowed'
  <2>1. \A n \in InGraph(graph') : graph'[n].tree.imports \subseteq InGraph(graph') \cup Ids(pending')
    BY <1>6, <1>7, <1>24
  <2>2. origModules' \subseteq InGraph(graph') /\ InGraph(graph') \subseteq origModules' \cup Full'
    BY <1>2, <1>6, <1>7, <1>24, <1>25
  <2>3. roots' \subseteq visited' /\ visited' \subseteq Full'
    BY <1>2, <1>6, <1>7, <1>17, <1>19, <1>25
  <2>4. /\ Ids(queue') \subseteq visited' /\ Ids(queue') \subseteq InGraph(graph') \cup Ids(pending')
        /\ Ids(pending') \subseteq Full' /\ Ids(pending') \cap visited' \subseteq Ids(queue')
    BY <1>5, <1>6, <1>7, <1>17, <1>19, <1>21, <1>23, <1>24, <1>25
  <2>5. \A n \in visited' \ Ids(queue') : n \in InGraph(graph') /\ graph'[n].tree.imports \subseteq visited'
    BY <1>6, <1>24, <1>27
  <2>6. (step' = "delete" => pc' = "daemon" /\ Ids(queue') = {}) /\ (pc' = "update" => removedSet' = {})
    BY <1>2, <1>24
  <2>7. \A n \in InGraph(graph') : Outdated(n)' \/ graph'[n].tree = files'[n]
    BY <1>2, <1>6, <1>24, <1>26
  <2>8. QED
    BY <2>1, <2>2, <2>3, <2>4, <2>5, <2>6, <2>7 DEF GraphFollowed
<1>29. (IF pc' = "update" THEN Ids(pending') # {} ELSE Ids(pending') = {}) /\ pc' # "idle"
  BY <1>24
<1>30. QED
  BY <1>2, <1>3, <1>24, <1>28, <1>29 DEF GraphKnown

\* No import is missing.
LEMMA NothingSuppressed ==
  ASSUME GraphInv, AddSuppressed
  PROVE  NothingBlocked' /\ GraphKnown' /\ graph' = graph /\ pc' = "daemon" /\ UNCHANGED <<deps, messages, pending>>
<1>1. /\ Typed(OwnFiles) /\ Suits(OwnFiles) /\ NothingBlocked /\ graph \in GraphType
      /\ \A n \in InGraph(graph) : Entry(n, graph[n].path) \in OwnFiles
  BY DEF GraphInv, Suits, Steady, NeverBlocked, NoSyntaxErrors, Typed, Listed
<1>2. pc = "daemon" /\ step = "follow" /\ queue = <<>>
  BY DEF AddSuppressed
<1>3. /\ Ids(pending) = {} /\ GraphFollowed
      /\ \A m \in InGraph(graph) : graph[m].deps = graph[m].tree.imports
  BY <1>2 DEF GraphInv, GraphKnown
<1>4. Unsuppressed = {}
  BY <1>3 DEF Unsuppressed
<1>5. visited' = visited /\ step' = "delete" /\ UNCHANGED <<files, roots, changedFiles, queue, origModules>>
  BY <1>4 DEF AddSuppressed, diskVars
<1>6. PICK S : S = Unsuppressed
  OBVIOUS
<1>7. PICK s \in Entries(graph, S) : StartUpdate(s, <<>>)
  BY <1>6 DEF AddSuppressed
<1>8. s \in Seq(OwnFiles) /\ Ids(s) = {} /\ <<>> \in Seq(OwnFiles) /\ Ids(<<>>) = {}
  <2>1. S \in SUBSET Modules /\ S = {}
    BY <1>4, <1>6
  <2>2. Ids(<<>>) = {}
    BY DEF Ids
  <2>3. QED
    BY <1>1, <1>7, <2>1, <2>2, EntriesAre, EmptySeq
<1>9. /\ NothingBlocked' /\ graph' = graph /\ Ids(pending') = {} /\ pc' = "daemon" /\ UNCHANGED <<deps, messages>>
  BY <1>1, <1>3, <1>7, <1>8, StartIs
<1>10. pending' = pending
  <2>1. s = <<>>
    BY <1>1, <1>8, ListIds, SuitsAre
  <2>2. QED
    BY <1>7, <2>1 DEF StartUpdate, localVars
<1>11. Ids(queue) = {}
  BY <1>2 DEF Ids
<1>12. GraphFollowed'
  BY <1>3, <1>5, <1>9, <1>10, <1>11 DEF GraphFollowed, Outdated, Full
<1>13. QED
  BY <1>3, <1>5, <1>9, <1>10, <1>12 DEF GraphKnown

LEMMA GraphReducedTo ==
  ASSUME GraphInv, DeleteUnreached
  PROVE  NothingBlocked' /\ GraphKnown'
<1>1. /\ Typed(OwnFiles) /\ Suits(OwnFiles) /\ NothingBlocked /\ Steady /\ graph \in GraphType
      /\ \A n \in InGraph(graph) : Entry(n, graph[n].path) \in OwnFiles
  BY DEF GraphInv, Suits, Steady, NeverBlocked, NoSyntaxErrors, Typed, Listed
<1>2. pc = "daemon" /\ step = "delete" /\ step' = "finish" /\ UNCHANGED <<files, roots>>
  BY DEF DeleteUnreached, diskVars
<1>3. /\ Ids(pending) = {} /\ GraphFollowed
      /\ \A m \in InGraph(graph) : graph[m].deps = graph[m].tree.imports
  BY <1>2 DEF GraphInv, GraphKnown
<1>4. PICK G, F : G = InGraph(graph) /\ F = Full
  OBVIOUS
<1>5. /\ origModules \subseteq G /\ G \subseteq origModules \cup F /\ roots \subseteq visited /\ visited \subseteq F
      /\ \A m \in visited : m \in G /\ graph[m].tree.imports \subseteq visited /\ graph[m].tree = files[m]
  BY <1>2, <1>3, <1>4 DEF GraphFollowed, Outdated
<1>6. visited = F /\ F \subseteq Modules
  <2>1. /\ F \subseteq Modules
        /\ \A M \in SUBSET Modules : roots \subseteq M /\ (\A m \in M : files[m].imports \subseteq M) => F \subseteq M
    BY <1>1, <1>4, SteadyFiles DEF Typed, Full
  <2>2. visited \in SUBSET Modules /\ roots \subseteq visited /\ \A m \in visited : files[m].imports \subseteq visited
    BY <1>5, <2>1
  <2>3. QED
    BY <1>5, <2>1, <2>2
<1>7. PICK S : S = (origModules \cap InGraph(graph)) \ visited
  OBVIOUS
<1>8. PICK s \in Entries(graph, S) : StartUpdate(<<>>, s)
  BY <1>7 DEF DeleteUnreached
<1>9. S \in SUBSET Modules
  BY <1>1, <1>7 DEF Typed
<1>10. s \in Seq(OwnFiles) /\ Ids(s) = S /\ <<>> \in Seq(OwnFiles) /\ Ids(<<>>) = {}
  <2>1. Ids(<<>>) = {}
    BY DEF Ids
  <2>2. QED
    BY <1>1, <1>8, <1>9, <2>1, EntriesAre, EmptySeq
<1>11. /\ NothingBlocked' /\ graph' = graph /\ Ids(pending') = S
       /\ pc' = IF S = {} THEN "daemon" ELSE "update"
       /\ pc' = "update" => removedSet' = S
  BY <1>1, <1>3, <1>8, <1>10, StartIs
<1>12. Full' = F
  BY <1>2, <1>4 DEF Full
<1>13. GraphReduced'
  <2>1. Full' \subseteq InGraph(graph') /\ InGraph(graph') \subseteq Full' \cup Ids(pending')
    BY <1>4, <1>5, <1>6, <1>7, <1>11, <1>12
  <2>2. \A m \in Full' : graph'[m].tree = files'[m]
    BY <1>2, <1>5, <1>6, <1>11, <1>12
  <2>3. Ids(pending') \cap Full' = {} /\ (pc' = "update" => Ids(pending') \subseteq removedSet')
    BY <1>6, <1>7, <1>11, <1>12
  <2>4. QED
    BY <2>1, <2>2, <2>3 DEF GraphReduced
<1>14. (IF pc' = "update" THEN Ids(pending') # {} ELSE Ids(pending') = {}) /\ pc' # "idle"
  BY <1>11
<1>15. QED
  BY <1>2, <1>3, <1>11, <1>13, <1>14 DEF GraphKnown

LEMMA GraphRests ==
  ASSUME GraphInv, FinishIncrement
  PROVE  NothingBlocked' /\ GraphKnown'
<1>1. Typed(OwnFiles) /\ Steady /\ NothingBlocked /\ graph \in GraphType
  BY DEF GraphInv, Typed
<1>2. /\ pc = "daemon" /\ step = "finish" /\ pc' = "idle" /\ step' = "none" /\ pending' = <<>> /\ blocking' = 0
      /\ previousSources' = InGraph(graph)
      /\ lastSeen' = [m \in Modules |->
                  IF lastSeen[m] # Unwatched \/ \E n \in InGraph(graph) : graph[n].path = m
                  THEN files[m] ELSE Unwatched]
      /\ UNCHANGED <<files, roots, messages, blockingError, stale>>
  BY DEF FinishIncrement, diskVars
<1>3. Ids(pending) = {} /\ GraphReduced
  BY <1>2 DEF GraphInv, GraphKnown
<1>4. InGraph(graph) = Full /\ \A m \in InGraph(graph) : graph[m].tree = files[m]
  BY <1>3 DEF GraphReduced
<1>5. PICK g, h : /\ g = graph
                  /\ h = [m \in Modules |-> IF g[m] = NotLoaded THEN NotLoaded
                                            ELSE [g[m] EXCEPT !.deps = g[m].tree.imports \cap InGraph(g)]]
  OBVIOUS
<1>6. graph' = h
  BY <1>5 DEF FinishIncrement
<1>7. /\ InGraph(h) = InGraph(g)
      /\ \A m \in InGraph(g) : h[m].tree = g[m].tree /\ h[m].deps = g[m].tree.imports \cap InGraph(g)
  BY <1>1, <1>5, DepsFixed
<1>14. PICK F : F = Full
  OBVIOUS
<1>8. F \subseteq Modules /\ \A m \in F : files[m].imports \subseteq F
  BY <1>1, <1>14, SteadyFiles DEF Typed, Full
<1>15. InGraph(g) = F /\ \A m \in F : g[m].tree = files[m]
  BY <1>4, <1>5, <1>14
<1>16. /\ InGraph(h) = F
       /\ \A m \in InGraph(h) : h[m].tree = files[m] /\ h[m].deps = h[m].tree.imports
  BY <1>7, <1>8, <1>15
<1>9. /\ InGraph(graph') = Full
      /\ \A m \in InGraph(graph') : graph'[m].tree = files[m] /\ graph'[m].deps = graph'[m].tree.imports
  BY <1>6, <1>14, <1>16
<1>10. \A m \in InGraph(graph) : lastSeen'[m] = files[m]
  BY <1>1, <1>2, OwnPaths
<1>11. GraphAtRest'
  BY <1>2, <1>4, <1>9, <1>10 DEF GraphAtRest, Full
<1>12. Ids(pending') = {}
  BY <1>2 DEF Ids
<1>13. QED
  BY <1>1, <1>2, <1>9, <1>11, <1>12 DEF GraphKnown, NothingBlocked

(***************************************************************************)
(* What update() does, when all files are there and have no blocking error.*)
(***************************************************************************)
LEMMA SteadyIs ==
  ASSUME Steady, Typed(OwnFiles)
  PROVE  /\ NoSyntaxErrors /\ Suits(OwnFiles) /\ graph \in GraphType
         /\ \A n \in Modules : /\ files[n] \in Contents /\ files[n] # Absent /\ files[n].bad = "no"
                               /\ files[n].imports \subseteq Modules /\ n \notin files[n].imports
         /\ Present
<1>1. NoSyntaxErrors /\ Present
  BY DEF Steady, NeverBlocked, NoSyntaxErrors, Present
<1>2. QED
  BY <1>1, SteadyFiles DEF Suits, Typed

LEMMA PresentIs ==
  ASSUME Present, Typed(OwnFiles)
  PROVE  /\ NoSyntaxErrors /\ Suits(OwnFiles) /\ graph \in GraphType
         /\ \A n \in Modules : /\ files[n] \in Contents /\ files[n] # Absent /\ files[n].bad # "parse"
                               /\ files[n].imports \subseteq Modules /\ n \notin files[n].imports
BY PresentFiles DEF Present, Suits, Typed

\* x, one of the new modules that m brings in, is in h and everything else as it was.
Processed(m, x, new, h) ==
  /\ pc = "update" /\ m \in Modules \ removedSet /\ m \in Ids(pending)
  /\ new \in SUBSET Modules /\ m \in new /\ new \cap InGraph(graph) \subseteq {m} /\ x \in new
  /\ \A n \in new : files[n].imports \subseteq InGraph(graph) \cup new
  /\ \A M \in SUBSET Modules : m \in M /\ (\A n \in M : files[n].imports \subseteq M) => new \subseteq M
  /\ h \in GraphType /\ InGraph(h) = InGraph(graph) \cup {x}
  /\ h[x].tree = files[x] /\ h[x].deps = files[x].imports /\ files[x].bad = "no"
  /\ \A n \in InGraph(graph) \ {x} :
       /\ h[n].tree = graph[n].tree /\ h[n].iface = graph[n].iface
       /\ graph[n].deps \subseteq h[n].deps /\ h[n].deps \subseteq graph[n].deps \cup graph[n].tree.imports

\* What x sees, and what is seen of it.
Analysed(x, h, e, triggered) ==
  /\ h[x].iface = Interface(files[x], Lookup(files, h))
  /\ e = [NoErrors EXCEPT ![x] = Complaints(files[x], Lookup(files, h))] /\ e \in ErrorsType
  /\ triggered = IF x \notin InGraph(graph) \/ graph[x].iface # h[x].iface THEN {x} ELSE {}

\* No module sees itself.
LEMMA SeesOthers ==
  ASSUME NEW q \in Projects, NEW D \in Disks(q), NEW x \in Modules, D[x] # Absent,
         NEW a, NEW b, \A i \in Modules \ {x} : a[i] = b[i]
  PROVE  Interface(D[x], a) = Interface(D[x], b) /\ Complaints(D[x], a) = Complaints(D[x], b)
<1>1. D[x].imports \subseteq Modules \ {x} /\ D[x].reexports \subseteq D[x].imports
  BY OnDisk
<1>2. D[x].reexports # {} => (CHOOSE i \in D[x].reexports : TRUE) \in D[x].reexports
  OBVIOUS
<1>3. \A i \in D[x].imports : a[i] = b[i]
  BY <1>1
<1>4. QED
  BY <1>1, <1>2, <1>3 DEF Interface, Complaints

LEMMA ProcessedIs ==
  ASSUME Present, Typed(OwnFiles), NEW m, NEW p, ProcessModule(m, p)
  PROVE  \E x, new, h, e, triggered, rest :
           /\ Processed(m, x, new, h) /\ Analysed(x, h, e, triggered)
           /\ Propagated(x, h, e, triggered, rest)
           /\ Ids(pending') = (Ids(pending) \cup new) \ {x}
           /\ deps' = [i \in Modules |-> IF i \in files[x].imports THEN deps[i] \cup {x} ELSE deps[i]]
           /\ UNCHANGED <<diskVars, serverVars>>
<1>1. /\ NoSyntaxErrors /\ Suits(OwnFiles) /\ graph \in GraphType
      /\ \A n \in Modules : /\ files[n] \in Contents /\ files[n] # Absent /\ files[n].bad # "parse"
                            /\ files[n].imports \subseteq Modules /\ n \notin files[n].imports
  BY PresentIs
<1>2. PICK x, v, g, look, face, h, e, triggered :
        /\ Chosen(m, p, x, v, g, look, face, h, e, triggered)
        /\ CanLoad(m, p) /\ v.bad = "no" /\ UNCHANGED <<diskVars, serverVars>>
        /\ deps' = [i \in Modules |-> IF i \in v.imports THEN deps[i] \cup {x} ELSE deps[i]]
        /\ \E rest \in Remaining(m, p) : Propagated(x, h, e, triggered, rest)
  BY ProcessIs
<1>3. /\ x = Leaf(m, p) /\ v = Sources(m, p)[x] /\ g = LoadedGraph(m, p) /\ look = Lookup(files, g)
      /\ face = Interface(v, look) /\ e = [NoErrors EXCEPT ![x] = Complaints(v, look)]
      /\ h = [g EXCEPT ![x].iface = face]
      /\ triggered = IF graph[x] = NotLoaded \/ graph[x].iface # face THEN {x} ELSE {}
  BY <1>2 DEF Chosen
<1>4. PICK rest \in Remaining(m, p) : Propagated(x, h, e, triggered, rest)
  BY <1>2
<1>5. /\ p = m /\ m \in Modules \ removedSet /\ pc = "update" /\ pending # <<>> /\ Entry(m, p) \in OwnFiles
      /\ Ids(pending) = {m} \cup Ids(Tail(pending))
  BY <1>1, <1>2, AllLoadable, CanLoadIs
<1>6. PICK new, there : new = NewModules(m, p) /\ there = (InGraph(graph) \ {m}) \cup new
  OBVIOUS
<1>7. \A n \in Modules : Sources(m, p)[n] = files[n]
  <2>1. files \in [Modules -> Contents \cup {Absent}]
    BY OnDisk DEF Typed
  <2>2. QED
    BY <1>5, <2>1 DEF Sources
<1>8. /\ m \in new /\ new \in SUBSET Modules /\ new \cap InGraph(graph) \subseteq {m} /\ x \in new /\ x \in Modules
      /\ \A n \in new : files[n].imports \subseteq InGraph(graph) \cup new
      /\ \A M \in SUBSET Modules : m \in M /\ (\A n \in M : files[n].imports \subseteq M) => new \subseteq M
  <2>1. files[p] # Absent /\ p \in Modules
    BY <1>1, <1>5
  <2>2. /\ m \in new /\ new \in SUBSET Modules /\ new \cap InGraph(graph) \subseteq {m}
        /\ \A n \in new : Sources(m, p)[n].bad # "parse" =>
              \A i \in Sources(m, p)[n].imports : files[i] # Absent => i \in InGraph(graph) \cup new
        /\ \A M \in SUBSET Modules :
              m \in M /\ (\A n \in M : Sources(m, p)[n] # Absent =>
                            \A i \in Sources(m, p)[n].imports : files[i] # Absent => i \in M)
                => new \subseteq M
    BY <1>5, <1>6, <2>1, NewAre DEF Typed
  <2>3. x \in new
    BY <1>3, <1>6, <2>2, LeafIs
  <2>4. \A n \in new : files[n].imports \subseteq InGraph(graph) \cup new
    <3> TAKE n \in new
    <3>1. Sources(m, p)[n] = files[n] /\ files[n].bad # "parse" /\ files[n].imports \subseteq Modules
      BY <1>1, <1>7, <2>2
    <3>2. QED
      BY <1>1, <2>2, <3>1
  <2>5. ASSUME NEW M \in SUBSET Modules, m \in M, \A n \in M : files[n].imports \subseteq M
        PROVE  new \subseteq M
    BY <1>7, <2>2, <2>5
  <2>6. QED
    BY <2>2, <2>3, <2>4, <2>5
<1>9. v = files[x] /\ v \in Contents
  BY <1>1, <1>3, <1>7, <1>8
<1>10. /\ g \in GraphType /\ InGraph(g) = InGraph(graph) \cup {x}
       /\ g[x] = [path |-> IF x = m THEN p ELSE x, tree |-> v, deps |-> v.imports \cap there, iface |-> 0]
       /\ \A n \in InGraph(graph) \ {x} :
            /\ g[n].path = graph[n].path /\ g[n].tree = graph[n].tree /\ g[n].iface = graph[n].iface
            /\ graph[n].deps \subseteq g[n].deps /\ g[n].deps \subseteq graph[n].deps \cup graph[n].tree.imports
  <2>1. LoadedIs(OwnFiles, m, p, x, g)
    BY <1>1, <1>2, <1>3, ChosenIs
  <2>2. QED
    BY <1>3, <1>6, <2>1 DEF LoadedIs
<1>11. v.imports \cap there = v.imports
  BY <1>6, <1>8, <1>9
<1>12. look \in Faces(g) /\ look \in LookType
  BY <1>3, <1>10, LooksAre DEF Faces
<1>13. face \in {0, 1} /\ Complaints(v, look) \in SUBSET Modules
  BY <1>3, <1>9, <1>12, Interfaces
<1>14. /\ h \in GraphType /\ InGraph(h) = InGraph(g) /\ h[x].tree = v /\ h[x].deps = v.imports /\ h[x].iface = face
       /\ \A n \in InGraph(g) \ {x} : h[n] = g[n]
  <2>1. PICK l : l = [g[x] EXCEPT !.iface = face]
    OBVIOUS
  <2>2. g[x] \in Loaded /\ x \in InGraph(g)
    BY <1>8, <1>10, InGraphAre
  <2>3. l \in Loaded /\ l.tree = g[x].tree /\ l.deps = g[x].deps /\ l.iface = face
    BY <1>13, <2>1, <2>2 DEF Loaded
  <2>4. h = Put(g, x, l)
    BY <1>3, <2>1 DEF Put
  <2>5. /\ h \in GraphType /\ InGraph(h) = InGraph(g) \cup {x} /\ h[x] = l
        /\ \A n \in InGraph(g) \ {x} : h[n] = g[n]
    BY <1>8, <1>10, <2>3, <2>4, PutBack
  <2>6. g[x].tree = v /\ g[x].deps = v.imports
    BY <1>10, <1>11
  <2>7. QED
    BY <2>2, <2>3, <2>5, <2>6
<1>15. Processed(m, x, new, h)
  BY <1>2, <1>5, <1>8, <1>9, <1>10, <1>14 DEF Processed
<1>16. Analysed(x, h, e, triggered)
  <2>1. PICK seen : seen = Lookup(files, h)
    OBVIOUS
  <2>2. \A i \in Modules \ {x} : look[i] = seen[i]
    <3>1. PICK D : D = files
      OBVIOUS
    <3>5. look = Lookup(D, g) /\ seen = Lookup(D, h) /\ g \in GraphType /\ h \in GraphType
      BY <1>3, <1>10, <1>14, <2>1, <3>1
    <3>2. /\ \A i \in InGraph(g) : look[i] = g[i].iface
          /\ \A i \in Modules \ InGraph(g) : look[i] = IF D[i] = Absent THEN Missing ELSE 0
      BY <3>5, LooksAre
    <3>3. /\ \A i \in InGraph(h) : seen[i] = h[i].iface
          /\ \A i \in Modules \ InGraph(h) : seen[i] = IF D[i] = Absent THEN Missing ELSE 0
      BY <3>5, LooksAre
    <3>4. QED
      BY <1>14, <3>2, <3>3
  <2>3. Interface(v, look) = Interface(v, seen) /\ Complaints(v, look) = Complaints(v, seen)
    BY <1>1, <1>8, <1>9, <2>2, SeesOthers DEF Typed
  <2>4. x \notin InGraph(graph) <=> graph[x] = NotLoaded
    BY <1>1, <1>8, InGraphAre
  <2>5. e \in ErrorsType
    BY <1>3, <1>8, <1>13, NoErrorsType DEF ErrorsType
  <2>6. QED
    BY <1>3, <1>9, <1>14, <2>1, <2>3, <2>4, <2>5 DEF Analysed
<1>17. Ids(pending') = (Ids(pending) \cup new) \ {x}
  <2>1. rest \in Seq(OwnFiles) /\ Ids(rest) = new \ {x}
    BY <1>1, <1>3, <1>5, <1>6, <1>8, RemainingAre
  <2>2. pending' = Dedupe(rest \o Without(Tail(pending), x))
    BY <1>4 DEF Propagated
  <2>3. Ids(pending') = Ids(rest) \cup (Ids(Tail(pending)) \ {x})
    BY <1>1, <1>5, <2>1, <2>2, RestIs DEF Typed, Listed
  <2>4. QED
    BY <1>5, <1>8, <2>1, <2>3
<1>18. deps' = [i \in Modules |-> IF i \in files[x].imports THEN deps[i] \cup {x} ELSE deps[i]]
  BY <1>2, <1>9
<1>19. QED
  BY <1>2, <1>4, <1>15, <1>16, <1>17, <1>18

(***************************************************************************)
(* The graph stays as it should be.                                        *)
(***************************************************************************)
LEMMA UpdateStep ==
  ASSUME GraphInv, pc = "update"
  PROVE  /\ step \in {"follow", "finish"} /\ GraphKnown
         /\ step = "follow" => GraphFollowed /\ removedSet = {}
         /\ step = "finish" => GraphReduced /\ Ids(pending) \subseteq removedSet
BY DEF GraphInv, GraphKnown, GraphFollowed, GraphReduced, Typed

LEMMA GraphFinished ==
  ASSUME GraphInv, FinishUpdate
  PROVE  NothingBlocked' /\ GraphKnown' /\ InGraph(graph') = InGraph(graph)
<1>1. pc = "update" /\ pending = <<>> /\ UNCHANGED <<diskVars, serverVars, blockingError, stale, localVars>>
  BY DEF FinishUpdate
<1>2. /\ UNCHANGED <<files, roots, step, changedFiles, queue, visited, origModules, blockingError, stale,
                     pending, removedSet, blocking>>
      /\ Ids(pending) = {}
  BY <1>1 DEF diskVars, serverVars, localVars, Ids
<1>3. /\ graph' \in GraphType /\ SameModules(graph', graph) /\ pc' \in {"daemon", "endless"}
      /\ messages'.blocker = 0
  BY FinishedTyped DEF GraphInv, Typed
<1>4. /\ step \in {"follow", "finish"} /\ GraphKnown
      /\ step = "follow" => GraphFollowed /\ removedSet = {}
      /\ step = "finish" => GraphReduced
  BY <1>1, UpdateStep
<1>5. NothingBlocked'
  BY <1>2, <1>3 DEF GraphInv, NothingBlocked
<1>6. /\ InGraph(graph') = InGraph(graph)
      /\ \A n \in InGraph(graph) : graph'[n].tree = graph[n].tree /\ graph'[n].deps = graph[n].deps
  BY <1>3 DEF SameModules
<1>7. PICK F : F = Full
  OBVIOUS
<1>8. Full' = F
  BY <1>2, <1>7 DEF Full
<1>9. ASSUME step = "follow" PROVE GraphFollowed'
  BY <1>2, <1>3, <1>4, <1>6, <1>7, <1>8, <1>9 DEF GraphFollowed, Outdated
<1>10. ASSUME step = "finish" PROVE GraphReduced'
  <2>1. /\ F \subseteq InGraph(graph) /\ InGraph(graph) \subseteq F /\ \A n \in F : graph[n].tree = files[n]
    BY <1>2, <1>4, <1>7, <1>10 DEF GraphReduced
  <2>2. \A n \in F : graph'[n].tree = files'[n]
    BY <1>2, <1>6, <2>1
  <2>3. QED
    BY <1>2, <1>3, <1>6, <1>8, <2>1, <2>2 DEF GraphReduced
<1>11. \A n \in InGraph(graph') : graph'[n].deps = graph'[n].tree.imports
  BY <1>4, <1>6 DEF GraphKnown
<1>12. step' = step /\ pc' # "update" /\ pc' # "idle"
  BY <1>2, <1>3
<1>13. GraphKnown'
  BY <1>2, <1>4, <1>9, <1>10, <1>11, <1>12 DEF GraphKnown
<1>14. QED
  BY <1>5, <1>6, <1>13

LEMMA GraphDeleted ==
  ASSUME GraphInv, NEW m, NEW p, DeleteModule(m, p)
  PROVE  NothingBlocked' /\ (pc' # "endless" => GraphKnown') /\ InGraph(graph') \subseteq InGraph(graph)
<1>1. /\ Steady /\ Typed(OwnFiles) /\ NoSyntaxErrors /\ Suits(OwnFiles) /\ graph \in GraphType
      /\ \A n \in Modules : files[n] # Absent
  BY SteadyIs DEF GraphInv
<1>2. /\ IsNext(m, p) /\ (files[p] = Absent \/ m \in removedSet)
      /\ UNCHANGED <<diskVars, serverVars>>
  BY DEF DeleteModule
<1>3. /\ pc = "update" /\ pending # <<>> /\ m \in Modules /\ p \in Modules
      /\ Ids(pending) = {m} \cup Ids(Tail(pending))
  BY <1>1, <1>2, NextIs DEF Typed, Listed
<1>4. m \in removedSet
  BY <1>1, <1>2, <1>3
<1>5. step = "finish" /\ GraphKnown /\ GraphReduced /\ Ids(pending) \subseteq removedSet
  BY <1>3, <1>4, UpdateStep
<1>6. PICK g : g = Put(graph, m, NotLoaded)
  OBVIOUS
<1>7. deps' = deps /\ Propagated(m, g, NoErrors, {m}, <<>>)
  BY <1>6 DEF DeleteModule, Propagated, Put
<1>8. g \in GraphType /\ InGraph(g) = InGraph(graph) \ {m} /\ \A n \in InGraph(g) : g[n] = graph[n]
  BY <1>1, <1>3, <1>6, Dropped
<1>9. graph' \in GraphType /\ SameModules(graph', g) /\ pc' \in {pc, "endless"}
  BY <1>1, <1>3, <1>7, <1>8, PropagatedTyped, NoErrorsType DEF Typed
<1>10. /\ UNCHANGED <<messages, blockingError, stale, removedSet, blocking>>
       /\ pending' = Dedupe(<<>> \o Without(Tail(pending), m)) /\ lastId' = m /\ m # 0
  BY <1>3, <1>7, ModulesAre, Zenon DEF Propagated
<1>11. Ids(pending') = Ids(pending) \ {m}
  <2>1. PICK none : none = <<>>
    OBVIOUS
  <2>2. none \in Seq(OwnFiles) /\ Ids(none) = {} /\ pending' = Dedupe(none \o Without(Tail(pending), m))
    BY <1>10, <2>1, EmptySeq DEF Ids
  <2>3. Ids(pending') = Ids(none) \cup (Ids(Tail(pending)) \ {m})
    BY <1>1, <1>3, <2>2, RestIs DEF Typed, Listed
  <2>4. QED
    BY <1>3, <2>2, <2>3
<1>12. UNCHANGED <<files, roots, step>>
  BY <1>2 DEF diskVars, serverVars
<1>13. PICK F : F = Full
  OBVIOUS
<1>14. Full' = F
  BY <1>12, <1>13 DEF Full
<1>15. /\ F \subseteq InGraph(graph) /\ InGraph(graph) \subseteq F \cup Ids(pending)
       /\ \A n \in F : graph[n].tree = files[n]
       /\ m \notin F /\ Ids(pending) \cap F = {}
  BY <1>3, <1>5, <1>13 DEF GraphReduced
<1>16. /\ InGraph(graph') = InGraph(graph) \ {m}
       /\ \A n \in InGraph(graph') : graph'[n].tree = graph[n].tree /\ graph'[n].deps = graph[n].deps
  BY <1>8, <1>9 DEF SameModules
<1>17. GraphReduced'
  <2>1. Full' \subseteq InGraph(graph') /\ InGraph(graph') \subseteq Full' \cup Ids(pending')
    BY <1>11, <1>14, <1>15, <1>16
  <2>2. \A n \in F : graph'[n].tree = files'[n]
    BY <1>12, <1>15, <1>16
  <2>3. Ids(pending') \cap F = {} /\ Ids(pending') \subseteq removedSet'
    BY <1>5, <1>10, <1>11, <1>15
  <2>4. QED
    BY <1>14, <2>1, <2>2, <2>3 DEF GraphReduced
<1>18. \A n \in InGraph(graph') : graph'[n].deps = graph'[n].tree.imports
  BY <1>5, <1>16 DEF GraphKnown
<1>19. NothingBlocked'
  BY <1>3, <1>9, <1>10 DEF GraphInv, NothingBlocked
<1>20. pc' # "endless" => GraphKnown'
  BY <1>3, <1>5, <1>9, <1>10, <1>12, <1>17, <1>18 DEF GraphKnown
<1>21. QED
  BY <1>16, <1>19, <1>20

LEMMA GraphProcessed ==
  ASSUME GraphInv, NEW m, NEW p, ProcessModule(m, p)
  PROVE  NothingBlocked' /\ (pc' # "endless" => GraphKnown') /\ InGraph(graph') \ InGraph(graph) \subseteq Full
<1>1. /\ Steady /\ Present /\ Typed(OwnFiles) /\ Suits(OwnFiles) /\ graph \in GraphType
      /\ \A n \in Modules : files[n].imports \subseteq Modules
  BY SteadyIs DEF GraphInv
<1>2. PICK x, new, h, e, triggered, rest :
        /\ Processed(m, x, new, h) /\ Analysed(x, h, e, triggered)
        /\ Propagated(x, h, e, triggered, rest)
        /\ Ids(pending') = (Ids(pending) \cup new) \ {x}
        /\ deps' = [i \in Modules |-> IF i \in files[x].imports THEN deps[i] \cup {x} ELSE deps[i]]
        /\ UNCHANGED <<diskVars, serverVars>>
  BY <1>1, ProcessedIs
<1>3. /\ pc = "update" /\ m \in Modules \ removedSet /\ m \in Ids(pending)
      /\ new \in SUBSET Modules /\ m \in new /\ new \cap InGraph(graph) \subseteq {m} /\ x \in new
      /\ \A n \in new : files[n].imports \subseteq InGraph(graph) \cup new
      /\ \A M \in SUBSET Modules : m \in M /\ (\A n \in M : files[n].imports \subseteq M) => new \subseteq M
      /\ h \in GraphType /\ InGraph(h) = InGraph(graph) \cup {x}
      /\ h[x].tree = files[x] /\ h[x].deps = files[x].imports
      /\ \A n \in InGraph(graph) \ {x} :
           /\ h[n].tree = graph[n].tree
           /\ graph[n].deps \subseteq h[n].deps /\ h[n].deps \subseteq graph[n].deps \cup graph[n].tree.imports
  BY <1>2 DEF Processed
<1>4. step = "follow" /\ GraphKnown /\ GraphFollowed /\ removedSet = {}
  BY <1>3, UpdateStep
<1>5. /\ UNCHANGED <<files, roots, step, changedFiles, queue, visited, origModules>>
      /\ UNCHANGED <<messages, blockingError, stale, removedSet, blocking>>
      /\ lastId' = x
  BY <1>2 DEF Propagated, diskVars, serverVars
<1>6. /\ InGraph(graph') = InGraph(h) /\ pc' \in {"update", "endless"}
      /\ \A n \in InGraph(h) : graph'[n].tree = h[n].tree /\ graph'[n].deps = h[n].deps
  <2>1. e \in ErrorsType /\ triggered \in SUBSET Modules
    BY <1>2, <1>3 DEF Analysed
  <2>2. deps' \in DepsType
    BY <1>1, <1>2, <1>3 DEF Typed, DepsType
  <2>3. SameModules(graph', h) /\ pc' \in {pc, "endless"}
    BY <1>2, <1>3, <2>1, <2>2, PropagatedTyped
  <2>4. QED
    BY <1>3, <2>3 DEF SameModules
<1>7. PICK G, F, Q, V, P, P1 :
        G = InGraph(graph) /\ F = Full /\ Q = Ids(queue) /\ V = visited /\ P = Ids(pending) /\ P1 = Ids(pending')
  OBVIOUS
<1>8. /\ \A n \in G : graph[n].tree.imports \subseteq G \cup P /\ graph[n].deps = graph[n].tree.imports
      /\ origModules \subseteq G /\ G \subseteq origModules \cup F
      /\ roots \subseteq V /\ V \subseteq F
      /\ Q \subseteq V /\ Q \subseteq G \cup P /\ P \subseteq F /\ P \cap V \subseteq Q
      /\ \A n \in G : Outdated(n) \/ graph[n].tree = files[n]
      /\ \A n \in V \ Q : n \in G /\ graph[n].tree.imports \subseteq V
  BY <1>4, <1>7 DEF GraphFollowed, GraphKnown
<1>9. F \in SUBSET Modules /\ \A n \in F : files[n].imports \subseteq F
  BY <1>1, <1>7, SteadyFiles DEF Typed, Full
<1>10. new \subseteq F
  BY <1>3, <1>7, <1>8, <1>9
<1>11. P1 = (P \cup new) \ {x} /\ InGraph(graph') = G \cup {x} /\ Full' = F /\ Ids(queue') = Q /\ x \in F
  BY <1>2, <1>3, <1>5, <1>6, <1>7, <1>10 DEF Full
<1>12. /\ graph'[x].tree = files[x] /\ graph'[x].deps = files[x].imports /\ files[x].imports \subseteq G \cup new
       /\ \A n \in G \ {x} : graph'[n].tree = graph[n].tree /\ graph'[n].deps = graph[n].tree.imports
  <2>1. graph'[x].tree = files[x] /\ graph'[x].deps = files[x].imports /\ files[x].imports \subseteq G \cup new
    BY <1>3, <1>6, <1>7
  <2>2. ASSUME NEW n \in G \ {x}
        PROVE  graph'[n].tree = graph[n].tree /\ graph'[n].deps = graph[n].tree.imports
    <3>1. h[n].tree = graph[n].tree /\ h[n].deps = graph[n].deps
      <4>1. n \in InGraph(graph) \ {x}
        BY <1>7
      <4>2. /\ h[n].tree = graph[n].tree /\ graph[n].deps \subseteq h[n].deps
            /\ h[n].deps \subseteq graph[n].deps \cup graph[n].tree.imports
        BY <1>3, <4>1
      <4>3. graph[n].deps = graph[n].tree.imports
        BY <1>8
      <4>4. QED
        BY <4>2, <4>3
    <3>2. QED
      BY <1>3, <1>6, <1>7, <1>8, <3>1
  <2>3. QED
    BY <2>1, <2>2
<1>13. GraphFollowed'
  <2>1. \A n \in G \cup {x} : graph'[n].tree.imports \subseteq G \cup {x} \cup P1
    BY <1>8, <1>11, <1>12
  <2>2. origModules \subseteq G \cup {x} /\ G \cup {x} \subseteq origModules \cup F
    BY <1>8, <1>11
  <2>3. /\ Q \subseteq V /\ Q \subseteq G \cup {x} \cup P1 /\ P1 \subseteq F
    BY <1>8, <1>10, <1>11
  <2>4. P1 \cap V \subseteq Q
    BY <1>3, <1>7, <1>8, <1>11
  <2>5. \A n \in G \cup {x} : Outdated(n)' \/ graph'[n].tree = files[n]
    <3> TAKE n \in G \cup {x}
    <3>1. CASE n = x
      BY <1>12, <3>1
    <3>2. CASE n # x
      <4>1. n \in G /\ graph'[n].tree = graph[n].tree
        BY <1>12, <3>2
      <4>2. n \in P => n \in Ids(pending')
        BY <1>7, <1>11, <3>2
      <4>3. Outdated(n) => Outdated(n)'
        BY <1>5, <1>7, <4>2 DEF Outdated
      <4>4. QED
        BY <1>8, <4>1, <4>3
    <3>3. QED
      BY <3>1, <3>2
  <2>6. \A n \in V \ Q : n \in G \cup {x} /\ graph'[n].tree.imports \subseteq V
    <3> TAKE n \in V \ Q
    <3>1. n \in G /\ graph[n].tree.imports \subseteq V
      BY <1>8
    <3>2. n # x
      BY <1>3, <1>7, <1>8, <3>1
    <3>3. QED
      BY <1>12, <3>1, <3>2
  <2>7. QED
    BY <1>4, <1>5, <1>7, <1>8, <1>11, <2>1, <2>2, <2>3, <2>4, <2>5, <2>6 DEF GraphFollowed
<1>14. \A n \in InGraph(graph') : graph'[n].deps = graph'[n].tree.imports
  BY <1>11, <1>12
<1>15. NothingBlocked'
  BY <1>5, <1>6 DEF GraphInv, NothingBlocked
<1>16. pc' # "endless" => GraphKnown'
  <2>1. lastId' # 0
    BY <1>3, <1>5, ModulesAre
  <2>2. QED
    BY <1>4, <1>5, <1>6, <1>13, <1>14, <2>1 DEF GraphKnown
<1>17. QED
  BY <1>7, <1>10, <1>11, <1>15, <1>16

\* Every step but those of the update keeps the graph, or sets its dependencies.
\* No update is blocked.
LEMMA NoBlockers ==
  ASSUME GraphInv, NEW m \in Modules, NEW p \in Modules
  PROVE  ~SkipBlocker(m, p) /\ ~LoadFails(m, p) /\ ~AnalysisFails(m, p)
<1>1. /\ Steady /\ Typed(OwnFiles) /\ NoSyntaxErrors /\ Suits(OwnFiles) /\ graph \in GraphType
      /\ \A n \in Modules : files[n] \in Contents /\ files[n].bad = "no"
  BY SteadyIs DEF GraphInv
<1>2. ASSUME SkipBlocker(m, p) PROVE FALSE
  <2>1. m = 0
    BY <1>2 DEF SkipBlocker, IsSkipped, GraphInv, NothingBlocked
  <2>2. QED
    BY <2>1, ModulesAre
<1>3. ASSUME LoadFails(m, p) PROVE FALSE
  <2>1. CanLoad(m, p) /\ Unloadable(m, p) # {}
    BY <1>3 DEF LoadFails
  <2>2. QED
    BY <1>1, <2>1, AllLoadable
<1>4. ASSUME AnalysisFails(m, p) PROVE FALSE
  <2>1. PICK x, g : x = Leaf(m, p) /\ g = LoadedGraph(m, p)
    OBVIOUS
  <2>2. CanLoad(m, p) /\ Sources(m, p)[x].bad = "semantic"
    BY <1>4, <2>1 DEF AnalysisFails
  <2>3. p = m
    BY <1>1, <2>2, AllLoadable
  <2>4. LoadedIs(OwnFiles, m, p, x, g)
    BY <1>1, <2>1, <2>2, ChosenIs
  <2>5. x \in Modules
    BY <2>4 DEF LoadedIs
  <2>6. files \in [Modules -> Contents \cup {Absent}]
    BY <1>1, OnDisk DEF Typed
  <2>7. Sources(m, p)[x] = files[x]
    BY <2>3, <2>5, <2>6 DEF Sources
  <2>8. QED
    BY <1>1, <2>2, <2>5, <2>7
<1>5. QED
  BY <1>2, <1>3, <1>4

LEMMA GraphStep ==
  ASSUME GraphInv, [UpdateNext]_updateVars
  PROVE  GraphInv' /\ InGraph(graph') \ InGraph(graph) \subseteq Full
<1>1. /\ Steady /\ Typed(OwnFiles) /\ NoSyntaxErrors /\ Suits(OwnFiles) /\ graph \in GraphType
      /\ \A n \in Modules : files[n] \in Contents /\ files[n].bad = "no"
  BY SteadyIs DEF GraphInv
<1>2. Typed(OwnFiles)' /\ Steady'
  <2>1. Typed(OwnFiles)' /\ project' = project
    BY <1>1, StepsTyped, SameProject
  <2>2. QED
    BY <1>1, <2>1 DEF Steady, AlwaysThere, NeverBlocked
<1>3. NothingBlocked' /\ (pc' # "endless" => GraphKnown') /\ InGraph(graph') \ InGraph(graph) \subseteq Full
  <2>1. CASE UNCHANGED updateVars
    <3>1. UNCHANGED <<files, pc, step, roots, lastSeen, changedFiles, queue, visited, origModules, previousSources, graph,
                      messages, blockingError, stale, pending, removedSet, blocking, lastId>>
      BY <2>1 DEF updateVars, diskVars, serverVars, keptVars, localVars
    <3>2. NothingBlocked' /\ InGraph(graph') = InGraph(graph)
      BY <3>1 DEF GraphInv, NothingBlocked
    <3>3. pc' # "endless" => GraphKnown'
      BY <3>1 DEF GraphInv, GraphKnown, GraphAtRest, GraphFollowed, GraphReduced, Outdated, Full
    <3>4. QED
      BY <3>2, <3>3
  <2>2. CASE \E R \in project.roots, D \in Disks(project) : CheckFiles(R, D)
    <3>1. PICK R \in project.roots, D \in Disks(project) : CheckFiles(R, D)
      BY <2>2
    <3>2. NothingBlocked' /\ GraphKnown'
      BY <3>1, GraphChecked
    <3>3. graph' = graph
      BY <3>1 DEF CheckFiles, StartUpdate, keptVars
    <3>4. QED
      BY <3>2, <3>3
  <2>3. CASE FollowImports
    <3>1. graph' = graph
      BY <2>3 DEF FollowImports, StartUpdate, keptVars
    <3>2. QED
      BY <2>3, <3>1, GraphFollowedOn
  <2>4. CASE AddSuppressed
    BY <2>4, NothingSuppressed
  <2>5. CASE DeleteUnreached
    <3>1. graph' = graph
      BY <2>5 DEF DeleteUnreached, StartUpdate, keptVars
    <3>2. QED
      BY <2>5, <3>1, GraphReducedTo
  <2>6. CASE FinishIncrement
    <3>1. PICK g, h : /\ g = graph
                      /\ h = [m \in Modules |-> IF g[m] = NotLoaded THEN NotLoaded
                                                ELSE [g[m] EXCEPT !.deps = g[m].tree.imports \cap InGraph(g)]]
      OBVIOUS
    <3>2. graph' = h
      BY <2>6, <3>1 DEF FinishIncrement
    <3>3. InGraph(graph') = InGraph(graph)
      BY <1>1, <3>1, <3>2, DepsFixed
    <3>4. QED
      BY <2>6, <3>3, GraphRests
  <2>7. CASE FinishUpdate
    BY <2>7, GraphFinished
  <2>8. ASSUME NEW m \in Modules, NEW p \in Modules,
               SkipBlocker(m, p) \/ DeleteModule(m, p) \/ LoadFails(m, p) \/ AnalysisFails(m, p) \/ ProcessModule(m, p)
        PROVE  NothingBlocked' /\ (pc' # "endless" => GraphKnown') /\ InGraph(graph') \ InGraph(graph) \subseteq Full
    <3>1. ~SkipBlocker(m, p) /\ ~LoadFails(m, p) /\ ~AnalysisFails(m, p)
      BY NoBlockers
    <3>2. CASE DeleteModule(m, p)
      BY <3>2, GraphDeleted
    <3>3. CASE ProcessModule(m, p)
      BY <3>3, GraphProcessed
    <3>4. QED
      BY <2>8, <3>1, <3>2, <3>3
  <2>9. QED
    BY <2>1, <2>2, <2>3, <2>4, <2>5, <2>6, <2>7, <2>8 DEF UpdateNext, Increment, UpdateAction
<1>4. QED
  BY <1>2, <1>3 DEF GraphInv

\* While no file goes and none has a blocking error, whatever is edited, imported
\* and dropped again: after every increment the graph holds what a full build would
\* load, and no more.
THEOREM GraphAsInFullBuild == UpdateSpec /\ Steady => []GraphIsReachable
<1>1. UpdateInit /\ Steady => GraphInv
  BY GraphInitially
<1>2. GraphInv /\ [UpdateNext]_updateVars => GraphInv'
  BY GraphStep
<1>3. GraphInv => GraphIsReachable
  BY DEF GraphInv, GraphKnown, GraphAtRest, GraphIsReachable, Answered, Full
<1>4. QED
  BY <1>1, <1>2, <1>3, PTL DEF UpdateSpec

\* Then imports are never followed out of the graph.
THEOREM DependenciesAreLoaded == UpdateSpec /\ Steady => []LoadedWithDependencies
<1>1. UpdateInit /\ Steady => GraphInv
  BY GraphInitially
<1>2. GraphInv /\ [UpdateNext]_updateVars => GraphInv'
  BY GraphStep
<1>3. GraphInv => LoadedWithDependencies
  BY DEF GraphInv, NothingBlocked, LoadedWithDependencies
<1>4. QED
  BY <1>1, <1>2, <1>3, PTL DEF UpdateSpec

\* Nor is a module loaded that the program as it is now does not import.
THEOREM ReachableAreLoaded == UpdateSpec /\ Steady => OnlyReachableLoaded
<1>1. UpdateInit /\ Steady => GraphInv
  BY GraphInitially
<1>2. GraphInv /\ [UpdateNext]_updateVars => GraphInv'
  BY GraphStep
<1>3. GraphInv /\ [UpdateNext]_updateVars
        => [InGraph(graph') \ InGraph(graph) \subseteq FullModules(files, roots)]_updateVars
  BY GraphStep DEF Full
<1>4. QED
  BY <1>1, <1>2, <1>3, PTL DEF UpdateSpec, OnlyReachableLoaded

(***************************************************************************)
(* The errors, in the same circumstances.                                  *)
(***************************************************************************)
\* d knows who looks at the interface of whom.
Watched(d, g) ==
  \A m \in InGraph(g) : /\ g[m].tree.reexports \subseteq g[m].tree.imports
                        /\ \A i \in g[m].tree.imports : m \in d[i]

\* Rounds of propagation: a module that is not to be checked again has the interface
\* it should have, and its errors are known, or it is one of T and none is known.
Correct(g, r, T, m) ==
  /\ r.look[m] = Interface(g[m].tree, r.look)
  /\ r.errors[m] = Complaints(g[m].tree, r.look) \/ (r.errors[m] = {} /\ m \in T)
InRounds(d, g, look, T) ==
  {r \in RoundType(g) :
     /\ \A m \in Modules \ InGraph(g) : r.look[m] = look[m] /\ r.errors[m] = {}
     /\ \A m \in InGraph(g) \ Todo(d, g, r) : Correct(g, r, T, m)}

\* A module is concerned with what it imports only.
LEMMA SeesImports ==
  ASSUME NEW v, v.reexports \subseteq v.imports, NEW a, NEW b, \A i \in v.imports : a[i] = b[i]
  PROVE  Interface(v, a) = Interface(v, b) /\ Complaints(v, a) = Complaints(v, b)
<1>1. v.reexports # {} => (CHOOSE i \in v.reexports : TRUE) \in v.reexports
  OBVIOUS
<1>2. QED
  BY <1>1 DEF Interface, Complaints

LEMMA RoundKeeps ==
  ASSUME NEW g \in GraphType, NEW d \in DepsType, Watched(d, g), NEW look, NEW T, NEW r \in InRounds(d, g, look, T)
  PROVE  Round(d, g, r) \in InRounds(d, g, look, T)
<1>1. r \in RoundType(g)
  BY DEF InRounds
<1>2. PICK todo, next : todo = Todo(d, g, r) /\ next = Round(d, g, r)
  OBVIOUS
<1>3. /\ todo \in SUBSET InGraph(g) /\ next \in RoundType(g) /\ next.upToDate = {} /\ next.withErrors = {}
      /\ \E looks : /\ InTurn(g, r.look, todo, looks)
                    /\ next.look = looks[LastModule]
                    /\ \A m \in Modules : next.errors[m] =
                         IF m \in todo THEN Complaints(g[m].tree, looks[m - 1]) ELSE r.errors[m]
                    /\ next.triggered = {m \in todo : looks[LastModule][m] # r.look[m]}
  BY <1>1, <1>2, OneRound
<1>4. PICK looks : /\ InTurn(g, r.look, todo, looks)
                   /\ next.look = looks[LastModule]
                   /\ \A m \in Modules : next.errors[m] =
                        IF m \in todo THEN Complaints(g[m].tree, looks[m - 1]) ELSE r.errors[m]
                   /\ next.triggered = {m \in todo : looks[LastModule][m] # r.look[m]}
  BY <1>3
<1>5. InGraph(g) \subseteq Modules /\ todo \subseteq Modules
  BY <1>3, InGraphAre
<1>6. /\ \A k \in 0 .. LastModule : \A m \in Modules : looks[k][m] = IF m <= k THEN next.look[m] ELSE r.look[m]
      /\ \A m \in Modules : next.look[m] = IF m \in todo THEN Interface(g[m].tree, looks[m - 1]) ELSE r.look[m]
  BY <1>4 DEF InTurn
<1>7. /\ \A m \in Modules \ InGraph(g) : r.look[m] = look[m] /\ r.errors[m] = {}
      /\ \A m \in InGraph(g) \ todo : Correct(g, r, T, m)
  BY <1>2 DEF InRounds
<1>8. \A m \in Modules \ InGraph(g) : next.look[m] = look[m] /\ next.errors[m] = {}
  BY <1>3, <1>4, <1>6, <1>7
<1>9. ASSUME NEW m \in InGraph(g), m \notin Todo(d, g, next)
      PROVE  Correct(g, next, T, m)
  <2>1. g[m].tree.imports \subseteq Modules /\ g[m].tree.reexports \subseteq g[m].tree.imports
    BY InGraphAre DEF Watched, Contents
  <2>2. \A i \in g[m].tree.imports : i \notin next.triggered
    BY <1>3, <1>9 DEF Todo, Watched
  <2>3. \A i \in g[m].tree.imports : next.look[i] = r.look[i]
    BY <1>4, <1>6, <2>1, <2>2
  <2>4. m \in Modules /\ m - 1 \in 0 .. LastModule
    BY <1>5, ModulesAre
  <2>5. PICK before : before = looks[m - 1]
    OBVIOUS
  <2>6. \A i \in g[m].tree.imports : before[i] = next.look[i]
    BY <1>6, <2>1, <2>3, <2>4, <2>5
  <2>7. /\ Interface(g[m].tree, before) = Interface(g[m].tree, next.look)
        /\ Complaints(g[m].tree, before) = Complaints(g[m].tree, next.look)
    BY <2>1, <2>6, SeesImports
  <2>8. /\ Interface(g[m].tree, r.look) = Interface(g[m].tree, next.look)
        /\ Complaints(g[m].tree, r.look) = Complaints(g[m].tree, next.look)
    BY <2>1, <2>3, SeesImports
  <2>9. CASE m \in todo
    BY <1>4, <1>6, <2>4, <2>5, <2>7, <2>9 DEF Correct
  <2>10. CASE m \notin todo
    BY <1>4, <1>6, <1>7, <2>4, <2>8, <2>10 DEF Correct
  <2>11. QED
    BY <2>9, <2>10
<1>10. next \in InRounds(d, g, look, T)
  BY <1>3, <1>8, <1>9 DEF InRounds
<1>11. QED
  BY <1>2, <1>10

\* When nothing is left to do all is as it should be.
LEMMA RoundsEnd ==
  ASSUME NEW g \in GraphType, NEW d, Watched(d, g), NEW D, NEW T, NEW r, IsSettled(r),
         r \in InRounds(d, g, Lookup(D, g), T), NEW h, h = WithLook(g, r.look)
  PROVE  /\ h \in GraphType /\ SameModules(h, g) /\ Watched(d, h)
         /\ \A m \in InGraph(h) :
              /\ h[m].iface = Interface(h[m].tree, Lookup(D, h))
              /\ r.errors[m] = Complaints(h[m].tree, Lookup(D, h)) \/ (r.errors[m] = {} /\ m \in T)
         /\ r.errors \in ErrorsType /\ \A m \in Modules \ InGraph(h) : r.errors[m] = {}
<1>1. r \in RoundType(g) /\ r.look \in Faces(g) /\ r.errors \in ErrorsType
  BY DEF InRounds, RoundType, ErrorsType
<1>2. h \in GraphType /\ SameModules(h, g) /\ \A m \in InGraph(g) : h[m].iface = r.look[m]
  BY <1>1, Relooked
<1>3. InGraph(h) = InGraph(g) /\ \A m \in InGraph(g) : h[m].tree = g[m].tree
  BY <1>2 DEF SameModules
<1>4. Todo(d, g, r) = {}
  BY DEF IsSettled, Todo
<1>5. PICK a, b : a = Lookup(D, g) /\ b = Lookup(D, h)
  OBVIOUS
<1>6. b = r.look
  <2>1. b \in LookType /\ r.look \in LookType
    BY <1>1, <1>2, <1>5, LooksAre DEF Faces
  <2>2. \A m \in InGraph(h) : b[m] = h[m].iface
    BY <1>2, <1>5, LooksAre
  <2>3. \A m \in Modules \ InGraph(h) : b[m] = IF D[m] = Absent THEN Missing ELSE 0
    BY <1>2, <1>5, LooksAre
  <2>4. \A m \in Modules \ InGraph(g) : a[m] = IF D[m] = Absent THEN Missing ELSE 0
    BY <1>5, LooksAre
  <2>5. \A m \in Modules \ InGraph(g) : r.look[m] = a[m]
    BY <1>5 DEF InRounds
  <2>6. \A m \in Modules : b[m] = r.look[m]
    BY <1>2, <1>3, <2>2, <2>3, <2>4, <2>5
  <2>7. QED
    BY <2>1, <2>6 DEF LookType
<1>7. \A m \in InGraph(g) : Correct(g, r, T, m)
  BY <1>4 DEF InRounds
<1>8. \A m \in InGraph(h) : /\ h[m].iface = Interface(h[m].tree, b)
                            /\ r.errors[m] = Complaints(h[m].tree, b) \/ (r.errors[m] = {} /\ m \in T)
  BY <1>2, <1>3, <1>6, <1>7 DEF Correct
<1>9. \A m \in Modules \ InGraph(h) : r.errors[m] = {}
  BY <1>3 DEF InRounds
<1>10. Watched(d, h)
  BY <1>3 DEF Watched
<1>11. QED
  BY <1>1, <1>2, <1>5, <1>8, <1>9, <1>10

AllErrors(g, look) == [m \in Modules |-> IF m \in InGraph(g) THEN Complaints(g[m].tree, look) ELSE {}]

\* Interfaces are right at any time, and so are errors when nothing is under way
\* and no update was blocked.
\* During an update only those that were found since the last propagation are
\* known, and where the others are.
ErrorsKnown ==
  LET look == Lookup(files, graph)
      all  == AllErrors(graph, look)
  IN  /\ Watched(deps, graph)
      /\ \A m \in InGraph(graph) : graph[m].iface = Interface(graph[m].tree, look)
      /\ \A m \in Modules : all[m] # {} => m \in targetsWithErrors
      /\ pc = "update" /\ lastId # 0 =>
           complaints[lastId] = all[lastId] /\ \A m \in Modules : complaints[m] \in {{}, all[m]}
      /\ pc \in {"idle", "daemon"} /\ messages.blocker = 0 => messages.errors = all

ErrorsInv == GraphInv /\ (pc # "endless" => ErrorsKnown)

\* x has been added to old, replaced or dropped, and what looks at it is not checked yet.
Touched(x, g, look, e, triggered, old, seen, T) ==
  /\ InGraph(g) \ {x} = InGraph(old) \ {x}
  /\ \A m \in InGraph(old) \ {x} :
       /\ g[m].tree = old[m].tree /\ g[m].iface = old[m].iface
       /\ old[m].iface = Interface(old[m].tree, seen)
       /\ Complaints(old[m].tree, seen) # {} => m \in T
  /\ x \in InGraph(g) => g[x].iface = Interface(g[x].tree, look) /\ e[x] = Complaints(g[x].tree, look)
  /\ x \notin InGraph(g) => e[x] = {}
  /\ \A m \in Modules \ {x} : e[m] = {}
  /\ x \notin triggered => seen[x] = look[x]

LEMMA FirstRoundIs ==
  ASSUME NEW g \in GraphType, NEW d, Watched(d, g), NEW D, NEW look, look = Lookup(D, g),
         NEW old \in GraphType, NEW seen, seen = Lookup(D, old),
         NEW x \in Modules, NEW e \in ErrorsType, NEW triggered \in SUBSET {x}, NEW T,
         Touched(x, g, look, e, triggered, old, seen, T)
  PROVE  FirstRound(look, e, triggered, {x}, {}) \in InRounds(d, g, look, T)
<1>1. PICK a : a = FirstRound(look, e, triggered, {x}, {})
  OBVIOUS
<1>11. /\ InGraph(g) \ {x} = InGraph(old) \ {x}
       /\ \A m \in InGraph(old) \ {x} :
            /\ g[m].tree = old[m].tree /\ g[m].iface = old[m].iface
            /\ old[m].iface = Interface(old[m].tree, seen)
            /\ Complaints(old[m].tree, seen) # {} => m \in T
       /\ x \in InGraph(g) => g[x].iface = Interface(g[x].tree, look) /\ e[x] = Complaints(g[x].tree, look)
       /\ x \notin InGraph(g) => e[x] = {}
       /\ \A m \in Modules \ {x} : e[m] = {}
       /\ x \notin triggered => seen[x] = look[x]
  BY DEF Touched
<1>2. a.look = look /\ a.errors = e /\ a.triggered = triggered /\ a.upToDate = {x} /\ a.withErrors = {}
  BY <1>1 DEF FirstRound
<1>3. look \in Faces(g) /\ seen \in Faces(old)
  BY LooksAre
<1>4. a \in RoundType(g)
  BY <1>1, <1>3 DEF FirstRound, RoundType, ErrorsType
<1>5. /\ \A m \in InGraph(g) : look[m] = g[m].iface
      /\ \A m \in Modules \ InGraph(g) : look[m] = IF D[m] = Absent THEN Missing ELSE 0
  BY LooksAre
<1>6. /\ \A m \in InGraph(old) : seen[m] = old[m].iface
      /\ \A m \in Modules \ InGraph(old) : seen[m] = IF D[m] = Absent THEN Missing ELSE 0
  BY LooksAre
<1>7. \A m \in Modules \ {x} : look[m] = seen[m]
  BY <1>5, <1>6, <1>11
<1>8. \A m \in Modules \ InGraph(g) : a.look[m] = look[m] /\ a.errors[m] = {}
  BY <1>2, <1>11
<1>9. ASSUME NEW m \in InGraph(g), m \notin Todo(d, g, a)
      PROVE  Correct(g, a, T, m)
  <2>1. CASE m = x
    BY <1>2, <1>5, <1>9, <1>11, <2>1 DEF Correct
  <2>2. CASE m # x
    <3>1. m \in InGraph(old) /\ m \in Modules
      BY <1>9, <1>11, <2>2, InGraphAre
    <3>2. g[m].tree.imports \subseteq Modules /\ g[m].tree.reexports \subseteq g[m].tree.imports
      BY InGraphAre DEF Watched, Contents
    <3>3. \A i \in g[m].tree.imports : i \notin triggered
      BY <1>2, <1>9, <2>2 DEF Todo, Watched
    <3>4. \A i \in g[m].tree.imports : look[i] = seen[i]
      BY <1>7, <1>11, <3>2, <3>3
    <3>5. /\ Interface(g[m].tree, look) = Interface(g[m].tree, seen)
          /\ Complaints(g[m].tree, look) = Complaints(g[m].tree, seen)
      BY <3>2, <3>4, SeesImports
    <3>6. look[m] = Interface(g[m].tree, look)
      BY <1>5, <1>9, <1>11, <2>2, <3>1, <3>5
    <3>7. e[m] = {} /\ (Complaints(g[m].tree, look) = {} \/ m \in T)
      BY <1>11, <2>2, <3>1, <3>5
    <3>8. QED
      BY <1>2, <3>6, <3>7 DEF Correct
  <2>3. QED
    BY <2>1, <2>2
<1>10. QED
  BY <1>1, <1>4, <1>8, <1>9 DEF InRounds

\* The rest of update_module.
LEMMA ErrorsPropagated ==
  ASSUME NEW x \in Modules, NEW g \in GraphType, deps' \in DepsType, Watched(deps', g), NEW e, NEW triggered, NEW rest,
         Propagated(x, g, e, triggered, rest), NEW T, T = targetsWithErrors \ {x},
         FirstRound(Lookup(files, g), e, triggered, {x}, {}) \in InRounds(deps', g, Lookup(files, g), T),
         pc = "update", files' = files, pc' # "endless"
  PROVE  ErrorsKnown'
<1>1. PICK d, D : d = deps' /\ D = files
  OBVIOUS
<1>2. PICK S : S = InRounds(d, g, Lookup(D, g), T)
  OBVIOUS
<1>3. \A r \in S : Round(d, g, r) \in S
  BY <1>1, <1>2, RoundKeeps
<1>4. PICK r \in S : /\ graph' = WithLook(g, r.look) /\ complaints' = r.errors
                     /\ pc' = IF IsSettled(r) THEN pc ELSE "endless"
  <2>1. FirstRound(Lookup(files, g), e, triggered, {x}, {}) \in S /\ \A r \in S : Round(deps', g, r) \in S
    BY <1>1, <1>2, <1>3
  <2>2. QED
    BY <2>1, PropagatedIs
<1>5. IsSettled(r)
  BY <1>4
<1>6. PICK h : h = WithLook(g, r.look)
  OBVIOUS
<1>7. PICK look : look = Lookup(D, h)
  OBVIOUS
<1>8. /\ h \in GraphType /\ SameModules(h, g) /\ Watched(d, h)
      /\ \A m \in InGraph(h) :
           /\ h[m].iface = Interface(h[m].tree, look)
           /\ r.errors[m] = Complaints(h[m].tree, look) \/ (r.errors[m] = {} /\ m \in T)
      /\ r.errors \in ErrorsType /\ \A m \in Modules \ InGraph(h) : r.errors[m] = {}
  BY <1>1, <1>2, <1>4, <1>5, <1>6, <1>7, RoundsEnd
<1>9. PICK all : all = AllErrors(h, look)
  OBVIOUS
<1>10. \A m \in Modules : r.errors[m] = all[m] \/ (r.errors[m] = {} /\ m \in T)
  BY <1>8, <1>9 DEF AllErrors
<1>11. targetsWithErrors' = targetsWithErrors \cup Targets(complaints') /\ lastId' = x
  BY Zenon DEF Propagated
<1>12. \A m \in Modules : all[m] # {} => m \in targetsWithErrors'
  BY <1>4, <1>10, <1>11 DEF Targets
<1>13. complaints'[x] = all[x] /\ \A m \in Modules : complaints'[m] \in {{}, all[m]}
  BY <1>4, <1>10
<1>14. pc' = "update" /\ Lookup(files', graph') = look /\ AllErrors(graph', Lookup(files', graph')) = all /\ graph' = h
  BY <1>1, <1>4, <1>5, <1>6, <1>7, <1>9
<1>15. QED
  BY <1>1, <1>8, <1>11, <1>12, <1>13, <1>14 DEF ErrorsKnown

LEMMA ErrorsProcessed ==
  ASSUME Present, Typed(OwnFiles), ErrorsKnown, NEW m, NEW p, ProcessModule(m, p), pc' # "endless"
  PROVE  ErrorsKnown'
<1>1. /\ graph \in GraphType
      /\ \A n \in Modules : files[n] # Absent /\ files[n] \in Contents /\ files[n].imports \subseteq Modules
  BY PresentIs
<1>2. PICK x, new, h, e, triggered, rest :
        /\ Processed(m, x, new, h) /\ Analysed(x, h, e, triggered)
        /\ Propagated(x, h, e, triggered, rest)
        /\ deps' = [i \in Modules |-> IF i \in files[x].imports THEN deps[i] \cup {x} ELSE deps[i]]
        /\ UNCHANGED <<diskVars, serverVars>>
  BY <1>1, ProcessedIs
<1>3. /\ pc = "update" /\ x \in Modules /\ h \in GraphType /\ InGraph(h) = InGraph(graph) \cup {x}
      /\ h[x].tree = files[x]
      /\ \A n \in InGraph(graph) \ {x} : h[n].tree = graph[n].tree /\ h[n].iface = graph[n].iface
  BY <1>2 DEF Processed
<1>4. PICK D, look, seen, v :
        D = files /\ look = Lookup(files, h) /\ seen = Lookup(files, graph) /\ v = files[x]
  OBVIOUS
<1>5. /\ h[x].iface = Interface(v, look) /\ e = [NoErrors EXCEPT ![x] = Complaints(v, look)] /\ e \in ErrorsType
      /\ triggered = IF x \notin InGraph(graph) \/ graph[x].iface # h[x].iface THEN {x} ELSE {}
  BY <1>2, <1>4 DEF Analysed
<1>7. /\ Watched(deps, graph) /\ \A n \in InGraph(graph) : graph[n].iface = Interface(graph[n].tree, seen)
      /\ \A n \in Modules : AllErrors(graph, seen)[n] # {} => n \in targetsWithErrors
  BY <1>4 DEF ErrorsKnown
<1>8. PICK T : T = targetsWithErrors \ {x}
  OBVIOUS
<1>9. PICK old : old = graph
  OBVIOUS
<1>10. /\ old \in GraphType /\ seen = Lookup(D, old) /\ look = Lookup(D, h)
       /\ InGraph(h) \ {x} = InGraph(old) \ {x}
  BY <1>1, <1>3, <1>4, <1>9
<1>11. \A n \in InGraph(old) : n \in Modules /\ (Complaints(old[n].tree, seen) # {} => n \in targetsWithErrors)
  <2>1. \A n \in InGraph(old) : n \in Modules /\ AllErrors(old, seen)[n] = Complaints(old[n].tree, seen)
    BY <1>10, InGraphAre DEF AllErrors
  <2>2. QED
    BY <1>7, <1>9, <2>1
<1>12. \A n \in InGraph(old) \ {x} :
           /\ h[n].tree = old[n].tree /\ h[n].iface = old[n].iface
           /\ old[n].iface = Interface(old[n].tree, seen)
           /\ Complaints(old[n].tree, seen) # {} => n \in T
  BY <1>3, <1>7, <1>8, <1>9, <1>11
<1>13. e[x] = Complaints(v, look) /\ \A n \in Modules \ {x} : e[n] = {}
  BY <1>3, <1>5 DEF NoErrors
<1>14. triggered \in SUBSET {x} /\ (x \notin triggered => seen[x] = look[x])
  <2>1. x \in InGraph(h) => look[x] = h[x].iface
    BY <1>3, <1>10, LooksAre
  <2>2. x \in InGraph(old) => seen[x] = old[x].iface
    BY <1>10, LooksAre
  <2>3. QED
    BY <1>3, <1>5, <1>9, <2>1, <2>2
<1>15. PICK d : d = deps'
  OBVIOUS
<1>16. d \in DepsType /\ Watched(d, h)
  <2>1. deps \in DepsType
    BY DEF Typed
  <2>2. d = [i \in Modules |-> IF i \in v.imports THEN deps[i] \cup {x} ELSE deps[i]] /\ v.imports \subseteq Modules
    BY <1>1, <1>2, <1>3, <1>4, <1>15
  <2>3. d \in DepsType
    BY <1>3, <2>1, <2>2 DEF DepsType
  <2>4. v.reexports \subseteq v.imports
    BY <1>1, <1>3, <1>4, OnDisk DEF Typed
  <2>5. ASSUME NEW n \in InGraph(h) \ {x}
        PROVE  h[n].tree.reexports \subseteq h[n].tree.imports /\ \A i \in h[n].tree.imports : n \in d[i]
    <3>1. n \in InGraph(graph) /\ h[n].tree = graph[n].tree
      BY <1>3
    <3>2. graph[n].tree.imports \subseteq Modules
      BY <1>1, <3>1, InGraphAre DEF Contents
    <3>3. h[n].tree.reexports \subseteq h[n].tree.imports /\ \A i \in h[n].tree.imports : n \in deps[i] /\ i \in Modules
      BY <1>7, <3>1, <3>2 DEF Watched
    <3>4. QED
      BY <2>2, <3>3
  <2>6. h[x].tree.reexports \subseteq h[x].tree.imports /\ \A i \in h[x].tree.imports : x \in d[i]
    BY <1>3, <1>4, <2>2, <2>4
  <2>7. QED
    BY <2>3, <2>5, <2>6 DEF Watched
<1>17. FirstRound(look, e, triggered, {x}, {}) \in InRounds(d, h, look, T)
  <2>1. x \in InGraph(h) /\ h[x].iface = Interface(h[x].tree, look) /\ e[x] = Complaints(h[x].tree, look)
    BY <1>3, <1>4, <1>5, <1>13
  <2>2. Touched(x, h, look, e, triggered, old, seen, T)
    BY <1>10, <1>12, <1>13, <1>14, <2>1 DEF Touched
  <2>3. QED
    BY <1>3, <1>5, <1>10, <1>14, <1>16, <2>2, FirstRoundIs
<1>18. files' = files
  BY <1>2 DEF diskVars
<1>19. QED
  BY <1>2, <1>3, <1>4, <1>8, <1>15, <1>16, <1>17, <1>18, ErrorsPropagated

LEMMA ErrorsDeleted ==
  ASSUME ErrorsInv, NEW m, NEW p, DeleteModule(m, p), pc' # "endless"
  PROVE  ErrorsKnown'
<1>1. /\ GraphInv /\ Steady /\ Typed(OwnFiles) /\ Suits(OwnFiles) /\ graph \in GraphType
      /\ \A n \in Modules : files[n] # Absent
  BY SteadyIs DEF ErrorsInv, GraphInv
<1>2. IsNext(m, p) /\ UNCHANGED <<diskVars, serverVars>>
  BY DEF DeleteModule
<1>3. pc = "update" /\ m \in Modules
  BY <1>1, <1>2, NextIs DEF Typed, Listed
<1>4. PICK g : g = Put(graph, m, NotLoaded)
  OBVIOUS
<1>5. deps' = deps /\ Propagated(m, g, NoErrors, {m}, <<>>)
  BY <1>4 DEF DeleteModule, Propagated, Put
<1>6. g \in GraphType /\ InGraph(g) = InGraph(graph) \ {m} /\ \A n \in InGraph(g) : g[n] = graph[n]
  BY <1>1, <1>3, <1>4, Dropped
<1>7. ErrorsKnown
  BY <1>3 DEF ErrorsInv
<1>8. PICK D, look, seen : D = files /\ look = Lookup(files, g) /\ seen = Lookup(files, graph)
  OBVIOUS
<1>9. /\ Watched(deps, graph) /\ \A n \in InGraph(graph) : graph[n].iface = Interface(graph[n].tree, seen)
      /\ \A n \in Modules : AllErrors(graph, seen)[n] # {} => n \in targetsWithErrors
  BY <1>7, <1>8 DEF ErrorsKnown
<1>10. PICK T, d, old, e : T = targetsWithErrors \ {m} /\ d = deps' /\ old = graph /\ e = NoErrors
  OBVIOUS
<1>11. /\ old \in GraphType /\ seen = Lookup(D, old) /\ look = Lookup(D, g)
       /\ InGraph(g) \ {m} = InGraph(old) \ {m} /\ m \notin InGraph(g)
  BY <1>1, <1>6, <1>8, <1>10
<1>12. \A n \in InGraph(old) : n \in Modules /\ (Complaints(old[n].tree, seen) # {} => n \in targetsWithErrors)
  <2>1. \A n \in InGraph(old) : n \in Modules /\ AllErrors(old, seen)[n] = Complaints(old[n].tree, seen)
    BY <1>11, InGraphAre DEF AllErrors
  <2>2. QED
    BY <1>9, <1>10, <2>1
<1>13. \A n \in InGraph(old) \ {m} :
           /\ g[n].tree = old[n].tree /\ g[n].iface = old[n].iface
           /\ old[n].iface = Interface(old[n].tree, seen)
           /\ Complaints(old[n].tree, seen) # {} => n \in T
  BY <1>6, <1>9, <1>10, <1>12
<1>14. e \in ErrorsType /\ \A n \in Modules : e[n] = {}
  BY <1>10, NoErrorsType DEF NoErrors
<1>15. d \in DepsType /\ Watched(d, g)
  BY <1>1, <1>5, <1>6, <1>9, <1>10 DEF Typed, Watched
<1>16. FirstRound(look, e, {m}, {m}, {}) \in InRounds(d, g, look, T)
  <2>1. PICK t : t = {m}
    OBVIOUS
  <2>2. FirstRound(look, e, t, {m}, {}) \in InRounds(d, g, look, T)
    <3>1. Touched(m, g, look, e, t, old, seen, T)
      BY <1>3, <1>11, <1>13, <1>14, <2>1 DEF Touched
    <3>2. QED
      BY <1>3, <1>6, <1>11, <1>14, <1>15, <2>1, <3>1, FirstRoundIs
  <2>3. QED
    BY <2>1, <2>2
<1>17. files' = files
  BY <1>2 DEF diskVars
<1>18. QED
  BY <1>3, <1>5, <1>6, <1>8, <1>10, <1>15, <1>16, <1>17, ErrorsPropagated

\* The targets that had errors are checked once more, and then all are known.
LEMMA ErrorsFinished ==
  ASSUME Typed(OwnFiles), ErrorsKnown, lastId # 0, FinishUpdate, pc' # "endless"
  PROVE  ErrorsKnown'
<1>1. /\ graph \in GraphType /\ deps \in DepsType /\ complaints \in ErrorsType
      /\ targetsWithErrors \in SUBSET Modules /\ lastId \in Modules \cup {0}
  BY DEF Typed
<1>2. /\ pc = "update" /\ pending = <<>> /\ deps' = deps /\ UNCHANGED <<diskVars, localVars>>
  BY DEF FinishUpdate
<1>4. lastId # 0 /\ lastId \in Modules
  BY <1>1
<1>5. PICK g, d, D, seen, all, last :
        /\ g = graph /\ d = deps /\ D = files /\ seen = Lookup(D, g) /\ all = AllErrors(g, seen) /\ last = lastId
  OBVIOUS
<1>6. /\ Watched(d, g) /\ \A m \in InGraph(g) : g[m].iface = Interface(g[m].tree, seen)
      /\ \A m \in Modules : all[m] # {} => m \in targetsWithErrors
      /\ complaints[last] = all[last] /\ \A m \in Modules : complaints[m] \in {{}, all[m]}
  BY <1>2, <1>4, <1>5 DEF ErrorsKnown
<1>7. PICK a : a = FirstRound(seen, complaints, {}, {last}, targetsWithErrors)
  OBVIOUS
<1>8. PICK S : S = InRounds(d, g, seen, {})
  OBVIOUS
<1>9. a \in S
  <2>1. /\ a.look = seen /\ a.errors = complaints /\ a.triggered = {} /\ a.upToDate = {last}
        /\ a.withErrors = targetsWithErrors
    BY <1>7 DEF FirstRound
  <2>2. seen \in Faces(g) /\ \A m \in InGraph(g) : seen[m] = g[m].iface
    BY <1>1, <1>5, LooksAre
  <2>3. a \in RoundType(g)
    BY <1>1, <1>4, <1>5, <1>7, <2>2 DEF FirstRound, RoundType, ErrorsType
  <2>4. \A m \in Modules \ InGraph(g) : a.look[m] = seen[m] /\ a.errors[m] = {}
    BY <1>5, <1>6, <2>1 DEF AllErrors
  <2>5. ASSUME NEW m \in InGraph(g), m \notin Todo(d, g, a)
        PROVE  Correct(g, a, {}, m)
    <3>1. m = last \/ m \notin targetsWithErrors
      <4>1. m \in a.withErrors => m \in a.upToDate
        BY <2>5 DEF Todo
      <4>2. QED
        BY <2>1, <4>1
    <3>2. m \in Modules /\ all[m] = Complaints(g[m].tree, seen)
      BY <1>1, <1>5, InGraphAre DEF AllErrors
    <3>3. complaints[m] = all[m]
      BY <1>6, <3>1, <3>2
    <3>4. QED
      BY <1>6, <2>1, <2>2, <3>2, <3>3 DEF Correct
  <2>6. QED
    BY <1>8, <2>3, <2>4, <2>5 DEF InRounds
<1>10. \A r \in S : Round(d, g, r) \in S
  BY <1>1, <1>5, <1>6, <1>8, RoundKeeps
<1>11. PICK p : p = Propagate(d, g, a)
  OBVIOUS
<1>12. PICK r \in S : p = [graph |-> WithLook(g, r.look), errors |-> r.errors, settled |-> IsSettled(r)]
  BY <1>9, <1>10, <1>11, Propagating
<1>13. /\ graph' = p.graph /\ targetsWithErrors' = Targets(p.errors)
       /\ messages' = [blocker |-> 0, errors |-> p.errors] /\ pc' = IF p.settled THEN "daemon" ELSE "endless"
  BY <1>5, <1>7, <1>11 DEF FinishUpdate
<1>14. p.graph = WithLook(g, r.look) /\ p.errors = r.errors /\ p.settled = IsSettled(r)
  BY <1>12
<1>15. PICK h : h = WithLook(g, r.look)
  OBVIOUS
<1>16. PICK look, now : look = Lookup(D, h) /\ now = AllErrors(h, look)
  OBVIOUS
<1>17. /\ graph' = h /\ targetsWithErrors' = Targets(r.errors) /\ messages'.errors = r.errors
       /\ IsSettled(r) /\ pc' = "daemon"
  BY <1>13, <1>14, <1>15
<1>18. /\ h \in GraphType /\ Watched(d, h)
       /\ \A m \in InGraph(h) : /\ h[m].iface = Interface(h[m].tree, look)
                                /\ r.errors[m] = Complaints(h[m].tree, look)
       /\ r.errors \in ErrorsType /\ \A m \in Modules \ InGraph(h) : r.errors[m] = {}
  <2>1. PICK T : T = {}
    OBVIOUS
  <2>2. r \in InRounds(d, g, Lookup(D, g), T)
    BY <1>5, <1>8, <2>1
  <2>3. /\ h \in GraphType /\ Watched(d, h)
        /\ \A m \in InGraph(h) :
              /\ h[m].iface = Interface(h[m].tree, Lookup(D, h))
              /\ r.errors[m] = Complaints(h[m].tree, Lookup(D, h)) \/ (r.errors[m] = {} /\ m \in T)
        /\ r.errors \in ErrorsType /\ \A m \in Modules \ InGraph(h) : r.errors[m] = {}
    BY <1>1, <1>5, <1>6, <1>15, <1>17, <2>2, RoundsEnd
  <2>4. QED
    BY <1>16, <2>1, <2>3
<1>19. r.errors = now
  BY <1>16, <1>18 DEF AllErrors, ErrorsType
<1>20. files' = D /\ deps' = d
  BY <1>2, <1>5 DEF diskVars
<1>21. Lookup(files', graph') = look /\ AllErrors(graph', Lookup(files', graph')) = now
  BY <1>16, <1>17, <1>20
<1>22. \A m \in Modules : now[m] # {} => m \in targetsWithErrors'
  BY <1>17, <1>19 DEF Targets
<1>23. QED
  BY <1>17, <1>18, <1>19, <1>20, <1>21, <1>22 DEF ErrorsKnown

\* Between updates nothing is checked, and files only change.  A blocking error
\* takes the place of the other messages.
LEMMA ErrorsKept ==
  ASSUME ErrorsKnown, graph \in GraphType, graph' \in GraphType,
         InGraph(graph') = InGraph(graph),
         \A m \in InGraph(graph) : graph'[m].tree = graph[m].tree /\ graph'[m].iface = graph[m].iface,
         UNCHANGED <<deps, targetsWithErrors>>, pc' = "update" => lastId' = 0,
         messages'.blocker = 0 => pc \in {"idle", "daemon"} /\ messages' = messages,
         \A m \in Modules : files[m] # Absent /\ files'[m] # Absent
  PROVE  ErrorsKnown'
<1>1. PICK g, h, D, E : g = graph /\ h = graph' /\ D = files /\ E = files'
  OBVIOUS
<1>2. /\ g \in GraphType /\ h \in GraphType /\ InGraph(h) = InGraph(g)
      /\ \A m \in InGraph(g) : h[m].tree = g[m].tree /\ h[m].iface = g[m].iface
      /\ \A m \in Modules : D[m] # Absent /\ E[m] # Absent
  BY <1>1
<1>3. PICK seen, look : seen = Lookup(D, g) /\ look = Lookup(E, h)
  OBVIOUS
<1>4. look = seen
  <2>1. /\ look \in LookType /\ \A m \in InGraph(h) : look[m] = h[m].iface
        /\ \A m \in Modules \ InGraph(h) : look[m] = IF E[m] = Absent THEN Missing ELSE 0
    BY <1>2, <1>3, LooksAre DEF Faces
  <2>2. /\ seen \in LookType /\ \A m \in InGraph(g) : seen[m] = g[m].iface
        /\ \A m \in Modules \ InGraph(g) : seen[m] = IF D[m] = Absent THEN Missing ELSE 0
    BY <1>2, <1>3, LooksAre DEF Faces
  <2>3. \A m \in Modules : look[m] = seen[m]
    BY <1>2, <2>1, <2>2
  <2>4. QED
    BY <2>1, <2>2, <2>3 DEF LookType
<1>5. PICK all, now : all = AllErrors(g, seen) /\ now = AllErrors(h, look)
  OBVIOUS
<1>6. now = all
  BY <1>2, <1>4, <1>5 DEF AllErrors
<1>7. /\ Watched(deps, g) /\ \A m \in InGraph(g) : g[m].iface = Interface(g[m].tree, seen)
      /\ \A m \in Modules : all[m] # {} => m \in targetsWithErrors
      /\ messages'.blocker = 0 => messages'.errors = all
  BY <1>1, <1>3, <1>5 DEF ErrorsKnown
<1>8. Watched(deps', h)
  BY <1>2, <1>7 DEF Watched
<1>9. \A m \in InGraph(h) : h[m].iface = Interface(h[m].tree, look)
  BY <1>2, <1>4, <1>7
<1>10. /\ graph' = h /\ Lookup(files', graph') = look /\ AllErrors(graph', Lookup(files', graph')) = now
  BY <1>1, <1>3, <1>5
<1>11. QED
  BY <1>6, <1>7, <1>8, <1>9, <1>10 DEF ErrorsKnown

\* The interfaces of the modules of F fit their contents, which import modules of F only.
Faced(D, F, look) == \A m \in F : look[m] = Interface(D[m], look)
Closed(D, F)      == \A m \in F : D[m] # Absent /\ D[m].imports \subseteq F

\* Since chains of re-exports end, there is one way to give all modules interfaces.
LEMMA OneFace ==
  ASSUME NEW q \in Projects, NEW D \in Disks(q), NEW F \in SUBSET Modules, Closed(D, F),
         NEW a, NEW b, Faced(D, F, a), Faced(D, F, b)
  PROVE  \A m \in F : a[m] = b[m]
<1>0. \A m \in F : D[m] # Absent /\ D[m].imports \subseteq F
  BY DEF Closed
<1>1. PICK rank \in [Modules -> Modules] :
        \A m \in Modules : D[m] # Absent => \A i \in D[m].reexports : rank[i] < rank[m]
  BY Chains
<1>2. PICK B : B = {m \in F : a[m] # b[m]}
  OBVIOUS
<1>3. SUFFICES ASSUME B # {} PROVE FALSE
  BY <1>2
<1>4. PICK S : S = {rank[m] : m \in B}
  OBVIOUS
<1>5. S \in SUBSET Nat /\ S # {}
  <2>1. \A m \in B : rank[m] \in Nat
    BY <1>1, <1>2, ModulesAre
  <2>2. \E m \in B : rank[m] \in S
    BY <1>3, <1>4
  <2>3. QED
    BY <1>4, <2>1, <2>2
<1>6. PICK k \in S : \A l \in S : k <= l
  BY <1>5, Smallest
<1>7. PICK m \in B : k = rank[m]
  BY <1>4, <1>6
<1>8. m \in F /\ m \in Modules /\ a[m] # b[m] /\ D[m].reexports \subseteq F /\ D[m] # Absent
  BY <1>0, <1>2, <1>7, OnDisk
<1>9. \A i \in D[m].reexports : a[i] = b[i]
  <2> SUFFICES ASSUME NEW i \in D[m].reexports, a[i] # b[i] PROVE FALSE
    OBVIOUS
  <2>1. i \in B /\ rank[i] < rank[m] /\ i \in Modules
    BY <1>1, <1>2, <1>8
  <2>2. rank[m] <= rank[i]
    BY <1>4, <1>6, <1>7, <2>1
  <2>3. rank[m] \in Nat /\ rank[i] \in Nat
    BY <1>1, <1>8, <2>1, ModulesAre
  <2>4. QED
    BY <2>1, <2>2, <2>3
<1>10. D[m].reexports # {} => (CHOOSE i \in D[m].reexports : TRUE) \in D[m].reexports
  OBVIOUS
<1>11. Interface(D[m], a) = Interface(D[m], b)
  BY <1>9, <1>10 DEF Interface
<1>12. a[m] = Interface(D[m], a) /\ b[m] = Interface(D[m], b)
  BY <1>8 DEF Faced
<1>13. QED
  BY <1>8, <1>11, <1>12

\* So a graph with the modules and the contents of a full build has its errors.
LEMMA FullErrorsAre ==
  ASSUME NEW q \in Projects, NEW D \in Disks(q), NEW R \in SUBSET Modules, NEW F, F = FullModules(D, R),
         F \in SUBSET Modules, \A m \in R : D[m] # Absent, \A m \in F : D[m] # Absent /\ D[m].imports \subseteq F,
         NEW g \in GraphType, InGraph(g) = F, \A m \in F : g[m].tree = D[m],
         NEW look, look = Lookup(D, g), \A m \in F : g[m].iface = Interface(D[m], look)
  PROVE  AllErrors(g, look) = FullErrors(D, R)
<1>1. PICK full : full = FullLook(D, R)
  OBVIOUS
<1>2. \A m \in F : full[m] = Interface(D[m], full)
  BY <1>1, FullLooks DEF FullFace
<1>3. \A m \in F : look[m] = Interface(D[m], look)
  BY LooksAre
<1>4. \A m \in F : look[m] = full[m]
  <2>1. Closed(D, F)
    BY DEF Closed
  <2>2. Faced(D, F, look)
    BY <1>3 DEF Faced
  <2>3. Faced(D, F, full)
    BY <1>2 DEF Faced
  <2>4. QED
    BY <2>1, <2>2, <2>3, OneFace
<1>5. \A m \in F : Complaints(D[m], look) = Complaints(D[m], full)
  BY <1>4 DEF Complaints
<1>6. FullErrors(D, R) = [m \in Modules |-> IF m \in F THEN Complaints(D[m], full) ELSE {}]
  BY <1>1 DEF FullErrors
<1>7. QED
  BY <1>5, <1>6 DEF AllErrors

LEMMA ErrorsInitially ==
  ASSUME UpdateInit, Present
  PROVE  ErrorsKnown
<1>1. Typed(OwnFiles)
  BY StartsTyped DEF Suits, Present
<1>2. FirstBuild /\ pc = "idle"
  BY DEF UpdateInit
<1>3. PICK q, D, R, g, F : q = project /\ D = files /\ R = roots /\ g = graph /\ F = FullModules(files, roots)
  OBVIOUS
<1>4. PICK full, look : full = FullLook(D, R) /\ look = Lookup(D, g)
  OBVIOUS
<1>5. /\ q \in Projects /\ D \in Disks(q) /\ R \in SUBSET Modules /\ g \in GraphType /\ InGraph(g) = F
      /\ \A m \in F : g[m].tree = D[m] /\ g[m].iface = full[m]
  BY <1>2, <1>3, <1>4, FirstGraph
<1>6. /\ F = FullModules(D, R) /\ F \in SUBSET Modules
      /\ \A m \in Modules : D[m] # Absent /\ D[m].imports \subseteq Modules
      /\ \A m \in F : D[m].imports \subseteq F
  BY <1>1, <1>3, PresentFiles DEF Typed
<1>7. \A m \in F : full[m] = Interface(D[m], full)
  BY <1>4, <1>5, <1>6, FullLooks DEF FullFace
<1>8. \A m \in F : look[m] = full[m]
  BY <1>4, <1>5, LooksAre
<1>9. \A m \in F : D[m].reexports \subseteq D[m].imports
  BY <1>5, <1>6, OnDisk
<1>10. \A m \in F : g[m].iface = Interface(D[m], look)
  <2> TAKE m \in F
  <2>1. \A i \in D[m].imports : look[i] = full[i]
    BY <1>6, <1>8
  <2>2. Interface(D[m], look) = Interface(D[m], full)
    BY <1>9, <2>1, SeesImports
  <2>3. QED
    BY <1>5, <1>7, <2>2
<1>11. AllErrors(g, look) = FullErrors(D, R)
  BY <1>4, <1>5, <1>6, <1>10, FullErrorsAre
<1>12. /\ deps = [i \in Modules |-> {m \in F : i \in D[m].imports}]
       /\ complaints = FullErrors(D, R) /\ targetsWithErrors = Targets(complaints)
       /\ messages = [blocker |-> 0, errors |-> complaints]
  BY <1>2, <1>3 DEF FirstBuild
<1>13. Watched(deps, g)
  BY <1>5, <1>6, <1>9, <1>12 DEF Watched
<1>14. graph = g /\ Lookup(files, graph) = look /\ AllErrors(graph, Lookup(files, graph)) = FullErrors(D, R)
  BY <1>3, <1>4, <1>11
<1>15. messages.errors = FullErrors(D, R) /\ \A m \in Modules : FullErrors(D, R)[m] # {} => m \in targetsWithErrors
  BY <1>12 DEF Targets
<1>16. \A m \in InGraph(g) : g[m].iface = Interface(g[m].tree, look)
  BY <1>5, <1>10
<1>17. QED
  BY <1>2, <1>13, <1>14, <1>15, <1>16 DEF ErrorsKnown

\* Errors stay known, if they do when a module goes or cannot be processed.
LEMMA ErrorsCarried ==
  ASSUME Present, Typed(OwnFiles), pc # "endless" => ErrorsKnown,
         pc = "update" /\ Ids(pending) = {} => lastId # 0,
         [UpdateNext]_updateVars, pc' # "endless",
         \A m \in Modules, p \in Modules :
           SkipBlocker(m, p) \/ DeleteModule(m, p) \/ LoadFails(m, p) \/ AnalysisFails(m, p) => ErrorsKnown'
  PROVE  ErrorsKnown'
<1>1. Suits(OwnFiles) /\ graph \in GraphType
  BY PresentIs
<1>2. Typed(OwnFiles)' /\ project' = project /\ graph' \in GraphType
  <2>1. Typed(OwnFiles)' /\ project' = project
    BY <1>1, StepsTyped, SameProject
  <2>2. QED
    BY <2>1 DEF Typed
<1>3. CASE UNCHANGED updateVars
  <2>1. UNCHANGED <<files, pc, graph, deps, complaints, targetsWithErrors, messages, lastId>>
    BY <1>3 DEF updateVars, diskVars, keptVars, localVars
  <2>2. ErrorsKnown
    BY <2>1
  <2>3. QED
    BY <2>1, <2>2 DEF ErrorsKnown
<1>4. \A m \in Modules : files[m] # Absent /\ files'[m] # Absent
  <2>1. /\ project \in Projects /\ files \in Disks(project) /\ files' \in Disks(project)
        /\ roots \in project.roots
    BY <1>2 DEF Typed
  <2>2. QED
    BY <2>1, PresentFiles
<1>5. ASSUME pc \in {"idle", "daemon"}, graph' = graph, UNCHANGED <<deps, targetsWithErrors, messages>>,
             pc' = "update" => lastId' = 0
      PROVE  ErrorsKnown'
  <2>1. ErrorsKnown
    BY <1>5
  <2>2. QED
    BY <1>1, <1>2, <1>4, <1>5, <2>1, ErrorsKept
<1>6. ASSUME NEW changed, NEW removed, StartUpdate(changed, removed)
      PROVE  /\ graph' = graph /\ UNCHANGED <<deps, targetsWithErrors, messages>>
             /\ pc' = "update" => lastId' = 0
  BY <1>6 DEF StartUpdate, keptVars
<1>7. CASE \E R \in project.roots, D \in Disks(project) : CheckFiles(R, D)
  <2>1. pc = "idle" /\ \E changed : StartUpdate(changed, <<>>)
    BY <1>7 DEF CheckFiles
  <2>2. QED
    BY <1>5, <1>6, <2>1
<1>8. CASE FollowImports
  <2>1. pc = "daemon"
    BY <1>8 DEF FollowImports
  <2>2. \/ UNCHANGED <<pc, keptVars>>
        \/ (pc' = "crashed" /\ UNCHANGED keptVars)
        \/ \E changed : StartUpdate(changed, <<>>)
    BY <1>8 DEF FollowImports
  <2>3. CASE \E changed : StartUpdate(changed, <<>>)
    BY <1>5, <1>6, <2>1, <2>3
  <2>4. CASE UNCHANGED keptVars /\ pc' # "update"
    BY <1>5, <2>1, <2>4 DEF keptVars
  <2>5. QED
    BY <2>1, <2>2, <2>3, <2>4
<1>9. CASE AddSuppressed
  <2>1. pc = "daemon" /\ \E changed : StartUpdate(changed, <<>>)
    BY <1>9 DEF AddSuppressed
  <2>2. QED
    BY <1>5, <1>6, <2>1
<1>10. CASE DeleteUnreached
  <2>1. pc = "daemon" /\ \E removed : StartUpdate(<<>>, removed)
    BY <1>10 DEF DeleteUnreached
  <2>2. QED
    BY <1>5, <1>6, <2>1
<1>11. CASE FinishIncrement
  <2>1. PICK g, h : /\ g = graph
                    /\ h = [m \in Modules |-> IF g[m] = NotLoaded THEN NotLoaded
                                              ELSE [g[m] EXCEPT !.deps = g[m].tree.imports \cap InGraph(g)]]
    OBVIOUS
  <2>2. graph' = h
    BY <1>11, <2>1 DEF FinishIncrement
  <2>3. /\ InGraph(h) = InGraph(g)
        /\ \A m \in InGraph(g) : h[m].tree = g[m].tree /\ h[m].iface = g[m].iface
    BY <1>1, <2>1, DepsFixed
  <2>4. pc = "daemon" /\ pc' = "idle" /\ UNCHANGED <<deps, targetsWithErrors, messages>>
    BY <1>11 DEF FinishIncrement
  <2>5. ErrorsKnown
    BY <2>4
  <2>6. InGraph(graph') = InGraph(graph)
        /\ \A m \in InGraph(graph) : graph'[m].tree = graph[m].tree /\ graph'[m].iface = graph[m].iface
    BY <2>1, <2>2, <2>3
  <2>7. QED
    BY <1>1, <1>2, <1>4, <2>4, <2>5, <2>6, ErrorsKept
<1>12. CASE FinishUpdate
  <2>1. pc = "update" /\ pending = <<>>
    BY <1>12 DEF FinishUpdate
  <2>2. ErrorsKnown /\ lastId # 0
    BY <2>1 DEF Ids
  <2>3. QED
    BY <1>12, <2>2, ErrorsFinished
<1>13. ASSUME NEW m \in Modules, NEW p \in Modules,
              SkipBlocker(m, p) \/ DeleteModule(m, p) \/ LoadFails(m, p) \/ AnalysisFails(m, p) \/ ProcessModule(m, p)
       PROVE  ErrorsKnown'
  <2>1. CASE SkipBlocker(m, p) \/ DeleteModule(m, p) \/ LoadFails(m, p) \/ AnalysisFails(m, p)
    BY <2>1
  <2>2. CASE ProcessModule(m, p)
    <3>1. ErrorsKnown
      BY <2>2 DEF ProcessModule, CanLoad, IsNext
    <3>2. QED
      BY <2>2, <3>1, ErrorsProcessed
  <2>3. QED
    BY <1>13, <2>1, <2>2
<1>14. QED
  BY <1>3, <1>7, <1>8, <1>9, <1>10, <1>11, <1>12, <1>13 DEF UpdateNext, Increment, UpdateAction

LEMMA ErrorsStep ==
  ASSUME ErrorsInv, [UpdateNext]_updateVars
  PROVE  ErrorsInv'
<1>1. GraphInv /\ GraphInv' /\ Present /\ Typed(OwnFiles) /\ (pc # "endless" => ErrorsKnown)
  BY GraphStep, SteadyIs DEF ErrorsInv, GraphInv
<1>2. SUFFICES ASSUME pc' # "endless" PROVE ErrorsKnown'
  BY <1>1 DEF ErrorsInv
<1>3. ASSUME NEW m \in Modules, NEW p \in Modules,
             SkipBlocker(m, p) \/ DeleteModule(m, p) \/ LoadFails(m, p) \/ AnalysisFails(m, p)
      PROVE  ErrorsKnown'
  BY <1>1, <1>2, <1>3, NoBlockers, ErrorsDeleted
<1>4. pc = "update" /\ Ids(pending) = {} => lastId # 0
  BY <1>1 DEF GraphInv, GraphKnown
<1>5. QED
  BY <1>1, <1>2, <1>3, <1>4, ErrorsCarried

\* Then every answer is that of a full build of the files as they are, whatever was
\* edited before: errors are never stale, and none is lost.
THEOREM AnswersOfFullBuild == UpdateSpec /\ Steady => []SameAsFullBuild
<1>1. UpdateInit /\ Steady => ErrorsInv
  BY GraphInitially, SteadyIs, ErrorsInitially DEF ErrorsInv, GraphInv
<1>2. ErrorsInv /\ [UpdateNext]_updateVars => ErrorsInv'
  BY ErrorsStep
<1>3. ErrorsInv => SameAsFullBuild
  <2>1. SUFFICES ASSUME ErrorsInv, pc = "idle", messages.blocker = 0
                 PROVE  FullBlockers(files, roots) = {} /\ messages.errors = FullErrors(files, roots)
    BY DEF SameAsFullBuild, Answered
  <2>2. PICK q, D, R, g, F : q = project /\ D = files /\ R = roots /\ g = graph /\ F = FullModules(files, roots)
    OBVIOUS
  <2>3. PICK look : look = Lookup(D, g)
    OBVIOUS
  <2>4. /\ GraphInv /\ Steady /\ Typed(OwnFiles) /\ GraphAtRest /\ ErrorsKnown
    BY <2>1 DEF ErrorsInv, GraphInv, GraphKnown
  <2>5. /\ q \in Projects /\ D \in Disks(q) /\ R \in SUBSET Modules /\ g \in GraphType
        /\ F = FullModules(D, R) /\ F \in SUBSET Modules
        /\ \A m \in Modules : D[m] # Absent /\ D[m].bad = "no"
        /\ \A m \in F : D[m].imports \subseteq F
    BY <2>2, <2>4, SteadyFiles DEF Typed
  <2>6. InGraph(g) = F /\ \A m \in F : g[m].tree = D[m]
    BY <2>2, <2>4 DEF GraphAtRest, Full
  <2>7. \A m \in F : g[m].iface = Interface(D[m], look)
    BY <2>2, <2>3, <2>4, <2>6 DEF ErrorsKnown
  <2>8. AllErrors(g, look) = FullErrors(D, R)
    BY <2>3, <2>5, <2>6, <2>7, FullErrorsAre
  <2>9. messages.errors = AllErrors(g, look)
    BY <2>1, <2>2, <2>3, <2>4 DEF ErrorsKnown
  <2>10. FullBlockers(D, R) = {}
    BY <2>5 DEF FullBlockers
  <2>11. QED
    BY <2>2, <2>8, <2>9, <2>10
<1>4. QED
  BY <1>1, <1>2, <1>3, PTL DEF UpdateSpec

(***************************************************************************)
(* Blocking errors, while imports stay as they are: what modules define    *)
(* and re-export changes, and so do the files that cannot be analysed.     *)
(***************************************************************************)
FixedImports == \A m \in Modules : \A v, w \in project.versions[m] : v # Absent /\ w # Absent => v.imports = w.imports

\* Whatever the sources are, they bring in the same modules.
OneProgram == \A D \in Disks(project) : \A R, S \in project.roots : R \subseteq FullModules(D, S)
Unchanging == Present /\ FixedImports /\ OneProgram

LEMMA SameModulesInAll ==
  ASSUME Unchanging, project \in Projects, NEW D \in Disks(project), NEW E \in Disks(project),
         NEW R \in project.roots, NEW S \in project.roots
  PROVE  /\ FullModules(D, R) = FullModules(E, S)
         /\ \A m \in Modules : D[m].imports = E[m].imports
<1>1. Present /\ FixedImports /\ OneProgram
  BY DEF Unchanging
<1>2. \A m \in Modules : D[m].imports = E[m].imports
  <2> TAKE m \in Modules
  <2>1. D[m] \in project.versions[m] /\ E[m] \in project.versions[m] /\ D[m] # Absent /\ E[m] # Absent
    BY <1>1, OnDisk DEF Present, AlwaysThere
  <2>2. QED
    BY <1>1, <2>1 DEF FixedImports
<1>3. PICK A, B : A = FullModules(D, R) /\ B = FullModules(E, S)
  OBVIOUS
<1>4. R \subseteq B /\ S \subseteq A
  BY <1>1, <1>3 DEF OneProgram
<1>5. /\ A \subseteq Modules /\ \A m \in A : D[m].imports \subseteq A
      /\ \A M \in SUBSET Modules : R \subseteq M /\ (\A m \in M : D[m].imports \subseteq M) => A \subseteq M
  BY <1>1, <1>3, PresentFiles
<1>6. /\ B \subseteq Modules /\ \A m \in B : E[m].imports \subseteq B
      /\ \A M \in SUBSET Modules : S \subseteq M /\ (\A m \in M : E[m].imports \subseteq M) => B \subseteq M
  BY <1>1, <1>3, PresentFiles
<1>7. A \subseteq B
  <2>1. \A m \in B : D[m].imports \subseteq B
    BY <1>2, <1>6
  <2>2. QED
    BY <1>4, <1>5, <1>6, <2>1
<1>8. B \subseteq A
  <2>1. \A m \in A : E[m].imports \subseteq A
    BY <1>2, <1>5
  <2>2. QED
    BY <1>4, <1>5, <1>6, <2>1
<1>9. QED
  BY <1>2, <1>3, <1>7, <1>8

\* The file of m has not changed, or imports have been followed as far as m since.
Seen(m) == m \notin changedFiles \ visited

\* What the update still has to process, or the next one will have to.
Open == IF pc = "update" THEN Ids(pending)
        ELSE IF messages.blocker = 0 THEN {} ELSE Ids(stale) \cup {messages.blocker}

\* The graph holds the program at any time, with the imports it always has.
ProgramLoaded ==
  /\ InGraph(graph) = Full /\ previousModules = Full
  /\ \A m \in Full : /\ graph[m].tree.bad = "no" /\ graph[m].tree.imports = files[m].imports
                     /\ graph[m].deps = files[m].imports /\ lastSeen[m] = files[m]
  /\ Ids(pending) \cup Ids(stale) \subseteq Full
  /\ blockingError # NoEntry => blockingError.id \in Full
  /\ pc # "crashed" /\ (pc = "idle" <=> step = "none")

\* Imports are followed wherever they lead, even though updates are blocked meanwhile.
Followed ==
  IF step = "none" THEN changedFiles = {}
  ELSE /\ roots \subseteq visited /\ visited \subseteq Full /\ Ids(queue) \subseteq visited
       /\ \A m \in visited \ Ids(queue) : files[m].imports \subseteq visited
       /\ step # "follow" => pc # "update" /\ Ids(queue) = {}

\* What is not up to date will be processed, and a blocking error is reported only
\* as long as it is there.
NothingForgotten ==
  /\ \A m \in Full : Seen(m) /\ m \notin Open => graph[m].tree = files[m]
  /\ IF pc = "update"
     THEN (Ids(pending) # {} \/ lastId # 0) /\ blockingError = NoEntry /\ removedSet = {}
     ELSE /\ Ids(pending) = {} /\ blockingError.id = messages.blocker
          /\ messages.blocker # 0 /\ Seen(messages.blocker) => IsBad(messages.blocker)

ProgramInv ==
  Unchanging /\ Typed(OwnFiles) /\ (pc # "endless" => ProgramLoaded /\ Followed /\ NothingForgotten)

LEMMA ProgramIs ==
  ASSUME Unchanging, Typed(OwnFiles)
  PROVE  /\ Present /\ NoSyntaxErrors /\ Suits(OwnFiles) /\ graph \in GraphType
         /\ \A n \in InGraph(graph) : Entry(n, graph[n].path) \in OwnFiles
         /\ \A n \in Modules : files[n] \in Contents /\ files[n] # Absent /\ files[n] # Unwatched
         /\ roots \subseteq Full /\ Full \in SUBSET Modules /\ \A n \in Full : files[n].imports \subseteq Full
         /\ \A M \in SUBSET Modules : roots \subseteq M /\ (\A n \in M : files[n].imports \subseteq M) => Full \subseteq M
<1>1. Present
  BY DEF Unchanging
<1>2. /\ NoSyntaxErrors /\ Suits(OwnFiles) /\ graph \in GraphType
      /\ \A n \in Modules : files[n] \in Contents /\ files[n] # Absent
  BY <1>1, PresentIs
<1>3. \A n \in Modules : files[n] # Unwatched
  BY <1>2, UpdateAssumption DEF UpdateBounds
<1>4. QED
  BY <1>1, <1>2, <1>3, PresentFiles DEF Typed, Listed, Full

LEMMA ProgramInitially ==
  ASSUME UpdateInit, Unchanging
  PROVE  ProgramInv
<1>1. FirstBuild /\ pc = "idle"
  BY DEF UpdateInit
<1>2. Typed(OwnFiles)
  BY StartsTyped DEF Suits, Unchanging, Present
<1>3. /\ InGraph(graph) = Full
      /\ \A m \in InGraph(graph) : graph[m].tree = files[m] /\ graph[m].deps = files[m].imports \cap InGraph(graph)
  BY <1>1, FirstGraph DEF Full
<1>4. /\ lastSeen = [m \in Modules |-> IF m \in Full THEN files[m] ELSE Unwatched]
      /\ previousModules = Full /\ step = "none" /\ pending = <<>> /\ changedFiles = {}
      /\ stale = <<>> /\ blockingError = NoEntry /\ FullBlockers(files, roots) = {}
      /\ messages = [blocker |-> 0, errors |-> complaints]
  BY <1>1 DEF FirstBuild, Full
<1>5. Full \in SUBSET Modules /\ \A m \in Full : files[m].imports \subseteq Full
  BY <1>2, ProgramIs
<1>6. \A m \in Full : files[m].bad = "no"
  BY <1>4 DEF FullBlockers, Full
<1>7. Ids(pending) = {} /\ Ids(stale) = {} /\ blockingError.id = 0 /\ messages.blocker = 0
  BY <1>4 DEF Ids, NoEntry
<1>8. ProgramLoaded
  <2>1. \A m \in Full : /\ graph[m].tree = files[m] /\ files[m].bad = "no" /\ lastSeen[m] = files[m]
                        /\ graph[m].deps = files[m].imports
    BY <1>3, <1>4, <1>5, <1>6
  <2>2. /\ InGraph(graph) = Full /\ previousModules = Full /\ Ids(pending) \cup Ids(stale) \subseteq Full
        /\ blockingError = NoEntry /\ pc = "idle" /\ step = "none"
    BY <1>1, <1>3, <1>4, <1>7
  <2>3. QED
    BY <2>1, <2>2 DEF ProgramLoaded
<1>9. Followed /\ NothingForgotten
  BY <1>1, <1>3, <1>4, <1>7 DEF Followed, NothingForgotten
<1>10. QED
  BY <1>2, <1>8, <1>9 DEF ProgramInv

\* An update that starts takes up what an earlier one has left.
LEMMA Restarted ==
  ASSUME ProgramInv, pc \in {"idle", "daemon"}, NEW C, C \subseteq Full,
         NEW s \in Seq(OwnFiles), Ids(s) = C, StartUpdate(s, <<>>)
  PROVE  /\ UNCHANGED <<graph, deps, complaints, targetsWithErrors, previousModules, messages, stale>>
         /\ Ids(pending') \subseteq Full /\ pc' = (IF C = {} THEN "daemon" ELSE "update")
         /\ C \cup Open \subseteq Open'
         /\ IF pc' = "update" THEN Ids(pending') # {} /\ blockingError' = NoEntry /\ removedSet' = {} /\ lastId' = 0
            ELSE Ids(pending') = {} /\ blockingError' = blockingError
<1>1. Typed(OwnFiles) /\ Suits(OwnFiles) /\ ProgramLoaded /\ NothingForgotten
  BY ProgramIs DEF ProgramInv
<1>2. <<>> \in Seq(OwnFiles) /\ Ids(<<>>) = {}
  BY EmptySeq DEF Ids
<1>3. /\ UNCHANGED <<graph, deps, complaints, targetsWithErrors, previousModules, messages, stale>>
      /\ C = {} => pc' = "daemon" /\ UNCHANGED <<blockingError, pending>>
      /\ C # {} => /\ pc' = "update" /\ blockingError' = NoEntry /\ removedSet' = {} /\ lastId' = 0
                   /\ Ids(pending') = C \cup Ids(stale)
                                       \cup (IF blockingError = NoEntry THEN {} ELSE {blockingError.id})
  <2>1. PICK none : none = <<>>
    OBVIOUS
  <2>2. none \in Seq(OwnFiles) /\ Ids(none) = {} /\ StartUpdate(s, none)
    BY <1>2, <2>1
  <2>3. QED
    BY <1>1, <2>2, UpdateStarted DEF Typed, Listed
<1>4. Ids(pending) = {} /\ blockingError.id = messages.blocker /\ Open \subseteq Ids(stale) \cup {messages.blocker}
  BY <1>1 DEF NothingForgotten, Open
<1>5. NoEntry.id = 0
  BY DEF NoEntry
<1>6. CASE C = {}
  <2>1. Open' = Open
    BY <1>3, <1>6 DEF Open
  <2>2. QED
    BY <1>3, <1>4, <1>6, <2>1
<1>7. CASE C # {}
  <2>1. Open' = Ids(pending')
    BY <1>3, <1>7 DEF Open
  <2>2. messages.blocker # 0 => blockingError # NoEntry
    BY <1>4, <1>5
  <2>3. Open \subseteq Ids(pending')
    BY <1>3, <1>4, <1>7, <2>2 DEF Open
  <2>4. Ids(stale) \subseteq Full /\ (blockingError # NoEntry => blockingError.id \in Full)
    BY <1>1 DEF ProgramLoaded
  <2>5. QED
    BY <1>3, <1>7, <2>1, <2>3, <2>4
<1>8. QED
  BY <1>6, <1>7

\* Steps between increments and between updates.
LEMMA GoesOn ==
  ASSUME ProgramInv, pc \in {"idle", "daemon"}, NEW C, C \subseteq Full,
         NEW s \in Seq(OwnFiles), Ids(s) = C, StartUpdate(s, <<>>), Full' = Full, step' # "none",
         \A m \in Full : files'[m].imports = files[m].imports /\ lastSeen'[m] = files'[m],
         \A m \in Full : Seen(m)' /\ m \notin C => Seen(m) /\ files'[m] = files[m]
  PROVE  ProgramLoaded' /\ NothingForgotten' /\ graph' = graph /\ pc' = (IF C = {} THEN "daemon" ELSE "update")
<1>1. ProgramLoaded /\ NothingForgotten
  BY DEF ProgramInv
<1>2. /\ UNCHANGED <<graph, previousModules, messages, stale>>
      /\ Ids(pending') \subseteq Full /\ pc' = (IF C = {} THEN "daemon" ELSE "update")
      /\ C \cup Open \subseteq Open'
      /\ IF pc' = "update" THEN Ids(pending') # {} /\ blockingError' = NoEntry /\ removedSet' = {} /\ lastId' = 0
         ELSE Ids(pending') = {} /\ blockingError' = blockingError
  BY Restarted
<1>3. ProgramLoaded'
  BY <1>1, <1>2 DEF ProgramLoaded
<1>4. PICK F, before, now : F = Full /\ before = Open /\ now = Open'
  OBVIOUS
<1>5. \A m \in F : Seen(m)' /\ m \notin now => graph'[m].tree = files'[m]
  <2>1. \A m \in F : m \notin now => m \notin C /\ m \notin before
    BY <1>2, <1>4
  <2>2. \A m \in F : Seen(m) /\ m \notin before => graph[m].tree = files[m]
    BY <1>1, <1>4 DEF NothingForgotten
  <2>3. QED
    BY <1>2, <1>4, <2>1, <2>2
<1>6. PICK b : b = messages.blocker
  OBVIOUS
<1>7. ASSUME pc' # "update"
      PROVE  /\ Ids(pending') = {} /\ blockingError'.id = b /\ messages'.blocker = b
             /\ b # 0 /\ Seen(b)' => IsBad(b)'
  <2>1. C = {} /\ Ids(pending') = {} /\ blockingError' = blockingError /\ messages' = messages
    BY <1>2, <1>7
  <2>2. blockingError.id = b /\ (b # 0 /\ Seen(b) => IsBad(b)) /\ NoEntry.id = 0
    BY <1>1, <1>2, <1>6 DEF NothingForgotten, NoEntry
  <2>3. ASSUME b # 0, Seen(b)' PROVE IsBad(b)'
    <3>1. b \in Full
      BY <1>1, <2>2, <2>3 DEF ProgramLoaded
    <3>2. Seen(b) /\ files'[b] = files[b]
      BY <2>1, <2>3, <3>1
    <3>3. IsBad(b)
      BY <2>2, <2>3, <3>2
    <3>4. QED
      BY <3>2, <3>3 DEF IsBad
  <2>4. QED
    BY <1>6, <2>1, <2>2, <2>3
<1>8. NothingForgotten'
  <2>1. \A m \in Full' : Seen(m)' /\ m \notin Open' => graph'[m].tree = files'[m]
    BY <1>4, <1>5
  <2>2. CASE pc' = "update"
    BY <1>2, <2>1, <2>2 DEF NothingForgotten
  <2>3. CASE pc' # "update"
    BY <1>7, <2>1, <2>3 DEF NothingForgotten, Seen, IsBad
  <2>4. QED
    BY <2>2, <2>3
<1>9. QED
  BY <1>2, <1>3, <1>8

LEMMA ProgramChecked ==
  ASSUME ProgramInv, NEW R \in project.roots, NEW D \in Disks(project), CheckFiles(R, D)
  PROVE  ProgramLoaded' /\ Followed' /\ NothingForgotten' /\ graph' = graph
<1>1. /\ Unchanging /\ Typed(OwnFiles) /\ Suits(OwnFiles) /\ graph \in GraphType /\ ProgramLoaded
      /\ project \in Projects /\ files \in Disks(project) /\ roots \in project.roots
      /\ \A n \in InGraph(graph) : Entry(n, graph[n].path) \in OwnFiles
      /\ \A n \in Modules : files[n] # Unwatched
  BY ProgramIs DEF ProgramInv, CheckFiles, Typed
<1>2. PICK known : known = {m \in Modules : lastSeen[m] # Unwatched} \cup R
  OBVIOUS
<1>3. PICK changed : changed = {m \in known : D[m] # (IF lastSeen[m] = Unwatched THEN Absent ELSE lastSeen[m])}
  OBVIOUS
<1>4. PICK reached : reached = Reached(graph, R, R, changed)
  OBVIOUS
<1>5. PICK edited : edited = {m \in reached : PathOf(graph, m) \in changed}
  OBVIOUS
<1>6. PICK fresh : fresh = ExplicitlyNew(R, edited)
  OBVIOUS
<1>7. /\ pc = "idle" /\ files' = D /\ roots' = R /\ changedFiles' = changed /\ visited' = reached /\ step' = "follow"
      /\ lastSeen' = [m \in Modules |-> IF m \in known THEN D[m] ELSE Unwatched]
  BY <1>2, <1>3, <1>4 DEF CheckFiles
<1>8. PICK s \in Entries(graph, edited), t \in Entries(graph, fresh) :
        queue' = s \o t /\ StartUpdate(s \o t, <<>>)
  BY <1>2, <1>3, <1>4, <1>5, <1>6 DEF CheckFiles, ExplicitlyNew
<1>9. PICK F : F = Full
  OBVIOUS
<1>10. /\ F \in SUBSET Modules /\ R \in SUBSET Modules /\ R \subseteq F
       /\ \A m \in F : D[m].imports = files[m].imports /\ files[m].imports \subseteq F
       /\ FullModules(D, R) = F
  <2>1. F \in SUBSET Modules /\ \A m \in F : files[m].imports \subseteq F
    BY <1>1, <1>9, ProgramIs
  <2>2. FullModules(D, R) = F /\ \A m \in Modules : D[m].imports = files[m].imports
    BY <1>1, <1>9, SameModulesInAll DEF Full
  <2>3. R \subseteq F /\ R \in SUBSET Modules
    BY <1>1, <2>2, PresentFiles DEF Unchanging
  <2>4. QED
    BY <2>1, <2>2, <2>3
<1>11. /\ InGraph(graph) = F /\ step = "none"
       /\ \A m \in F : graph[m].deps = files[m].imports /\ lastSeen[m] = files[m] /\ graph[m].path = m
  BY <1>1, <1>7, <1>9, OwnPaths DEF ProgramLoaded
<1>12. /\ R \subseteq reached /\ reached \subseteq Modules
       /\ \A m \in reached \cap F : m \notin changed => graph[m].deps \ R \subseteq reached
       /\ \A M \in SUBSET Modules :
              R \subseteq M /\ (\A m \in M \cap F : m \notin changed => graph[m].deps \ R \subseteq M)
                => reached \subseteq M
  BY <1>1, <1>4, <1>10, <1>11, ReachedAre
<1>13. reached \subseteq F
  BY <1>10, <1>11, <1>12
<1>14. edited = {m \in reached : m \in changed} /\ fresh \subseteq R /\ edited \in SUBSET Modules /\ fresh \in SUBSET Modules
  BY <1>1, <1>5, <1>6, <1>10, <1>12, OwnPaths DEF ExplicitlyNew
<1>15. s \in Seq(OwnFiles) /\ Ids(s) = edited /\ t \in Seq(OwnFiles) /\ Ids(t) = fresh
  BY <1>1, <1>8, <1>14, EntriesAre
<1>16. PICK C, l : C = edited \cup fresh /\ l = s \o t
  OBVIOUS
<1>17. l \in Seq(OwnFiles) /\ Ids(l) = C /\ queue' = l /\ StartUpdate(l, <<>>)
  BY <1>1, <1>8, <1>15, <1>16, Joined, SuitsAre
<1>18. C \subseteq reached /\ C \subseteq F /\ Full' = F
  BY <1>7, <1>10, <1>12, <1>13, <1>14, <1>16 DEF Full
<1>19. \A m \in F : m \in known /\ (m \in changed <=> D[m] # files[m])
  BY <1>1, <1>2, <1>3, <1>10, <1>11
<1>20. \A m \in F : Seen(m)' /\ m \notin C => Seen(m) /\ files'[m] = files[m]
  <2>1. changedFiles = {}
    BY <1>7, <1>11 DEF ProgramInv, Followed
  <2>2. \A m \in F : Seen(m)' /\ m \notin C => m \notin changed
    BY <1>7, <1>14, <1>16 DEF Seen
  <2>3. QED
    BY <1>7, <1>19, <2>1, <2>2 DEF Seen
<1>21. ProgramLoaded' /\ NothingForgotten' /\ graph' = graph
  <2>1. \A m \in F : files'[m].imports = files[m].imports /\ lastSeen'[m] = files'[m]
    BY <1>7, <1>10, <1>19
  <2>2. QED
    BY <1>7, <1>9, <1>17, <1>18, <1>20, <2>1, GoesOn
<1>22. Followed'
  <2>1. ASSUME NEW m \in reached \ C PROVE D[m].imports \subseteq reached
    <3>1. m \in F /\ m \notin changed
      BY <1>13, <1>14, <1>16, <2>1
    <3>2. QED
      BY <1>10, <1>11, <1>12, <2>1, <3>1
  <2>2. QED
    BY <1>7, <1>12, <1>13, <1>17, <1>18, <2>1 DEF Followed
<1>23. QED
  BY <1>21, <1>22

LEMMA ProgramFollowed ==
  ASSUME ProgramInv, FollowImports
  PROVE  ProgramLoaded' /\ Followed' /\ NothingForgotten' /\ graph' = graph
<1>1. /\ Typed(OwnFiles) /\ Suits(OwnFiles) /\ graph \in GraphType /\ ProgramLoaded /\ Unchanging
      /\ \A n \in InGraph(graph) : Entry(n, graph[n].path) \in OwnFiles
  BY ProgramIs DEF ProgramInv, FollowImports
<1>2. /\ pc = "daemon" /\ step = "follow" /\ queue # <<>>
      /\ UNCHANGED <<files, roots, step, lastSeen, changedFiles>>
  BY DEF FollowImports, diskVars
<1>3. PICK m : m = Last(queue).id
  OBVIOUS
<1>4. Front(queue) \in Seq(OwnFiles) /\ Ids(queue) = Ids(Front(queue)) \cup {m}
  BY <1>1, <1>2, <1>3, ListIds, SuitsAre DEF Typed, Listed
<1>5. PICK F, Q, V : F = Full /\ Q = Ids(queue) /\ V = visited
  OBVIOUS
<1>6. /\ InGraph(graph) = F /\ F \in SUBSET Modules
      /\ \A n \in F : /\ graph[n].deps = files[n].imports /\ lastSeen[n] = files[n] /\ files[n].imports \subseteq F
                      /\ graph[n].path = n /\ PathOf(graph, n) = n /\ graph[n] # NotLoaded
      /\ roots \subseteq V /\ V \subseteq F /\ Q \subseteq V
      /\ \A n \in V \ Q : files[n].imports \subseteq V
  BY <1>1, <1>2, <1>5, ProgramIs, OwnPaths, InGraphAre, NotThere DEF ProgramInv, ProgramLoaded, Followed
<1>7. m \in F /\ m \in V
  BY <1>4, <1>5, <1>6
<1>8. PICK S, before, changed : S = graph[m].deps \ visited /\ before = visited /\ changed = changedFiles
  OBVIOUS
<1>9. PICK reached : reached = Reached(graph, S, before, changed)
  OBVIOUS
<1>10. S \in SUBSET Modules /\ S \subseteq F
  BY <1>6, <1>7, <1>8
<1>11. /\ S \subseteq reached /\ reached \subseteq Modules
       /\ \A n \in reached \cap F : n \notin changedFiles => graph[n].deps \ V \subseteq reached
       /\ \A M \in SUBSET Modules :
            S \subseteq M /\ (\A n \in M \cap F : n \notin changedFiles => graph[n].deps \ V \subseteq M) => reached \subseteq M
  <2>1. /\ S \subseteq reached /\ reached \subseteq Modules
        /\ \A n \in reached \cap InGraph(graph) : graph[n].path \notin changed => graph[n].deps \ before \subseteq reached
        /\ \A M \in SUBSET Modules :
             S \subseteq M
             /\ (\A n \in M \cap InGraph(graph) : graph[n].path \notin changed => graph[n].deps \ before \subseteq M)
               => reached \subseteq M
    BY <1>1, <1>9, <1>10, ReachedAre
  <2>2. InGraph(graph) = F /\ before = V /\ changed = changedFiles
    BY <1>5, <1>6, <1>8
  <2>3. \A n \in F : graph[n].path \notin changed <=> n \notin changedFiles
    BY <1>6, <2>2
  <2>4. QED
    BY <2>1, <2>2, <2>3
<1>12. reached \subseteq F
  BY <1>6, <1>10, <1>11
<1>13. PICK C : C = {n \in reached : PathOf(graph, n) \in changedFiles}
  OBVIOUS
<1>14. PICK s \in Entries(graph, C) :
         visited' = visited \cup reached /\ queue' = Front(queue) \o s /\ StartUpdate(s, <<>>)
  <2>1. graph[m] # NotLoaded /\ graph[m].deps \cup reached \subseteq InGraph(graph)
    BY <1>6, <1>7, <1>12
  <2>2. QED
    BY <1>3, <1>8, <1>9, <1>13, <2>1 DEF FollowImports
<1>15. C = {n \in reached : n \in changedFiles} /\ C \in SUBSET Modules /\ C \subseteq F
  BY <1>6, <1>11, <1>12, <1>13
<1>16. s \in Seq(OwnFiles) /\ Ids(s) = C
  BY <1>1, <1>14, <1>15, EntriesAre
<1>17. Ids(queue') = Ids(Front(queue)) \cup C
  <2>1. PICK f, l : f = Front(queue) /\ l = f \o s
    OBVIOUS
  <2>2. f \in Seq(OwnFiles) /\ queue' = l
    BY <1>4, <1>14, <2>1
  <2>3. Ids(l) = Ids(f) \cup C
    BY <1>1, <1>16, <2>1, <2>2, Joined, SuitsAre
  <2>4. QED
    BY <2>1, <2>2, <2>3
<1>18. Full' = F
  BY <1>2, <1>5 DEF Full
<1>19. ProgramLoaded' /\ NothingForgotten' /\ graph' = graph
  <2>1. \A n \in F : files'[n].imports = files[n].imports /\ lastSeen'[n] = files'[n]
    BY <1>2, <1>6
  <2>2. \A n \in F : Seen(n)' /\ n \notin C => Seen(n) /\ files'[n] = files[n]
    BY <1>2, <1>5, <1>14, <1>15 DEF Seen
  <2>3. QED
    BY <1>2, <1>5, <1>14, <1>15, <1>16, <1>18, <2>1, <2>2, GoesOn
<1>20. \A n \in (V \cup reached) \ Ids(queue') : files[n].imports \subseteq V \cup reached
  <2> TAKE n \in (V \cup reached) \ Ids(queue')
  <2>1. CASE n \in V \ Q
    BY <1>6, <2>1
  <2>2. CASE n \in V /\ n \in Q
    <3>1. n = m
      BY <1>4, <1>5, <1>17, <2>2
    <3>2. QED
      BY <1>5, <1>6, <1>7, <1>8, <1>11, <3>1
  <2>3. CASE n \notin V
    <3>1. n \in reached /\ n \notin changedFiles /\ n \in F
      BY <1>12, <1>15, <1>17, <2>3
    <3>2. QED
      BY <1>6, <1>11, <3>1
  <2>4. QED
    BY <2>1, <2>2, <2>3
<1>21. Followed'
  <2>1. Ids(queue') \subseteq V \cup reached
    BY <1>4, <1>5, <1>6, <1>15, <1>17
  <2>2. QED
    BY <1>2, <1>5, <1>6, <1>12, <1>14, <1>18, <1>20, <2>1 DEF Followed
<1>22. QED
  BY <1>19, <1>21

\* All modules of the program have been visited, and none is found in addition.
LEMMA ProgramComplete ==
  ASSUME ProgramInv, AddSuppressed \/ DeleteUnreached
  PROVE  ProgramLoaded' /\ Followed' /\ NothingForgotten' /\ graph' = graph
<1>1. /\ pc = "daemon" /\ step \in {"follow", "delete"} /\ Ids(queue) = {} /\ step' \in {"delete", "finish"}
      /\ UNCHANGED <<files, roots, changedFiles, queue>>
  <2>1. CASE AddSuppressed
    <3>1. Unsuppressed = {}
      BY <2>1 DEF AddSuppressed, ProgramInv, ProgramLoaded, Unsuppressed
    <3>2. QED
      BY <2>1, <3>1 DEF AddSuppressed, Ids, diskVars
  <2>2. CASE DeleteUnreached
    BY <2>2 DEF DeleteUnreached, ProgramInv, Followed, diskVars
  <2>3. QED
    BY <2>1, <2>2
<1>2. /\ Typed(OwnFiles) /\ Suits(OwnFiles) /\ graph \in GraphType /\ ProgramLoaded /\ Followed /\ Unchanging
      /\ \A n \in InGraph(graph) : Entry(n, graph[n].path) \in OwnFiles
  BY <1>1, ProgramIs DEF ProgramInv
<1>3. PICK F : F = Full
  OBVIOUS
<1>4. /\ F \in SUBSET Modules /\ visited = F /\ roots \subseteq F /\ \A n \in F : files[n].imports \subseteq F
  <2>1. /\ F \in SUBSET Modules /\ roots \subseteq F /\ \A n \in F : files[n].imports \subseteq F
        /\ \A M \in SUBSET Modules : roots \subseteq M /\ (\A n \in M : files[n].imports \subseteq M) => F \subseteq M
    BY <1>2, <1>3, ProgramIs
  <2>2. roots \subseteq visited /\ visited \subseteq F /\ \A m \in visited : files[m].imports \subseteq visited
    BY <1>1, <1>2, <1>3 DEF Followed
  <2>3. QED
    BY <2>1, <2>2
<1>5. /\ InGraph(graph) = F
      /\ \A m \in F : graph[m].deps = graph[m].tree.imports /\ lastSeen[m] = files[m]
  BY <1>2, <1>3 DEF ProgramLoaded
<1>6. visited' = F /\ (\A m \in F : lastSeen'[m] = files[m]) /\ StartUpdate(<<>>, <<>>)
  <2>1. ASSUME NEW S, S = {}, NEW s \in Entries(graph, S) PROVE s = <<>>
    <3>1. s \in Seq(OwnFiles) /\ Ids(s) = {}
      BY <1>2, <2>1, EntriesAre
    <3>2. QED
      BY <1>2, <3>1, ListIds, SuitsAre
  <2>2. CASE AddSuppressed
    <3>1. Unsuppressed = {}
      BY <1>5 DEF Unsuppressed
    <3>2. visited' = visited /\ lastSeen' = [m \in Modules |-> lastSeen[m]]
      BY <2>2, <3>1 DEF AddSuppressed
    <3>3. PICK S : S = Unsuppressed
      OBVIOUS
    <3>4. PICK s \in Entries(graph, S) : StartUpdate(s, <<>>)
      BY <2>2, <3>3 DEF AddSuppressed
    <3>5. s = <<>>
      BY <2>1, <3>1, <3>3, <3>4
    <3>6. StartUpdate(<<>>, <<>>)
      BY <3>4, <3>5
    <3>7. QED
      BY <1>4, <1>5, <3>2, <3>6
  <2>3. CASE DeleteUnreached
    <3>1. PICK S : S = (origModules \cap InGraph(graph)) \ visited
      OBVIOUS
    <3>2. PICK s \in Entries(graph, S) : StartUpdate(<<>>, s)
      BY <2>3, <3>1 DEF DeleteUnreached
    <3>3. S = {}
      BY <1>4, <1>5, <3>1
    <3>4. s = <<>>
      BY <2>1, <3>2, <3>3
    <3>5. StartUpdate(<<>>, <<>>)
      BY <3>2, <3>4
    <3>6. visited' = visited /\ lastSeen' = lastSeen
      BY <2>3 DEF DeleteUnreached
    <3>7. QED
      BY <1>4, <1>5, <3>5, <3>6
  <2>4. QED
    BY <2>2, <2>3
<1>7. Full' = F
  BY <1>1, <1>3 DEF Full
<1>8. /\ ProgramLoaded' /\ NothingForgotten' /\ graph' = graph /\ pc' = "daemon"
  <2>1. PICK C, s : C = {} /\ s = <<>>
    OBVIOUS
  <2>2. C \subseteq Full /\ s \in Seq(OwnFiles) /\ Ids(s) = C /\ StartUpdate(s, <<>>)
    BY <1>6, <2>1, EmptySeq DEF Ids
  <2>3. \A m \in Full : files'[m].imports = files[m].imports /\ lastSeen'[m] = files'[m]
    BY <1>1, <1>3, <1>6
  <2>4. \A m \in Full : Seen(m)' /\ m \notin C => Seen(m) /\ files'[m] = files[m]
    BY <1>1, <1>3, <1>4 DEF Seen
  <2>5. QED
    BY <1>1, <1>3, <1>7, <2>1, <2>2, <2>3, <2>4, GoesOn
<1>9. Followed'
  BY <1>1, <1>4, <1>6, <1>7, <1>8 DEF Followed
<1>10. QED
  BY <1>8, <1>9

LEMMA ProgramRests ==
  ASSUME ProgramInv, FinishIncrement
  PROVE  ProgramLoaded' /\ Followed' /\ NothingForgotten'
<1>1. /\ pc = "daemon" /\ step = "finish" /\ pc' = "idle" /\ step' = "none"
      /\ changedFiles' = {} /\ visited' = {} /\ pending' = <<>>
      /\ lastSeen' = [m \in Modules |->
                  IF lastSeen[m] # Unwatched \/ \E n \in InGraph(graph) : graph[n].path = m
                  THEN files[m] ELSE Unwatched]
      /\ UNCHANGED <<files, roots, previousModules, messages, blockingError, stale>>
  BY DEF FinishIncrement, diskVars
<1>2. /\ Unchanging /\ Typed(OwnFiles) /\ graph \in GraphType /\ ProgramLoaded /\ Followed /\ NothingForgotten
  BY <1>1, ProgramIs DEF ProgramInv
<1>3. PICK F : F = Full
  OBVIOUS
<1>4. /\ F \in SUBSET Modules /\ visited = F /\ \A n \in F : files[n].imports \subseteq F /\ files[n] # Unwatched
  <2>1. /\ F \in SUBSET Modules /\ \A n \in F : files[n].imports \subseteq F
        /\ \A M \in SUBSET Modules : roots \subseteq M /\ (\A n \in M : files[n].imports \subseteq M) => F \subseteq M
        /\ \A n \in Modules : files[n] # Unwatched
    BY <1>2, <1>3, ProgramIs
  <2>2. roots \subseteq visited /\ visited \subseteq F /\ \A m \in visited : files[m].imports \subseteq visited
    BY <1>1, <1>2, <1>3 DEF Followed
  <2>3. QED
    BY <2>1, <2>2
<1>5. PICK g, h : /\ g = graph
                  /\ h = [m \in Modules |-> IF g[m] = NotLoaded THEN NotLoaded
                                            ELSE [g[m] EXCEPT !.deps = g[m].tree.imports \cap InGraph(g)]]
  OBVIOUS
<1>6. graph' = h
  BY <1>5 DEF FinishIncrement
<1>7. /\ InGraph(h) = InGraph(g)
      /\ \A m \in InGraph(g) : h[m].tree = g[m].tree /\ h[m].deps = g[m].tree.imports \cap InGraph(g)
  <2>1. g \in GraphType
    BY <1>2, <1>5
  <2>2. h = [m \in Modules |-> IF g[m] = NotLoaded THEN NotLoaded
                                ELSE [g[m] EXCEPT !.deps = g[m].tree.imports \cap InGraph(g)]]
    BY <1>5
  <2>3. /\ h \in GraphType /\ InGraph(h) = InGraph(g)
        /\ \A m \in InGraph(g) : /\ h[m].path = g[m].path /\ h[m].tree = g[m].tree /\ h[m].iface = g[m].iface
                                 /\ h[m].deps = g[m].tree.imports \cap InGraph(g)
    BY <2>1, <2>2, DepsFixed
  <2>4. QED
    BY <2>3, Zenon
<1>8. /\ InGraph(g) = F /\ previousModules = F
      /\ \A m \in F : g[m].tree.bad = "no" /\ g[m].tree.imports = files[m].imports /\ lastSeen[m] = files[m]
      /\ Ids(stale) \subseteq F /\ (blockingError # NoEntry => blockingError.id \in F)
  BY <1>2, <1>3, <1>5 DEF ProgramLoaded
<1>9. Full' = F /\ Ids(pending') = {}
  BY <1>1, <1>3 DEF Full, Ids
<1>10. /\ InGraph(graph') = F
       /\ \A m \in F : /\ graph'[m].tree = g[m].tree /\ graph'[m].deps = files[m].imports
                       /\ lastSeen'[m] = files[m]
  BY <1>1, <1>4, <1>6, <1>7, <1>8
<1>11. ProgramLoaded'
  BY <1>1, <1>8, <1>9, <1>10 DEF ProgramLoaded
<1>12. Followed'
  BY <1>1 DEF Followed
<1>13. PICK now : now = Open
  OBVIOUS
<1>14. Open' = now
  BY <1>1, <1>13 DEF Open
<1>15. /\ \A m \in F : m \notin now => g[m].tree = files[m]
       /\ blockingError.id = messages.blocker
       /\ messages.blocker # 0 => IsBad(messages.blocker)
  <2>1. messages.blocker # 0 => messages.blocker \in F
    BY <1>1, <1>2, <1>3 DEF NothingForgotten, ProgramLoaded, NoEntry
  <2>2. QED
    BY <1>1, <1>2, <1>3, <1>4, <1>5, <1>13, <2>1 DEF NothingForgotten, Seen
<1>16. NothingForgotten'
  BY <1>1, <1>9, <1>10, <1>14, <1>15 DEF NothingForgotten, IsBad
<1>17. QED
  BY <1>11, <1>12, <1>16

LEMMA ProgramFinished ==
  ASSUME ProgramInv, FinishUpdate, pc' # "endless"
  PROVE  ProgramLoaded' /\ Followed' /\ NothingForgotten'
<1>1. /\ pc = "update" /\ pending = <<>> /\ UNCHANGED <<diskVars, serverVars, previousModules, blockingError, stale, localVars>>
      /\ messages'.blocker = 0
  BY DEF FinishUpdate
<1>2. /\ UNCHANGED <<files, roots, step, lastSeen, changedFiles, queue, visited, previousModules, blockingError, stale, pending>>
      /\ Ids(pending) = {}
  BY <1>1 DEF diskVars, serverVars, localVars, Ids
<1>3. ProgramLoaded /\ Followed /\ NothingForgotten
  BY <1>1 DEF ProgramInv
<1>4. SameModules(graph', graph) /\ pc' = "daemon"
  BY FinishedTyped DEF ProgramInv, Typed
<1>5. /\ InGraph(graph') = InGraph(graph)
      /\ \A n \in InGraph(graph) : graph'[n].tree = graph[n].tree /\ graph'[n].deps = graph[n].deps
  BY <1>4 DEF SameModules
<1>6. PICK F : F = Full
  OBVIOUS
<1>7. Full' = F
  BY <1>2, <1>6 DEF Full
<1>8. InGraph(graph) = F /\ (pc = "idle" <=> step = "none")
  BY <1>3, <1>6 DEF ProgramLoaded
<1>9. ProgramLoaded'
  BY <1>1, <1>2, <1>3, <1>4, <1>5, <1>6, <1>7, <1>8 DEF ProgramLoaded
<1>10. Followed'
  BY <1>1, <1>2, <1>3, <1>4, <1>6, <1>7 DEF Followed
<1>11. \A m \in F : Seen(m) => graph[m].tree = files[m]
  BY <1>1, <1>2, <1>3, <1>6 DEF NothingForgotten, Open
<1>12. blockingError.id = 0
  BY <1>1, <1>3 DEF NothingForgotten, NoEntry
<1>13. NothingForgotten'
  BY <1>1, <1>2, <1>4, <1>5, <1>7, <1>8, <1>11, <1>12 DEF NothingForgotten, Seen
<1>14. QED
  BY <1>9, <1>10, <1>13

\* What is pending is loaded already, and so nothing else comes with it.
LEMMA ProgramNext ==
  ASSUME ProgramInv, pc = "update"
  PROVE  /\ ProgramLoaded /\ Followed /\ NothingForgotten /\ removedSet = {}
         /\ \A m \in Modules, p \in Modules : ~SkipBlocker(m, p) /\ ~DeleteModule(m, p) /\ ~LoadFails(m, p)
<1>1. ProgramLoaded /\ Followed /\ NothingForgotten /\ removedSet = {}
  BY DEF ProgramInv, NothingForgotten
<1>2. Typed(OwnFiles) /\ NoSyntaxErrors /\ Suits(OwnFiles) /\ \A n \in Modules : files[n] # Absent
  BY ProgramIs DEF ProgramInv
<1>3. ASSUME NEW m \in Modules, NEW p \in Modules PROVE ~SkipBlocker(m, p)
  <2>1. IsNext(m, p) => m \in previousModules
    BY <1>1, <1>2, NextIs DEF ProgramLoaded, Typed, Listed
  <2>2. QED
    BY <2>1 DEF SkipBlocker, IsSkipped
<1>4. ASSUME NEW m \in Modules, NEW p \in Modules PROVE ~DeleteModule(m, p) /\ ~LoadFails(m, p)
  <2>1. ~DeleteModule(m, p)
    BY <1>1, <1>2 DEF DeleteModule
  <2>2. CanLoad(m, p) => Unloadable(m, p) = {}
    BY <1>2, AllLoadable
  <2>3. QED
    BY <2>1, <2>2 DEF LoadFails
<1>5. QED
  BY <1>1, <1>3, <1>4

LEMMA ProgramProcessed ==
  ASSUME ProgramInv, NEW m, NEW p, ProcessModule(m, p), pc' # "endless"
  PROVE  ProgramLoaded' /\ Followed' /\ NothingForgotten'
<1>1. /\ Present /\ Typed(OwnFiles) /\ pc = "update"
      /\ Full \in SUBSET Modules /\ \A n \in Full : files[n].imports \subseteq Full
      /\ \A n \in Modules : files[n].imports \subseteq Modules
  BY ProgramIs, PresentIs DEF ProgramInv, ProcessModule, CanLoad, IsNext
<1>2. PICK x, new, h, e, triggered, rest :
        /\ Processed(m, x, new, h) /\ Analysed(x, h, e, triggered)
        /\ Propagated(x, h, e, triggered, rest)
        /\ Ids(pending') = (Ids(pending) \cup new) \ {x}
        /\ deps' = [i \in Modules |-> IF i \in files[x].imports THEN deps[i] \cup {x} ELSE deps[i]]
        /\ UNCHANGED <<diskVars, serverVars>>
  BY <1>1, ProcessedIs
<1>3. /\ m \in Ids(pending) /\ new \in SUBSET Modules /\ m \in new /\ new \cap InGraph(graph) \subseteq {m} /\ x \in new
      /\ \A M \in SUBSET Modules : m \in M /\ (\A n \in M : files[n].imports \subseteq M) => new \subseteq M
      /\ h \in GraphType /\ InGraph(h) = InGraph(graph) \cup {x}
      /\ h[x].tree = files[x] /\ h[x].deps = files[x].imports /\ files[x].bad = "no"
      /\ \A n \in InGraph(graph) \ {x} :
           /\ h[n].tree = graph[n].tree
           /\ graph[n].deps \subseteq h[n].deps /\ h[n].deps \subseteq graph[n].deps \cup graph[n].tree.imports
  BY <1>2 DEF Processed
<1>4. ProgramLoaded /\ Followed /\ NothingForgotten /\ removedSet = {}
  BY <1>1, ProgramNext
<1>5. /\ UNCHANGED <<files, roots, step, lastSeen, changedFiles, queue, visited, blockingError, stale, removedSet>>
      /\ previousModules' = InGraph(graph') /\ lastId' = x
  BY <1>2 DEF Propagated, diskVars, serverVars
<1>6. /\ InGraph(graph') = InGraph(h) /\ pc' = "update"
      /\ \A n \in InGraph(h) : graph'[n].tree = h[n].tree /\ graph'[n].deps = h[n].deps
  <2>1. e \in ErrorsType /\ triggered \in SUBSET Modules
    BY <1>2, <1>3 DEF Analysed
  <2>2. deps' \in DepsType
    BY <1>1, <1>2, <1>3 DEF Typed, DepsType
  <2>3. SameModules(graph', h) /\ pc' \in {pc, "endless"}
    BY <1>2, <1>3, <2>1, <2>2, PropagatedTyped
  <2>4. QED
    BY <1>1, <2>3 DEF SameModules
<1>7. PICK F, P : F = Full /\ P = Ids(pending)
  OBVIOUS
<1>8. /\ InGraph(graph) = F /\ P \subseteq F /\ Ids(stale) \subseteq F /\ step # "none" /\ blockingError = NoEntry
      /\ \A n \in F : /\ graph[n].tree.bad = "no" /\ graph[n].tree.imports = files[n].imports
                      /\ graph[n].deps = files[n].imports /\ lastSeen[n] = files[n]
  BY <1>1, <1>4, <1>7 DEF ProgramLoaded, NothingForgotten
<1>9. new = {m} /\ x = m /\ m \in F
  BY <1>1, <1>3, <1>7, <1>8
<1>10. /\ Full' = F /\ InGraph(graph') = F /\ Ids(pending') = P \ {m}
       /\ graph'[m].tree = files[m] /\ files[m].bad = "no" /\ graph'[m].deps = files[m].imports
       /\ \A n \in F \ {m} : graph'[n].tree = graph[n].tree /\ graph'[n].deps = graph[n].deps
  <2>1. Full' = F
    BY <1>5, <1>7 DEF Full
  <2>2. ASSUME NEW n \in F \ {m} PROVE h[n].deps = graph[n].deps
    <3>1. graph[n].deps \subseteq h[n].deps /\ h[n].deps \subseteq graph[n].deps \cup graph[n].tree.imports
      BY <1>3, <1>8, <1>9, <2>2
    <3>2. graph[n].tree.imports = graph[n].deps
      BY <1>8, <2>2
    <3>3. QED
      BY <3>1, <3>2
  <2>3. QED
    BY <1>2, <1>3, <1>6, <1>7, <1>8, <1>9, <2>1, <2>2
<1>11. ProgramLoaded'
  BY <1>5, <1>6, <1>8, <1>10 DEF ProgramLoaded, NoEntry
<1>12. Followed'
  <2>1. \A n \in F : files'[n].imports = files[n].imports
    BY <1>5
  <2>2. QED
    BY <1>1, <1>4, <1>5, <1>6, <1>7, <1>8, <1>10 DEF Followed
<1>13. NothingForgotten'
  <2>1. \A n \in F : Seen(n) /\ n \notin P => graph[n].tree = files[n]
    BY <1>1, <1>4, <1>7 DEF NothingForgotten, Open
  <2>2. \A n \in F : Seen(n) /\ n \notin P \ {m} => graph'[n].tree = files[n]
    BY <1>10, <2>1
  <2>3. lastId' # 0
    BY <1>3, <1>5, ModulesAre
  <2>4. \A n \in Full' : Seen(n)' /\ n \notin Open' => graph'[n].tree = files'[n]
    BY <1>5, <1>6, <1>10, <2>2 DEF Seen, Open
  <2>5. QED
    BY <1>4, <1>5, <1>6, <1>8, <2>3, <2>4 DEF NothingForgotten
<1>14. QED
  BY <1>11, <1>12, <1>13

\* The module that cannot be analysed stays as it was.
LEMMA FailedIs ==
  ASSUME ProgramInv, NEW m, NEW p, AnalysisFails(m, p)
  PROVE  /\ m \in Full /\ m \in Ids(pending) /\ files[m].bad = "semantic"
         /\ graph' \in GraphType /\ InGraph(graph') = InGraph(graph)
         /\ \A n \in InGraph(graph) : /\ graph'[n].tree = graph[n].tree /\ graph'[n].deps = graph[n].deps
                                      /\ graph'[n].iface = graph[n].iface
         /\ \E rest \in Seq(OwnFiles) : Ids(rest) = {} /\ Blocked(m, m, rest)
         /\ UNCHANGED <<diskVars, serverVars>>
<1>1. /\ Present /\ NoSyntaxErrors /\ Suits(OwnFiles) /\ Typed(OwnFiles) /\ pc = "update"
      /\ graph \in GraphType /\ Full \in SUBSET Modules /\ \A n \in Full : files[n].imports \subseteq Full
  BY ProgramIs DEF ProgramInv, AnalysisFails, CanLoad, IsNext
<1>2. ProgramLoaded
  BY <1>1, ProgramNext
<1>3. PICK x, g : x = Leaf(m, p) /\ g = LoadedGraph(m, p)
  OBVIOUS
<1>4. PICK h : h = [g EXCEPT ![x] = IF x = m THEN graph[x] ELSE NotLoaded]
  OBVIOUS
<1>5. /\ CanLoad(m, p) /\ Sources(m, p)[x].bad = "semantic" /\ graph' = h /\ UNCHANGED <<diskVars, serverVars>>
  BY <1>3, <1>4 DEF AnalysisFails
<1>6. PICK rest \in Remaining(m, p) : Blocked(x, IF x = m THEN p ELSE x, rest)
  BY <1>3 DEF AnalysisFails, Blocked
<1>7. p = m /\ m \in Modules /\ m \in Ids(pending) /\ Entry(m, p) \in OwnFiles /\ files[p] # Absent
  BY <1>1, <1>5, AllLoadable, CanLoadIs
<1>8. PICK F, new : F = Full /\ new = NewModules(m, p)
  OBVIOUS
<1>9. /\ InGraph(graph) = F /\ F \in SUBSET Modules /\ m \in F
      /\ \A n \in F : graph[n].tree.imports = files[n].imports /\ graph[n].deps = files[n].imports
  BY <1>1, <1>2, <1>7, <1>8 DEF ProgramLoaded
<1>10. \A n \in Modules : Sources(m, p)[n] = files[n]
  <2>1. files \in [Modules -> Contents \cup {Absent}]
    BY <1>1, OnDisk DEF Typed
  <2>2. QED
    BY <1>7, <2>1 DEF Sources
<1>11. new = {m} /\ x = m
  <2>1. /\ m \in new /\ new \in SUBSET Modules /\ new \cap InGraph(graph) \subseteq {m}
        /\ \A M \in SUBSET Modules :
              m \in M /\ (\A n \in M : Sources(m, p)[n] # Absent =>
                            \A i \in Sources(m, p)[n].imports : files[i] # Absent => i \in M)
                => new \subseteq M
    BY <1>1, <1>7, <1>8, NewAre DEF Typed
  <2>2. \A n \in F : \A i \in Sources(m, p)[n].imports : i \in F
    BY <1>1, <1>8, <1>9, <1>10
  <2>3. new \subseteq F
    BY <1>9, <2>1, <2>2
  <2>4. x \in new
    BY <1>3, <1>8, <2>1, LeafIs
  <2>5. QED
    BY <1>9, <2>1, <2>3, <2>4
<1>12. /\ g \in GraphType /\ InGraph(g) = F
       /\ \A n \in F \ {m} :
            /\ g[n].tree = graph[n].tree /\ g[n].iface = graph[n].iface
            /\ graph[n].deps \subseteq g[n].deps /\ g[n].deps \subseteq graph[n].deps \cup graph[n].tree.imports
  <2>1. LoadedIs(OwnFiles, m, p, x, g)
    BY <1>1, <1>3, <1>5, ChosenIs
  <2>2. QED
    BY <1>9, <1>11, <2>1 DEF LoadedIs
<1>13. h \in GraphType /\ InGraph(h) = F /\ h[m] = graph[m] /\ \A n \in F \ {m} : h[n] = g[n]
  <2>1. PICK l : l = graph[m]
    OBVIOUS
  <2>2. l \in Loaded
    BY <1>1, <1>9, <2>1, InGraphAre
  <2>3. h = Put(g, m, l)
    BY <1>4, <1>11, <2>1 DEF Put
  <2>4. /\ h \in GraphType /\ InGraph(h) = InGraph(g) \cup {m} /\ h[m] = l
        /\ \A n \in InGraph(g) \ {m} : h[n] = g[n]
    BY <1>7, <1>12, <2>2, <2>3, PutBack
  <2>5. QED
    BY <1>9, <1>12, <2>1, <2>4
<1>14. \A n \in F : h[n].tree = graph[n].tree /\ h[n].deps = graph[n].deps /\ h[n].iface = graph[n].iface
  <2> TAKE n \in F
  <2>1. CASE n = m
    BY <1>13, <2>1
  <2>2. CASE n # m
    <3>1. /\ h[n] = g[n] /\ g[n].tree = graph[n].tree /\ g[n].iface = graph[n].iface
          /\ graph[n].deps \subseteq g[n].deps /\ g[n].deps \subseteq graph[n].deps \cup graph[n].tree.imports
      BY <1>12, <1>13, <2>2
    <3>2. graph[n].tree.imports = graph[n].deps
      BY <1>9
    <3>3. g[n].deps = graph[n].deps
      BY <3>1, <3>2
    <3>4. QED
      BY <3>1, <3>3, Zenon
  <2>3. QED
    BY <2>1, <2>2
<1>15. rest \in Seq(OwnFiles) /\ Ids(rest) = {} /\ Blocked(m, m, rest)
  <2>1. rest \in Seq(OwnFiles) /\ Ids(rest) = new \ {x}
    <3>1. NewModules(m, p) \subseteq Modules /\ p \in Modules /\ rest \in Remaining(m, p)
      BY <1>6, <1>7, <1>8, <1>11
    <3>2. QED
      BY <1>1, <1>3, <1>7, <1>8, <3>1, RemainingAre
  <2>2. Blocked(x, p, rest)
    BY <1>6, <1>11
  <2>3. QED
    BY <1>7, <1>11, <2>1, <2>2
<1>16. QED
  BY <1>5, <1>7, <1>8, <1>9, <1>10, <1>11, <1>13, <1>14, <1>15

LEMMA ProgramBlocked ==
  ASSUME ProgramInv, NEW m, NEW p, AnalysisFails(m, p)
  PROVE  ProgramLoaded' /\ Followed' /\ NothingForgotten'
<1>1. /\ m \in Full /\ m \in Ids(pending) /\ files[m].bad = "semantic" /\ InGraph(graph') = InGraph(graph)
      /\ \A n \in InGraph(graph) : graph'[n].tree = graph[n].tree /\ graph'[n].deps = graph[n].deps
      /\ UNCHANGED <<diskVars, serverVars>>
  BY FailedIs
<1>2. PICK rest \in Seq(OwnFiles) : Ids(rest) = {} /\ Blocked(m, m, rest)
  BY FailedIs
<1>3. /\ Typed(OwnFiles) /\ Suits(OwnFiles) /\ pc = "update" /\ IsNext(m, p)
      /\ files[m] # Absent /\ Full \in SUBSET Modules
  BY <1>1, ProgramIs DEF ProgramInv, AnalysisFails, CanLoad, IsNext
<1>4. ProgramLoaded /\ Followed /\ NothingForgotten
  BY <1>3, ProgramNext
<1>5. UNCHANGED <<files, roots, step, lastSeen, changedFiles, queue, visited>>
  BY <1>1 DEF diskVars, serverVars
<1>6. PICK F, P : F = Full /\ P = Ids(pending)
  OBVIOUS
<1>7. /\ blockingError' = Entry(m, m) /\ messages'.blocker = m /\ pc' = "daemon" /\ pending' = <<>>
      /\ previousModules' = InGraph(graph') /\ Ids(stale') = P \ {m}
  <2>1. /\ pending \in Seq(OwnFiles) /\ pending # <<>> /\ Ids(pending) = {m} \cup Ids(Tail(pending))
    BY <1>3, NextIs DEF Typed, Listed
  <2>2. stale' = Dedupe(rest \o Without(Tail(pending), m))
    BY <1>2 DEF Blocked
  <2>3. Ids(stale') = Ids(rest) \cup (Ids(Tail(pending)) \ {m})
    BY <1>3, <2>1, <2>2, RestIs
  <2>4. Ids(stale') = P \ {m}
    BY <1>2, <1>6, <2>1, <2>3
  <2>5. QED
    BY <1>2, <2>4 DEF Blocked
<1>8. Full' = F /\ Ids(pending') = {} /\ blockingError'.id = m /\ m # 0
  BY <1>1, <1>3, <1>5, <1>6, <1>7, ModulesAre DEF Full, Ids, Entry
<1>9. /\ InGraph(graph) = F /\ P \subseteq F /\ step # "none"
      /\ \A n \in F : /\ graph[n].tree.bad = "no" /\ graph[n].tree.imports = files[n].imports
                      /\ graph[n].deps = files[n].imports /\ lastSeen[n] = files[n]
  BY <1>3, <1>4, <1>6 DEF ProgramLoaded
<1>10. ProgramLoaded'
  BY <1>1, <1>5, <1>6, <1>7, <1>8, <1>9 DEF ProgramLoaded
<1>11. Followed'
  BY <1>3, <1>4, <1>5, <1>6, <1>7, <1>8, <1>9 DEF Followed
<1>12. NothingForgotten'
  <2>1. \A n \in F : Seen(n) /\ n \notin P => graph[n].tree = files[n]
    BY <1>3, <1>4, <1>6 DEF NothingForgotten, Open
  <2>2. Open' = P \cup {m}
    BY <1>7, <1>8 DEF Open
  <2>3. \A n \in Full' : Seen(n)' /\ n \notin Open' => graph'[n].tree = files'[n]
    BY <1>1, <1>5, <1>8, <1>9, <2>1, <2>2 DEF Seen
  <2>4. files'[m] # Absent /\ files'[m].bad # "no"
    BY <1>1, <1>3, <1>5
  <2>5. QED
    BY <1>7, <1>8, <2>3, <2>4 DEF NothingForgotten, IsBad
<1>13. QED
  BY <1>10, <1>11, <1>12

LEMMA ProgramStep ==
  ASSUME ProgramInv, [UpdateNext]_updateVars
  PROVE  ProgramInv'
<1>1. Unchanging /\ Typed(OwnFiles) /\ Suits(OwnFiles)
  BY ProgramIs DEF ProgramInv
<1>2. Typed(OwnFiles)' /\ Unchanging'
  <2>1. Typed(OwnFiles)' /\ project' = project
    BY <1>1, StepsTyped, SameProject
  <2>2. QED
    BY <1>1, <2>1 DEF Unchanging, Present, AlwaysThere, NoSyntaxErrors, FixedImports, OneProgram
<1>3. SUFFICES ASSUME pc' # "endless" PROVE ProgramLoaded' /\ Followed' /\ NothingForgotten'
  BY <1>2 DEF ProgramInv
<1>4. CASE UNCHANGED updateVars
  <2>1. UNCHANGED <<files, pc, step, roots, lastSeen, changedFiles, queue, visited, graph, previousModules,
                    messages, blockingError, stale, pending, removedSet, lastId>>
    BY <1>4 DEF updateVars, diskVars, serverVars, keptVars, localVars
  <2>2. ProgramLoaded /\ Followed /\ NothingForgotten
    BY <1>3, <2>1 DEF ProgramInv
  <2>3. Full' = Full /\ Open' = Open /\ (\A m : Seen(m)' = Seen(m)) /\ \A m : IsBad(m)' = IsBad(m)
    BY <2>1 DEF Full, Open, Seen, IsBad
  <2>4. ProgramLoaded'
    BY <2>1, <2>2, <2>3 DEF ProgramLoaded
  <2>5. Followed'
    BY <2>1, <2>2, <2>3 DEF Followed
  <2>6. NothingForgotten'
    BY <2>1, <2>2, <2>3 DEF NothingForgotten, Seen, Open, IsBad
  <2>7. QED
    BY <2>4, <2>5, <2>6
<1>5. CASE \E R \in project.roots, D \in Disks(project) : CheckFiles(R, D)
  BY <1>5, ProgramChecked
<1>6. CASE Increment
  BY <1>6, ProgramFollowed, ProgramComplete, ProgramRests DEF Increment
<1>7. CASE FinishUpdate
  BY <1>3, <1>7, ProgramFinished
<1>8. ASSUME NEW m \in Modules, NEW p \in Modules,
             SkipBlocker(m, p) \/ DeleteModule(m, p) \/ LoadFails(m, p) \/ AnalysisFails(m, p) \/ ProcessModule(m, p)
      PROVE  ProgramLoaded' /\ Followed' /\ NothingForgotten'
  <2>1. pc = "update"
    BY <1>8 DEF SkipBlocker, DeleteModule, LoadFails, AnalysisFails, ProcessModule, CanLoad, IsSkipped, IsNext
  <2>2. ~SkipBlocker(m, p) /\ ~DeleteModule(m, p) /\ ~LoadFails(m, p)
    BY <2>1, ProgramNext
  <2>3. QED
    BY <1>3, <1>8, <2>2, ProgramBlocked, ProgramProcessed
<1>9. QED
  BY <1>4, <1>5, <1>6, <1>7, <1>8 DEF UpdateNext, UpdateAction

AnswersInv == ProgramInv /\ (pc # "endless" => ErrorsKnown)

LEMMA AnswersStep ==
  ASSUME AnswersInv, [UpdateNext]_updateVars
  PROVE  AnswersInv'
<1>1. ProgramInv /\ ProgramInv' /\ (pc # "endless" => ErrorsKnown)
  BY ProgramStep DEF AnswersInv
<1>2. SUFFICES ASSUME pc' # "endless" PROVE ErrorsKnown'
  BY <1>1 DEF AnswersInv
<1>3. Present /\ Typed(OwnFiles) /\ graph \in GraphType /\ project \in Projects /\ roots \in project.roots
      /\ \A m \in Modules : files[m] # Absent
  BY <1>1, ProgramIs DEF ProgramInv, Typed
<1>4. pc = "update" /\ Ids(pending) = {} => lastId # 0
  BY <1>1 DEF ProgramInv, NothingForgotten
<1>5. ASSUME NEW m \in Modules, NEW p \in Modules,
             SkipBlocker(m, p) \/ DeleteModule(m, p) \/ LoadFails(m, p) \/ AnalysisFails(m, p)
      PROVE  ErrorsKnown'
  <2>1. pc = "update"
    BY <1>5 DEF SkipBlocker, DeleteModule, LoadFails, AnalysisFails, CanLoad, IsSkipped, IsNext
  <2>2. AnalysisFails(m, p) /\ ErrorsKnown
    BY <1>1, <1>5, <2>1, ProgramNext
  <2>3. /\ graph' \in GraphType /\ InGraph(graph') = InGraph(graph)
        /\ \A n \in InGraph(graph) : graph'[n].tree = graph[n].tree /\ graph'[n].iface = graph[n].iface
        /\ UNCHANGED files /\ \E rest \in Seq(OwnFiles) : Blocked(m, m, rest)
    BY <1>1, <2>2, FailedIs DEF diskVars
  <2>4. UNCHANGED <<deps, targetsWithErrors>> /\ pc' = "daemon" /\ messages'.blocker = m /\ m # 0
    BY <2>3, ModulesAre DEF Blocked
  <2>5. QED
    BY <1>3, <2>2, <2>3, <2>4, ErrorsKept
<1>6. QED
  BY <1>1, <1>2, <1>3, <1>4, <1>5, ErrorsCarried

\* While no file comes or goes and imports and sources bring in the same modules,
\* a blocking error is reported only as long as a file has it, whatever is edited,
\* blocked and repaired in between.
THEOREM BlockersAreReal == UpdateSpec /\ Unchanging => []BlockerIsReal
<1>1. UpdateInit /\ Unchanging => ProgramInv
  BY ProgramInitially
<1>2. ProgramInv /\ [UpdateNext]_updateVars => ProgramInv'
  BY ProgramStep
<1>3. ProgramInv => BlockerIsReal
  <2>1. SUFFICES ASSUME ProgramInv, pc = "idle", messages.blocker # 0
                 PROVE  IsBad(messages.blocker)
    BY DEF BlockerIsReal, Answered
  <2>2. ProgramLoaded /\ Followed /\ NothingForgotten
    BY <2>1 DEF ProgramInv
  <2>3. changedFiles = {}
    BY <2>1, <2>2 DEF ProgramLoaded, Followed
  <2>4. Seen(messages.blocker)
    BY <2>3 DEF Seen
  <2>5. QED
    BY <2>1, <2>2, <2>4 DEF NothingForgotten
<1>4. QED
  BY <1>1, <1>2, <1>3, PTL DEF UpdateSpec

\* And an answer without a blocking error is that of a full build: none is hidden,
\* and what was not processed while an update was blocked has been since.
THEOREM AnswersAfterBlockers == UpdateSpec /\ Unchanging => []SameAsFullBuild
<1>1. UpdateInit /\ Unchanging => AnswersInv
  BY ProgramInitially, ErrorsInitially DEF AnswersInv, Unchanging
<1>2. AnswersInv /\ [UpdateNext]_updateVars => AnswersInv'
  BY AnswersStep
<1>3. AnswersInv => SameAsFullBuild
  <2>1. SUFFICES ASSUME AnswersInv, pc = "idle", messages.blocker = 0
                 PROVE  FullBlockers(files, roots) = {} /\ messages.errors = FullErrors(files, roots)
    BY DEF SameAsFullBuild, Answered
  <2>2. PICK q, D, R, g, F : q = project /\ D = files /\ R = roots /\ g = graph /\ F = FullModules(files, roots)
    OBVIOUS
  <2>3. PICK look : look = Lookup(D, g)
    OBVIOUS
  <2>4. /\ Unchanging /\ Present /\ Typed(OwnFiles) /\ ProgramLoaded /\ Followed /\ NothingForgotten /\ ErrorsKnown
    BY <2>1 DEF AnswersInv, ProgramInv, Unchanging
  <2>5. /\ q \in Projects /\ D \in Disks(q) /\ R \in SUBSET Modules /\ g \in GraphType
        /\ F = FullModules(D, R) /\ F \in SUBSET Modules
        /\ \A m \in Modules : D[m] # Absent
        /\ \A m \in F : D[m].imports \subseteq F
    BY <2>2, <2>4, PresentFiles DEF Typed
  <2>6. \A m \in F : Seen(m) /\ m \notin Open
    BY <2>1, <2>4 DEF ProgramLoaded, Followed, Seen, Open
  <2>7. InGraph(g) = F /\ \A m \in F : g[m].tree = D[m] /\ D[m].bad = "no"
    BY <2>2, <2>4, <2>6 DEF ProgramLoaded, NothingForgotten, Full
  <2>8. \A m \in F : g[m].iface = Interface(D[m], look)
    BY <2>2, <2>3, <2>4, <2>7 DEF ErrorsKnown
  <2>9. AllErrors(g, look) = FullErrors(D, R)
    BY <2>3, <2>5, <2>7, <2>8, FullErrorsAre
  <2>10. messages.errors = AllErrors(g, look)
    BY <2>1, <2>2, <2>3, <2>4 DEF ErrorsKnown
  <2>11. FullBlockers(D, R) = {}
    BY <2>5, <2>7 DEF FullBlockers
  <2>12. QED
    BY <2>2, <2>9, <2>10, <2>11
<1>4. QED
  BY <1>1, <1>2, <1>3, PTL DEF UpdateSpec
=============================================================================
