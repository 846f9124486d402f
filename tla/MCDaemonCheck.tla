---------------------------- MODULE MCDaemonCheck ---------------------------
(***************************************************************************)
(* What a check of the daemon consists of, apart from the connection: the  *)
(* look at the files (Watcher), the processing of the modules that changed *)
(* and of those that depend on them (FineGrainedUpdate), and the semantic  *)
(* analysis of an import cycle (SemanticDeferral).  Each part takes the    *)
(* result of the one before as given, so every behaviour is one of one of  *)
(* them, and the others rest.                                              *)
(***************************************************************************)
EXTENDS Watcher, SemanticDeferral, FineGrainedUpdate, TLC, Statements

CONSTANTS Parts

VARIABLES
  part,        \* the part that this behaviour is about
  function, types, checked

narrowingVars == <<function, types, checked>>
allVars == <<part, vars, deferralVars, updateVars, narrowingVars>>

-----------------------------------------------------------------------------
(* Watcher: two files, one of which may get three texts, two of one size.  *)

Length(t) == IF t = "long" THEN 2 ELSE 1
Files == {"f", "g"}
Writes == [f \in Files |-> IF f = "f" THEN {"a", "b", "long"} ELSE {"a"}]

-----------------------------------------------------------------------------
(* FineGrainedUpdate: projects of three modules. *)

Three == 1..3

Src(imports, decl) == [imports |-> imports, decl |-> decl, reexports |-> {}, bad |-> "no"]
Reexport(i)        == [imports |-> {i}, decl |-> 0, reexports |-> {i}, bad |-> "no"]
Bad(kind)          == [imports |-> {}, decl |-> 0, reexports |-> {}, bad |-> kind]

\* 1 is the root and may import 2, or 3; 2 may pass 3's interface on; 3 may change.
EditVersions ==
  <<{Src({2}, 0), Src({2, 3}, 0), Src({}, 0)},
    {Src({}, 1), Src({3}, 0), Reexport(3)},
    {Src({}, 0), Src({}, 1), Src({1}, 0)}>>

\* 3 comes and goes, as a file, as an import of 2, and as a root.
FileVersions ==
  <<{Src({2}, 0), Src({2}, 1)},
    {Src({}, 1), Src({3}, 0), Reexport(3)},
    {Absent, Src({}, 0), Src({}, 1)}>>

\* Blocking errors in modules of the graph, that may be left alone meanwhile.
BlockerVersions ==
  <<{Src({2, 3}, 0)},
    {Src({}, 1), Reexport(3), Bad("parse"), Bad("semantic")},
    {Src({}, 0), Src({}, 1), Bad("semantic")}>>

\* A blocking error in 3, which 1 may bring in and drop again.
SkipVersions ==
  <<{Src({2}, 0), Src({2, 3}, 0)}, {Src({}, 0), Src({}, 1)},
    {Src({}, 0), Src({}, 1), Bad("semantic")}>>

\* A new module with a parse error.
NewBlockerVersions == <<{Src({}, 0), Src({2}, 0)}, {Src({}, 0), Bad("parse")}, {Absent}>>

\* 1 and 2 are roots; both import 3, which may be deleted.
DanglingVersions ==
  <<{Src({3}, 0), Src({3}, 1)}, {Src({3}, 0), Src({3}, 1)}, {Absent, Src({}, 0)}>>

Project(versions, sources) == [versions |-> versions, roots |-> sources]
All == {Project(EditVersions, {{1}}), Project(FileVersions, {{1}, {1, 3}}),
        Project(BlockerVersions, {{1}}), Project(SkipVersions, {{1}})}
NewBlocker == {Project(NewBlockerVersions, {{1}})}
Dangling   == {Project(DanglingVersions, {{1, 2}})}

-----------------------------------------------------------------------------
(* SemanticDeferral: a and b import each other, in every way, and define   *)
(* or import two names; or a, b and c import each other in a ring, or a    *)
(* has a star import of both others.  Each in several orders of analysis.  *)

Cycle == {"a", "b", "c"}
TwoNames == {"x", "y"}
Imports(from) == [kind : {"from"}, module : {from}, name : TwoNames] \cup [kind : {"star"}, module : {from}]
Definitions == [kind : {"func"}, name : TwoNames] \cup [kind : {"class"}, name : TwoNames, base : TwoNames]
Trees(from, lengths) ==
  {t \in UNION {[1..n -> Imports(from) \cup Definitions] : n \in lengths} :
     \E i \in DOMAIN t : t[i] \in Imports(from)}
Pair(long, short) == {("a" :> p) @@ ("b" :> q) @@ ("c" :> <<>>) : p \in Trees("b", 1..long), q \in Trees("a", 1..short)}
Ring == {("a" :> p) @@ ("b" :> q) @@ ("c" :> r) : p \in Trees("b", 1..2), q \in Trees("c", 1..2), r \in Trees("a", {1})}
Star(from) == [kind |-> "star", module |-> from]
Diamond ==
  {("a" :> p \o <<Star("b"), Star("c")>>) @@ ("b" :> q) @@ ("c" :> r) :
     p \in {<<>>, <<[kind |-> "func", name |-> "x"]>>},
     q \in Trees("a", 1..2), r \in Trees("a", 1..2) \cup Trees("b", 1..2)}
Cycles == Pair(2, 2) \cup Pair(3, 1) \cup Ring \cup Diamond
AnalysisOrders == {<<"a", "b">>, <<"b", "a">>, <<"a", "b", "c">>, <<"c", "b", "a">>, <<"b", "a", "c">>}

-----------------------------------------------------------------------------
(* Binder: a variable x with an attribute, and a variable y.  What happens *)
(* in try and with statements, in loops, to the attribute, and when x and  *)
(* y are assigned to each other in a loop.                                 *)

Exprs == {"x", "x.a", "y"}
DeclaredTypes == [k \in Exprs |-> IF k = "x.a" THEN {"int", "str"} ELSE {"C", "D"}]
AttributesOf == [k \in Exprs |-> IF k = "x" THEN {"x.a"} ELSE {}]
Classes == {"C", "D", "int", "str"}

NewX == {Assign("x", "C"), Assign("x", "D")}
NewA == {Assign("x.a", "int"), Assign("x.a", "str")}
Leave == {Jump("raise"), Jump("return")}
Around == {Jump("break"), Jump("continue")}
IsC == IsInstance("x", "C")
IsInt == IsInstance("x.a", "int")
End == Jump("pass")

\* A statement with those of `inside` inside, and those of `before` before a finally clause
Nested(inside, before, tests) ==
  {If(t, <<a>>, <<b>>) : t \in tests, a \in inside, b \in inside}
  \cup {Try(<<a>>, <<<<b>>>>, <<>>, <<>>) : a \in inside, b \in inside}
  \cup {With(<<a>>) : a \in inside}
  \cup {Try(<<a>>, h, <<>>, <<c>>) : a \in before, h \in {<<>>} \cup {<<<<b>>>> : b \in before}, c \in inside}
Tries ==
  {<<a, Try(<<n, b>>, <<<<c>>>>, <<Assign("x", "C")>>, f), End>> :
     a \in NewX, n \in Nested(NewX \cup Leave, NewX \cup Leave, {IsC, Maybe}), b \in NewX,
     c \in NewX \cup {Jump("raise")}, f \in {<<>>, <<Assign("x", "D")>>}}
Bodies == {<<n, b>> : n \in Nested(NewX \cup Around, NewX, {IsC, Maybe}), b \in NewX \cup Around}
Loops ==
  {<<a, While(t, p, <<>>), End>> : a \in NewX, t \in {IsC, Maybe, Always}, p \in Bodies}
  \cup {<<a, For(p, <<c>>), End>> : a \in NewX, p \in Bodies, c \in NewX}
Attributed ==
  {<<a, Try(<<n, b>>, <<<<c>>>>, <<>>, f), End>> :
     a \in NewA, n \in Nested(NewA \cup NewX, NewA, {IsInt}), b \in NewX \cup NewA, c \in NewA,
     f \in {<<>>, <<Assign("x", "C")>>}}
Mixed == {Copy("x", "y"), Copy("y", "x"), Assign("x", "D"), Assign("y", "D")}
Copies ==
  {<<a, Assign("y", "C"), While(t, <<c, d, e>>, <<>>), End>> :
     a \in NewX, t \in {IsC, Maybe}, c \in Mixed, d \in Mixed, e \in Mixed}

Functions == {<<>>} \cup Tries \cup Loops \cup Attributed \cup Copies

B == INSTANCE Binder WITH Key <- Exprs, Class <- Classes, Declared <- DeclaredTypes, Attributes <- AttributesOf

-----------------------------------------------------------------------------
\* The parts that a behaviour is not about rest in some initial state; the update
\* does so as if a check went on, and nothing is answered.
FilesRest == disk = [f \in Files |-> Nothing] /\ native = FALSE /\ follow = FALSE
UpdateRests ==
  /\ project = CHOOSE q \in Projects : TRUE
  /\ roots = CHOOSE r \in project.roots : TRUE
  /\ files = CHOOSE d \in Disks(project) : (\A m \in roots : d[m] # Absent) /\ FullBlockers(d, roots) = {}
  /\ FirstBuild /\ pc = "daemon"
AnalysisRests == program = (CHOOSE q \in Pair(1, 1) : TRUE) /\ worklist = <<"a", "b">>

AllInit ==
  /\ part \in Parts
  /\ IF part = "files" THEN TRUE ELSE FilesRest
  /\ IF part = "analysis" THEN TRUE ELSE AnalysisRests
  /\ IF part = "narrowing" THEN TRUE ELSE function = <<>>
  /\ DeferralInit /\ Init /\ B!Init
  /\ IF part = "update" THEN UpdateInit ELSE UpdateRests

Is(p) == part = p /\ UNCHANGED part
AllNext ==
  \/ Is("files") /\ Next /\ UNCHANGED <<updateVars, deferralVars, narrowingVars>>
  \/ Is("update") /\ UpdateNext /\ UNCHANGED <<vars, deferralVars, narrowingVars>>
  \/ Is("analysis") /\ DeferralNext /\ UNCHANGED <<vars, updateVars, narrowingVars>>
  \/ Is("narrowing") /\ B!Next /\ UNCHANGED <<vars, updateVars, deferralVars>>

CheckSpec == AllInit /\ [][AllNext]_allVars

-----------------------------------------------------------------------------
(* The properties of the parts keep their names, but for two.              *)

\* Every variable keeps its type.
TypesOK == TypeOK /\ (part = "update" => UpdateTypeOK) /\ DeferralTypeOK

\* At every point a function gets to, variables have the types they were narrowed to.
NarrowingIsSound == part = "narrowing" => B!NarrowingIsSound
=============================================================================
