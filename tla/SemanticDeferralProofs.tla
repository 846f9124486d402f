----------------------- MODULE SemanticDeferralProofs ------------------------
(***************************************************************************)
(* The analysis of an import cycle, for any modules, names, statements and *)
(* order: it ends by itself, leaves nothing open, and binds names to       *)
(* definitions of theirs, once and for all.                                *)
(***************************************************************************)
EXTENDS SemanticDeferral, FiniteSetTheorems, SequenceTheorems, WellFoundedInduction, NaturalsInduction, TLAPS

(***************************************************************************)
(* Symbols and how far they have come.                                     *)
(***************************************************************************)
LEMMA Symbols ==
  /\ {None, Placeholder, TypePlaceholder} \subseteq Symbol
  /\ None \notin Placeholders /\ Placeholder # TypePlaceholder
  /\ \A node \in Symbol : Ready(node) <=> node \in [kind : {"func", "class", "unknown"}, at : Place]
<1>1. None.kind = "none" /\ Placeholder.kind = "placeholder" /\ TypePlaceholder.kind = "type placeholder"
  BY DEF None, Placeholder, TypePlaceholder, Node
<1>2. \A node \in [kind : {"func", "class", "unknown"}, at : Place] : node.kind \in {"func", "class", "unknown"}
  OBVIOUS
<1>3. QED
  BY <1>1, <1>2 DEF Symbol, Placeholders, Ready

LEMMA Strengths ==
  ASSUME NEW node \in Symbol
  PROVE  /\ Strength(node) \in 0..3
         /\ Strength(node) = 0 <=> node = None
         /\ Strength(node) = 1 <=> node = Placeholder
         /\ Strength(node) = 2 <=> node = TypePlaceholder
         /\ Strength(node) = 3 <=> Ready(node)
BY Symbols DEF Strength, Ready, Placeholders

\* What is put in the place of a symbol has come further.
Improves(old, new) == new = old \/ Strength(old) < Strength(new)

LEMMA Improving ==
  ASSUME NEW a \in Symbol, NEW b \in Symbol, NEW c \in Symbol, Improves(a, b), Improves(b, c)
  PROVE  Improves(a, c) /\ (c # b => c # a)
BY Strengths DEF Improves

LEMMA ReadyStays ==
  ASSUME NEW a \in Symbol, NEW b \in Symbol, Improves(a, b), Ready(a)
  PROVE  b = a
BY Strengths DEF Improves

LEMMA NoneGoes ==
  ASSUME NEW a \in Symbol, NEW b \in Symbol, Improves(a, b), a # None
  PROVE  b # None
BY Strengths DEF Improves

LEMMA Replacing ==
  ASSUME NEW old \in Symbol, NEW node \in Symbol, node # None,
         old = None \/ IsValidReplacement(old, node)
  PROVE  Improves(old, node) /\ node # old
BY Symbols, Strengths DEF Improves, IsValidReplacement, Placeholders, Ready

LEMMA NotReplacing ==
  ASSUME NEW old \in Symbol, NEW node \in Symbol, Ready(node),
         ~(old = None \/ IsValidReplacement(old, node))
  PROVE  Ready(old)
BY Symbols DEF IsValidReplacement, Ready

(***************************************************************************)
(* What the operations of the analyzer do to its state.                    *)
(***************************************************************************)
AnalyzerState == [names : [Name -> Symbol], infos : SUBSET Place, errors : SUBSET Report, pass : Pass]

\* What is missing is waited for; the final iteration waits for nothing.
Sound(s) ==
  /\ s.pass.missing # {} => s.pass.deferred
  /\ final_iteration => ~s.pass.deferred

\* After some operations on x, t is the state; N are the symbols that x may have got.
Follows(s, t, x, N) ==
  /\ t \in AnalyzerState /\ Sound(t)
  /\ \A y \in Name : y # x => t.names[y] = s.names[y]
  /\ Improves(s.names[x], t.names[x])
  /\ t.names[x] \in {s.names[x]} \cup N
  /\ s.pass.deferred => t.pass.deferred
  /\ t.pass.progress => s.pass.progress \/ t.names[x] # s.names[x]

\* x is not left open behind the reader's back.
Settles(t, x) == t.names[x] \in Placeholders => t.pass.deferred

LEMMA FollowsSelf ==
  ASSUME NEW s \in AnalyzerState, Sound(s), NEW x \in Name, NEW N
  PROVE  Follows(s, s, x, N)
BY DEF Follows, Improves

LEMMA FollowsOn ==
  ASSUME NEW s \in AnalyzerState, NEW t, NEW u, NEW x \in Name, NEW M, NEW N,
         Follows(s, t, x, M), Follows(t, u, x, N)
  PROVE  Follows(s, u, x, M \cup N)
<1>1. s.names[x] \in Symbol /\ t.names[x] \in Symbol /\ u.names[x] \in Symbol
  BY DEF Follows, AnalyzerState
<1>2. Improves(s.names[x], u.names[x]) /\ (u.names[x] # t.names[x] => u.names[x] # s.names[x])
  BY <1>1, Improving DEF Follows
<1>3. QED
  BY <1>2 DEF Follows

LEMMA FollowsMore ==
  ASSUME NEW s, NEW t, NEW x, NEW M, NEW N, Follows(s, t, x, M), M \subseteq N
  PROVE  Follows(s, t, x, N)
BY DEF Follows

\* The analyzer is visiting a statement.
Visiting == target \in Module /\ statement \in Nat /\ final_iteration \in BOOLEAN

LEMMA FailFollows ==
  ASSUME Visiting, NEW s \in AnalyzerState, Sound(s), NEW x \in Name,
         NEW kind \in {"cyclic", "defined", "attribute", "undefined", "base"}
  PROVE  /\ Follows(s, Fail(s, kind), x, {})
         /\ Fail(s, kind) = [s EXCEPT !.errors = s.errors \cup {<<kind, target, statement>>}]
         /\ Fail(s, kind).names = s.names /\ Fail(s, kind).pass = s.pass
<1>1. <<kind, target, statement>> \in Report
  BY DEF Visiting, Report
<1>2. Fail(s, kind) \in AnalyzerState /\ Fail(s, kind).names = s.names /\ Fail(s, kind).pass = s.pass
  BY <1>1 DEF Fail, AnalyzerState
<1>3. QED
  BY <1>2 DEF Follows, Sound, Improves, Fail

LEMMA DeferFollows ==
  ASSUME Visiting, ~final_iteration, NEW s \in AnalyzerState, Sound(s), NEW x \in Name
  PROVE  Follows(s, Defer(s), x, {}) /\ Defer(s).pass.deferred
                /\ Defer(s).names = s.names /\ Defer(s).pass.missing = s.pass.missing
<1>1. /\ Defer(s) \in AnalyzerState /\ Defer(s).names = s.names /\ Defer(s).pass.deferred
      /\ Defer(s).pass.missing = s.pass.missing /\ Defer(s).pass.progress = s.pass.progress
  BY DEF Defer, AnalyzerState, Pass
<1>2. QED
  BY <1>1 DEF Follows, Sound, Improves

LEMMA ProcessPlaceholderFollows ==
  ASSUME Visiting, NEW s \in AnalyzerState, Sound(s), NEW x \in Name
  PROVE  LET t == ProcessPlaceholder(s)
         IN  Follows(s, t, x, {}) /\ t.names = s.names /\ (~final_iteration => t.pass.deferred)
<1>1. CASE final_iteration
  BY <1>1, FailFollows DEF ProcessPlaceholder
<1>2. CASE ~final_iteration
  BY <1>2, DeferFollows DEF ProcessPlaceholder
<1>3. QED
  BY <1>1, <1>2

\* The first definition stays, a placeholder gives way to what has come further.
LEMMA AddSymbolFollows ==
  ASSUME Visiting, NEW s \in AnalyzerState, Sound(s), NEW x \in Name, NEW canDefer \in BOOLEAN,
         NEW node \in Symbol, node # None
  PROVE  LET t == AddSymbol(s, x, node, canDefer)
         IN  /\ Follows(s, t, x, {node})
             /\ Ready(node) => Settles(t, x)
             /\ canDefer /\ node \in Placeholders /\ ~final_iteration => t.pass.deferred
<1> DEFINE r == IF node \in Placeholders /\ canDefer THEN ProcessPlaceholder(s) ELSE s
           put == [r EXCEPT !.names[x] = node, !.pass.progress = TRUE]
           t == AddSymbol(s, x, node, canDefer)
<1>1. /\ Follows(s, r, x, {}) /\ r.names = s.names
      /\ canDefer /\ node \in Placeholders /\ ~final_iteration => r.pass.deferred
  BY ProcessPlaceholderFollows, FollowsSelf
<1>2. r \in AnalyzerState /\ Sound(r)
  BY <1>1 DEF Follows
<1> HIDE DEF r
<1>3. CASE r.names[x] # None /\ ~IsValidReplacement(r.names[x], node)
  <2>1. t \in {r, Fail(r, "defined")}
    BY <1>3 DEF AddSymbol, r
  <2>2. Follows(r, t, x, {}) /\ t.names = r.names /\ t.pass = r.pass
    BY <1>2, <2>1, FollowsSelf, FailFollows
  <2>3. Follows(s, t, x, {})
    BY <1>1, <2>2, FollowsOn
  <2>4. Ready(node) => Ready(t.names[x])
    BY <1>2, <1>3, <2>2, NotReplacing DEF AnalyzerState
  <2>5. QED
    BY <1>1, <2>2, <2>3, <2>4, FollowsMore DEF Settles, Ready
<1>4. CASE ~(r.names[x] # None /\ ~IsValidReplacement(r.names[x], node)) /\ {x, "*"} \cap r.pass.missing = {}
  <2>1. t = put
    BY <1>4 DEF AddSymbol, r
  <2>2. /\ put \in AnalyzerState /\ put.names[x] = node /\ put.pass.progress /\ put.pass.deferred = r.pass.deferred
        /\ \A y \in Name : y # x => put.names[y] = r.names[y]
        /\ put.pass.missing = r.pass.missing
    BY <1>2 DEF AnalyzerState, Pass
  <2>3. Improves(r.names[x], node) /\ node # r.names[x]
    BY <1>2, <1>4, Replacing DEF AnalyzerState
  <2>4. Follows(r, put, x, {node})
    BY <1>2, <2>2, <2>3 DEF Follows, Sound
  <2>5. Follows(s, t, x, {node})
    BY <1>1, <2>1, <2>4, FollowsOn, FollowsMore
  <2>6. QED
    BY <1>1, <2>1, <2>2, <2>5 DEF Settles, Ready
<1>5. CASE ~(r.names[x] # None /\ ~IsValidReplacement(r.names[x], node)) /\ {x, "*"} \cap r.pass.missing # {}
  <2>1. t = r
    BY <1>5 DEF AddSymbol, r
  <2>2. t.pass.deferred
    BY <1>2, <1>5, <2>1 DEF Sound
  <2>3. QED
    BY <1>1, <2>1, <2>2, FollowsMore DEF Settles
<1>6. QED
  BY <1>3, <1>4, <1>5

LEMMA MarkIncompleteFollows ==
  ASSUME Visiting, ~final_iteration, NEW s \in AnalyzerState, Sound(s), NEW x \in Name,
         NEW placeholder \in Placeholders
  PROVE  LET t == MarkIncomplete(s, x, placeholder)
         IN  Follows(s, t, x, {placeholder}) /\ t.pass.deferred
<1> DEFINE d == Defer(s)
           u == AddSymbol(d, x, placeholder, TRUE)
           t == [u EXCEPT !.pass.missing = u.pass.missing \cup {x}]
<1>1. Follows(s, d, x, {}) /\ d.pass.deferred /\ d \in AnalyzerState /\ Sound(d)
  BY DeferFollows DEF Follows
<1> HIDE DEF d
<1>2. placeholder \in Symbol /\ placeholder # None
  BY Symbols DEF Placeholders
<1>3. Follows(d, u, x, {placeholder}) /\ u.pass.deferred
  BY <1>1, <1>2, AddSymbolFollows
<1>4. u \in AnalyzerState /\ Sound(u)
  BY <1>3 DEF Follows
<1> HIDE DEF u
<1>5. /\ t \in AnalyzerState /\ t.names = u.names /\ t.pass.deferred = u.pass.deferred
      /\ t.pass.progress = u.pass.progress
  BY <1>4 DEF AnalyzerState, Pass
<1>6. Follows(u, t, x, {})
  BY <1>3, <1>4, <1>5 DEF Follows, Sound, Improves
<1>7. Follows(s, t, x, {placeholder})
  BY <1>1, <1>3, <1>6, FollowsOn, FollowsMore
<1>8. MarkIncomplete(s, x, placeholder) = t
  BY NullAssumption DEF MarkIncomplete, d, u
<1>9. QED
  BY <1>3, <1>5, <1>7, <1>8

LEMMA AddImportedFollows ==
  ASSUME Visiting, NEW s \in AnalyzerState, Sound(s), NEW x \in Name, NEW node \in Symbol, node # None
  PROVE  LET t == AddImported(s, x, node)
         IN  /\ Follows(s, t, x, {node})
             /\ Ready(node) \/ ~final_iteration => Settles(t, x)
<1>1. CASE Ready(s.names[x]) /\ Ready(node) /\ node # s.names[x]
  BY <1>1, FollowsSelf DEF AddImported, Settles, Ready
<1>2. CASE ~(Ready(s.names[x]) /\ Ready(node) /\ node # s.names[x])
  <2>1. AddImported(s, x, node) = AddSymbol(s, x, node, TRUE)
    BY <1>2 DEF AddImported
  <2>2. Ready(node) \/ node \in Placeholders
    BY DEF Ready
  <2>3. QED
    BY <2>1, <2>2, AddSymbolFollows DEF Settles
<1>3. QED
  BY <1>1, <1>2

LEMMA AddUnknownFollows ==
  ASSUME Visiting, NEW s \in AnalyzerState, Sound(s), NEW x \in Name
  PROVE  LET t == AddUnknown(s, x)
         IN  Follows(s, t, x, {Node("unknown", Here)}) /\ Settles(t, x)
<1>1. Node("unknown", Here) \in [kind : {"func", "class", "unknown"}, at : Place]
  BY DEF Visiting, Node, Here, Place
<1>2. /\ Node("unknown", Here) \in Symbol /\ Node("unknown", Here) # None
      /\ Ready(Node("unknown", Here))
  BY <1>1, Symbols DEF Symbol, Ready
<1>3. CASE s.names[x].kind = "unknown"
  <2>1. Placeholder.kind = "placeholder" /\ TypePlaceholder.kind = "type placeholder"
    BY DEF Placeholder, TypePlaceholder, Node
  <2>2. s.names[x] \notin Placeholders
    BY <1>3, <2>1 DEF Placeholders
  <2>3. QED
    BY <1>3, <2>2, FollowsSelf DEF AddUnknown, Settles
<1>4. CASE s.names[x].kind # "unknown"
  BY <1>2, <1>4, AddSymbolFollows DEF AddUnknown
<1>5. QED
  BY <1>3, <1>4

LEMMA ReportMissingFollows ==
  ASSUME Visiting, NEW s \in AnalyzerState, Sound(s), NEW x \in Name, NEW m,
         final_iteration => incomplete_namespaces = {}
  PROVE  LET t == ReportMissing(s, m, x)
         IN  Follows(s, t, x, Placeholders \cup {Node("unknown", Here)}) /\ Settles(t, x)
<1>1. CASE m \in incomplete_namespaces
  <2>1. /\ Follows(s, ReportMissing(s, m, x), x, {Placeholder}) /\ Placeholder \in Placeholders
        /\ ReportMissing(s, m, x).pass.deferred
    BY <1>1, MarkIncompleteFollows DEF ReportMissing, Placeholders
  <2>2. QED
    BY <2>1, FollowsMore DEF Settles
<1>2. CASE m \notin incomplete_namespaces
  <2> DEFINE f == Fail(s, "attribute")
  <2>1. Follows(s, f, x, {}) /\ f \in AnalyzerState /\ Sound(f)
    BY FailFollows DEF Follows
  <2> HIDE DEF f
  <2>2. Follows(f, AddUnknown(f, x), x, {Node("unknown", Here)}) /\ Settles(AddUnknown(f, x), x)
    BY <2>1, AddUnknownFollows
  <2>3. ReportMissing(s, m, x) = AddUnknown(f, x)
    BY <1>2 DEF ReportMissing, f
  <2>4. QED
    BY <2>1, <2>2, <2>3, FollowsOn, FollowsMore
<1>3. QED
  BY <1>1, <1>2

LEMMA ImportNameFollows ==
  ASSUME Visiting, NEW s \in AnalyzerState, Sound(s), NEW m \in Module, NEW x \in Name,
         names \in [Module -> [Name -> Symbol]], names[m][x] # None
  PROVE  LET t == ImportName(s, m, x)
         IN  Follows(s, t, x, {names[m][x], Node("unknown", Here)}) /\ Settles(t, x)
<1> DEFINE t == AddImported(s, x, names[m][x])
<1>1. names[m][x] \in Symbol
  OBVIOUS
<1>2. /\ Follows(s, t, x, {names[m][x]})
      /\ ~(names[m][x] \in Placeholders /\ final_iteration) => Settles(t, x)
  BY <1>1, AddImportedFollows DEF Ready
<1>3. t \in AnalyzerState /\ Sound(t)
  BY <1>2 DEF Follows
<1> HIDE DEF t
<1>4. CASE names[m][x] \in Placeholders /\ final_iteration
  <2>1. ImportName(s, m, x) = AddUnknown(t, x)
    BY <1>4 DEF ImportName, t
  <2>2. Follows(t, AddUnknown(t, x), x, {Node("unknown", Here)}) /\ Settles(AddUnknown(t, x), x)
    BY <1>3, AddUnknownFollows
  <2>3. QED
    BY <1>2, <2>1, <2>2, FollowsOn, FollowsMore
<1>5. CASE ~(names[m][x] \in Placeholders /\ final_iteration)
  <2>1. ImportName(s, m, x) = t
    BY <1>5 DEF ImportName, t
  <2>2. QED
    BY <1>2, <1>5, <2>1, FollowsMore
<1>6. QED
  BY <1>4, <1>5

LEMMA AnalyzeClassFollows ==
  ASSUME Visiting, NEW s \in AnalyzerState, Sound(s), NEW x \in Name, NEW base \in Name \cup {Null},
         final_iteration => incomplete_namespaces = {}
  PROVE  LET t == AnalyzeClass(s, x, base)
         IN  Follows(s, t, x, Placeholders \cup {Node("class", Here)}) /\ Settles(t, x)
<1> DEFINE t == IF Here \in s.infos THEN s ELSE AddSymbol(s, x, TypePlaceholder, FALSE)
           sym == IF base = Null THEN Node("class", Nowhere) ELSE t.names[base]
           missing == sym = None
           analyzed == IF missing THEN Fail(t, "undefined")
                       ELSE IF sym \in Placeholders THEN Fail(t, "cyclic")
                       ELSE IF sym.kind = "func" THEN Fail(t, "base") ELSE t
           built == [analyzed EXCEPT !.infos = analyzed.infos \cup {Here}]
           waits == ~final_iteration /\ (sym \in Placeholders \/ (missing /\ target \in incomplete_namespaces))
<1>1. Follows(s, t, x, {TypePlaceholder})
  <2>1. TypePlaceholder \in Symbol /\ TypePlaceholder # None
    BY Symbols DEF Placeholders
  <2>2. QED
    BY <2>1, AddSymbolFollows, FollowsSelf
<1>2. t \in AnalyzerState /\ Sound(t)
  BY <1>1 DEF Follows
<1>3. /\ waits => AnalyzeClass(s, x, base) = MarkIncomplete(t, x, Placeholder)
      /\ ~waits => AnalyzeClass(s, x, base) = AddSymbol(built, x, Node("class", Here), TRUE)
  BY DEF AnalyzeClass
<1> HIDE DEF t
<1>4. CASE waits
  <2>1. /\ Follows(t, MarkIncomplete(t, x, Placeholder), x, {Placeholder})
        /\ MarkIncomplete(t, x, Placeholder).pass.deferred
    BY <1>2, <1>4, MarkIncompleteFollows DEF Placeholders
  <2>2. QED
    BY <1>1, <1>3, <1>4, <2>1, FollowsOn, FollowsMore DEF Settles, Placeholders
<1>5. CASE ~waits
  <2>1. analyzed \in {t, Fail(t, "undefined"), Fail(t, "cyclic"), Fail(t, "base")}
    OBVIOUS
  <2>2. Follows(t, analyzed, x, {})
    BY <1>2, <2>1, FailFollows, FollowsSelf
  <2>3. analyzed \in AnalyzerState /\ Sound(analyzed)
    BY <2>2 DEF Follows
  <2> HIDE DEF analyzed
  <2>4. Here \in Place
    BY DEF Visiting, Here, Place
  <2>5. built \in AnalyzerState /\ built.names = analyzed.names /\ built.pass = analyzed.pass
    BY <2>3, <2>4 DEF AnalyzerState
  <2>6. Follows(analyzed, built, x, {})
    BY <2>3, <2>5 DEF Follows, Sound, Improves
  <2>7. Sound(built)
    BY <2>6 DEF Follows
  <2> HIDE DEF built
  <2>8. Node("class", Here) \in Symbol /\ Node("class", Here) # None /\ Ready(Node("class", Here))
    <3>1. Node("class", Here) \in [kind : {"func", "class", "unknown"}, at : Place]
      BY <2>4 DEF Node
    <3>2. QED
      BY <3>1, Symbols DEF Symbol, Ready
  <2> DEFINE u == AddSymbol(built, x, Node("class", Here), TRUE)
             last == Placeholders \cup {Node("class", Here)}
  <2>9. Follows(built, u, x, {Node("class", Here)}) /\ Settles(u, x)
    BY <2>5, <2>7, <2>8, AddSymbolFollows
  <2>10. Follows(s, built, x, {TypePlaceholder})
    <3>1. Follows(s, analyzed, x, {TypePlaceholder})
      BY <1>1, <2>2, FollowsOn, FollowsMore
    <3>2. QED
      BY <2>6, <3>1, FollowsOn, FollowsMore
  <2>11. AnalyzeClass(s, x, base) = u
    BY <1>3, <1>5
  <2> HIDE DEF u
  <2>12. Follows(s, u, x, {TypePlaceholder} \cup {Node("class", Here)})
    BY <2>9, <2>10, FollowsOn
  <2>13. {TypePlaceholder} \cup {Node("class", Here)} \subseteq last
    BY DEF Placeholders
  <2>14. Follows(s, u, x, last)
    BY ONLY <2>12, <2>13, FollowsMore
  <2>15. QED
    BY <2>9, <2>11, <2>14
<1>6. QED
  BY <1>4, <1>5

(***************************************************************************)
(* What the visit of a statement does to the symbol tables.                *)
(***************************************************************************)
\* The names that the statement st gives to its module, and the symbols they may get.
Gives(st, x) == Binds(st, x) \/ (st.kind = "star" /\ names[st.module][x] # None)
Sources(st, x) ==
  Placeholders
  \cup (IF st.kind \in {"func", "class"} THEN {Node(st.kind, Here)}
        ELSE {Node("unknown", Here), names[st.module][x]})

VisitFollows(s, t, st) ==
  /\ t \in AnalyzerState /\ Sound(t)
  /\ \A x \in Name : /\ Improves(s.names[x], t.names[x])
                     /\ t.names[x] = s.names[x] \/ (Gives(st, x) /\ t.names[x] \in Sources(st, x))
                     /\ Gives(st, x) => Settles(t, x)
  /\ s.pass.deferred => t.pass.deferred
  /\ t.pass.progress => s.pass.progress \/ \E x \in Name : t.names[x] # s.names[x]

LEMMA OneNameFollows ==
  ASSUME NEW s, NEW t, NEW st, NEW x \in Name, NEW N,
         \A y \in Name : Gives(st, y) <=> y = x, N \subseteq Sources(st, x),
         Follows(s, t, x, N), Settles(t, x)
  PROVE  VisitFollows(s, t, st)
BY DEF Follows, VisitFollows, Improves

LEMMA FuncDefFollows ==
  ASSUME Visiting, NEW s \in AnalyzerState, Sound(s), NEW st \in Statements, st.kind = "func"
  PROVE  VisitFollows(s, AddSymbol(s, st.name, Node("func", Here), TRUE), st)
<1>1. st.name \in Name /\ \A y \in Name : Gives(st, y) <=> y = st.name
  BY DEF Statements, Gives, Binds
<1>2. Node("func", Here) \in [kind : {"func", "class", "unknown"}, at : Place]
  BY DEF Visiting, Node, Here, Place
<1>3. Node("func", Here) \in Symbol /\ Ready(Node("func", Here)) /\ Node("func", Here) # None
  BY <1>2, Symbols DEF Symbol, Ready
<1> DEFINE t == AddSymbol(s, st.name, Node("func", Here), TRUE)
<1>4. Follows(s, t, st.name, {Node("func", Here)}) /\ Settles(t, st.name)
  BY <1>1, <1>3, AddSymbolFollows
<1>5. {Node("func", Here)} \subseteq Sources(st, st.name)
  BY DEF Sources
<1> DEFINE N == {Node("func", Here)}
<1> HIDE DEF t, N
<1>6. VisitFollows(s, t, st)
  BY <1>1, <1>4, <1>5, OneNameFollows DEF N
<1>7. QED
  BY <1>6 DEF t

LEMMA ClassDefFollows ==
  ASSUME Visiting, NEW s \in AnalyzerState, Sound(s), NEW st \in Statements, st.kind = "class",
         final_iteration => incomplete_namespaces = {}
  PROVE  VisitFollows(s, AnalyzeClass(s, st.name, st.base), st)
<1>1. st.name \in Name /\ st.base \in Name \cup {Null} /\ \A y \in Name : Gives(st, y) <=> y = st.name
  BY DEF Statements, Gives, Binds
<1> DEFINE t == AnalyzeClass(s, st.name, st.base)
           given == Placeholders \cup {Node("class", Here)}
<1>2. Follows(s, t, st.name, given) /\ Settles(t, st.name)
  BY <1>1, AnalyzeClassFollows
<1>3. given \subseteq Sources(st, st.name)
  BY DEF Sources
<1> HIDE DEF t, given
<1>4. VisitFollows(s, t, st)
  BY <1>1, <1>2, <1>3, OneNameFollows
<1>5. QED
  BY <1>4 DEF t

LEMMA ImportFromFollows ==
  ASSUME Visiting, NEW s \in AnalyzerState, Sound(s), NEW st \in Statements, st.kind = "from",
         final_iteration => incomplete_namespaces = {}, names \in [Module -> [Name -> Symbol]]
  PROVE  LET node == names[st.module][st.name]
         IN  VisitFollows(s, IF node = None \/ (node \in Placeholders /\ final_iteration)
                             THEN ReportMissing(s, st.module, st.name)
                             ELSE IF node \in Placeholders
                             THEN AddImported(MarkIncomplete(s, st.name, TypePlaceholder), st.name, node)
                             ELSE AddImported(s, st.name, node), st)
<1> DEFINE x == st.name
           node == names[st.module][x]
           all == Sources(st, x)
<1>1. x \in Name /\ st.module \in Module /\ node \in Symbol /\ \A y \in Name : Gives(st, y) <=> y = x
  BY DEF Statements, Gives, Binds
<1>2. Placeholders \cup {Node("unknown", Here)} \subseteq all /\ node \in all
  BY DEF Sources
<1> HIDE DEF node, all, x
<1>3. CASE node = None \/ (node \in Placeholders /\ final_iteration)
  <2> DEFINE t == ReportMissing(s, st.module, x)
  <2>1. Follows(s, t, x, Placeholders \cup {Node("unknown", Here)}) /\ Settles(t, x)
    BY <1>1, ReportMissingFollows
  <2> HIDE DEF t
  <2>2. VisitFollows(s, t, st)
    BY <1>1, <1>2, <2>1, OneNameFollows DEF all
  <2>3. QED
    BY <1>3, <2>2 DEF t, node, x
<1>4. CASE node \in Placeholders /\ ~final_iteration
  <2> DEFINE d == MarkIncomplete(s, x, TypePlaceholder)
             t == AddImported(d, x, node)
  <2>1. Follows(s, d, x, {TypePlaceholder}) /\ d.pass.deferred
    BY <1>1, <1>4, MarkIncompleteFollows DEF Placeholders
  <2>2. d \in AnalyzerState /\ Sound(d) /\ node # None
    BY <1>4, <2>1, Symbols DEF Follows
  <2> HIDE DEF d
  <2>3. Follows(d, t, x, {node}) /\ Settles(t, x)
    BY <1>1, <1>4, <2>2, AddImportedFollows
  <2> HIDE DEF t
  <2>4. Follows(s, t, x, {TypePlaceholder} \cup {node})
    BY <1>1, <2>1, <2>3, FollowsOn
  <2>5. {TypePlaceholder} \cup {node} \subseteq all
    BY <1>2 DEF Placeholders
  <2>6. VisitFollows(s, t, st)
    BY <1>1, <2>3, <2>4, <2>5, OneNameFollows DEF all
  <2>7. node # None
    BY <2>2
  <2>8. QED
    BY <1>4, <2>6, <2>7 DEF t, d, node, x
<1>5. CASE node # None /\ node \notin Placeholders
  <2> DEFINE t == AddImported(s, x, node)
  <2>1. Ready(node)
    BY <1>5 DEF Ready
  <2>2. Follows(s, t, x, {node}) /\ Settles(t, x)
    BY <1>1, <1>5, <2>1, AddImportedFollows
  <2> HIDE DEF t
  <2>3. VisitFollows(s, t, st)
    BY <1>1, <1>2, <2>2, OneNameFollows DEF all
  <2>4. QED
    BY <1>5, <2>3 DEF t, node, x
<1>6. QED
  BY <1>3, <1>4, <1>5

LEMMA ImportAllFollows ==
  ASSUME Visiting, NEW s \in AnalyzerState, Sound(s), NEW st \in Statements, st.kind = "star",
         names \in [Module -> [Name -> Symbol]]
  PROVE  VisitFollows(s, ImportAll(s, st.module), st)
<1> DEFINE m == st.module
           given == {x \in Name : names[m][x] # None}
           imported(x) == ImportName(s, m, x)
           t == ImportAll(s, m)
<1>1. m \in Module /\ \A x \in Name : Gives(st, x) <=> x \in given
  BY DEF Statements, Gives, Binds
<1>2. \A x \in given : /\ Follows(s, imported(x), x, {names[m][x], Node("unknown", Here)})
                       /\ Settles(imported(x), x)
  BY <1>1, ImportNameFollows
<1>3. \A x \in given : {names[m][x], Node("unknown", Here)} \subseteq Sources(st, x)
  BY DEF Sources
<1>4. /\ t.names = [x \in Name |-> IF x \in given THEN imported(x).names[x] ELSE s.names[x]]
      /\ t.infos = s.infos /\ t.errors = s.errors \cup UNION {imported(x).errors : x \in given}
      /\ t.pass = [s.pass EXCEPT !.deferred = @ \/ \E x \in given : imported(x).pass.deferred,
                                 !.progress = @ \/ \E x \in given : imported(x).pass.progress]
      /\ t = [names |-> t.names, infos |-> t.infos, errors |-> t.errors, pass |-> t.pass]
  BY DEF ImportAll
<1>5. /\ t.pass \in Pass /\ t.pass.missing = s.pass.missing
      /\ t.pass.deferred <=> s.pass.deferred \/ \E x \in given : imported(x).pass.deferred
      /\ t.pass.progress <=> s.pass.progress \/ \E x \in given : imported(x).pass.progress
  BY <1>4 DEF AnalyzerState, Pass
<1> HIDE DEF t, imported
<1>6. /\ \A x \in given : imported(x).names[x] \in Symbol
      /\ \A x \in given : imported(x).errors \subseteq Report
      /\ \A x \in given : Sound(imported(x))
      /\ \A x \in given : imported(x).names[x] \in {s.names[x]} \cup Sources(st, x)
      /\ \A x \in given : Improves(s.names[x], imported(x).names[x])
      /\ \A x \in given : imported(x).pass.progress => s.pass.progress \/ imported(x).names[x] # s.names[x]
  BY <1>2, <1>3 DEF Follows, AnalyzerState
<1>7. t.names \in [Name -> Symbol] /\ t.errors \subseteq Report
  BY <1>4, <1>6 DEF AnalyzerState
<1>8. t \in AnalyzerState
  <2>1. t.infos \in SUBSET Place /\ t.errors \in SUBSET Report
    BY <1>4, <1>7 DEF AnalyzerState
  <2>2. QED
    BY <1>4, <1>5, <1>7, <2>1 DEF AnalyzerState
<1>9. Sound(t)
  BY <1>5, <1>6 DEF Sound
<1>10. \A x \in Name : /\ Improves(s.names[x], t.names[x])
                       /\ t.names[x] = s.names[x] \/ (Gives(st, x) /\ t.names[x] \in Sources(st, x))
                       /\ Gives(st, x) => Settles(t, x)
  <2> TAKE x \in Name
  <2>1. CASE x \in given
    BY <1>1, <1>2, <1>4, <1>5, <1>6, <2>1 DEF Settles
  <2>2. CASE x \notin given
    BY <1>1, <1>4, <2>2 DEF Improves
  <2>3. QED
    BY <2>1, <2>2
<1>11. t.pass.progress => s.pass.progress \/ \E x \in Name : t.names[x] # s.names[x]
  BY <1>4, <1>5, <1>6
<1>12. QED
  BY <1>5, <1>8, <1>9, <1>10, <1>11 DEF VisitFollows, t

LEMMA StarFollows ==
  ASSUME Visiting, NEW s \in AnalyzerState, Sound(s), NEW st \in Statements, st.kind = "star",
         final_iteration => incomplete_namespaces = {}, names \in [Module -> [Name -> Symbol]]
  PROVE  VisitFollows(s, ImportAll(IF st.module \in incomplete_namespaces THEN MarkIncomplete(s, "*", None) ELSE s,
                                   st.module), st)
<1>1. CASE st.module \in incomplete_namespaces
  <2> DEFINE d == MarkIncomplete(s, "*", None)
             t == ImportAll(d, st.module)
  <2> DEFINE e == [Defer(s) EXCEPT !.pass.incomplete = TRUE]
  <2>1. /\ e.names = s.names /\ e.pass.deferred /\ e.pass.progress = s.pass.progress
        /\ e \in AnalyzerState
    BY DEF Defer, AnalyzerState, Pass
  <2>2. d = [e EXCEPT !.pass.missing = e.pass.missing \cup {"*"}]
    BY DEF MarkIncomplete
  <2> HIDE DEF e, d
  <2>3. /\ d.names = s.names /\ d.pass.deferred /\ d.pass.progress = s.pass.progress
        /\ d \in AnalyzerState
    BY <2>1, <2>2 DEF AnalyzerState, Pass
  <2>4. Sound(d)
    BY <1>1, <2>3 DEF Sound
  <2>5. VisitFollows(d, t, st)
    BY <2>3, <2>4, ImportAllFollows
  <2> HIDE DEF t
  <2>6. VisitFollows(s, t, st)
    BY <2>3, <2>5 DEF VisitFollows
  <2>7. QED
    BY <1>1, <2>6 DEF t, d
<1>2. CASE st.module \notin incomplete_namespaces
  BY <1>2, ImportAllFollows
<1>3. QED
  BY <1>1, <1>2

(***************************************************************************)
(* The invariant.                                                          *)
(***************************************************************************)
\* Between two targets the analyzer waits for nothing; in the final iteration, never.
PassIsCurrent ==
  /\ target = Null => pass = NewPass
  /\ target # Null => statement >= 1 /\ outcome = "analysing"
  /\ outcome = "done" => worklist = <<>> /\ all_deferred = <<>>
  /\ outcome = "hung" => iteration = MaxIterations
  /\ pass.missing # {} => pass.deferred
  /\ final_iteration => ~pass.deferred /\ incomplete_namespaces = {} /\ all_deferred = <<>>

\* An iteration that starts has gained something since the one before.
Begun == iteration + (IF outcome = "hung" THEN 1 ELSE 0)
RoundsAreEarned ==
  /\ final_iteration => Begun <= Cardinality(Gains) + 2
  /\ ~final_iteration => Begun <= Cardinality(Gains) + 1
  /\ ~final_iteration /\ (any_progress \/ pass.progress) => Begun <= Cardinality(Gains)

\* For every placeholder there is a statement still to be visited that gives the name.
Due(m, i) ==
  \/ m \in ToSet(worklist) \/ m \in ToSet(all_deferred)
  \/ m = target /\ (statement <= i \/ pass.deferred)
Awaited(m, x) == \E i \in DOMAIN program[m] : Gives(program[m][i], x) /\ Due(m, i)
PlaceholdersAreAwaited ==
  \A m \in Module : \A x \in Name : names[m][x] \in Placeholders => Awaited(m, x)

DeferralInv == DeferralTypeOK /\ PassIsCurrent /\ RoundsAreEarned /\ PlaceholdersAreAwaited

(***************************************************************************)
(* Sequences of modules.                                                   *)
(***************************************************************************)
LEMMA Reversed ==
  ASSUME NEW S, NEW s \in Seq(S)
  PROVE  Reverse(s) \in Seq(S) /\ ToSet(Reverse(s)) = ToSet(s)
<1> DEFINE n == Len(s)
           r == Reverse(s)
<1>1. n \in Nat /\ DOMAIN s = 1..n /\ r = [i \in 1..n |-> s[n - i + 1]] /\ \A i \in 1..n : s[i] \in S
  BY DEF Reverse
<1> HIDE DEF n, r
<1>2. \A i \in 1..n : n - i + 1 \in 1..n
  BY <1>1
<1>3. r \in [1..n -> S] /\ DOMAIN r = 1..n
  BY <1>1, <1>2
<1>4. r \in Seq(S)
  BY <1>1, <1>3, SeqDef
<1>5. \A i \in 1..n : r[i] = s[n - i + 1] /\ s[i] = r[n - i + 1]
  <2> TAKE i \in 1..n
  <2>1. n - (n - i + 1) + 1 = i
    BY <1>1
  <2>2. QED
    BY <1>1, <1>2, <2>1
<1>6. {r[i] : i \in 1..n} = {s[i] : i \in 1..n}
  BY <1>2, <1>5
<1>7. QED
  BY <1>1, <1>3, <1>4, <1>6 DEF ToSet, r

LEMMA Appended ==
  ASSUME NEW S, NEW s \in Seq(S), NEW e \in S
  PROVE  Append(s, e) \in Seq(S) /\ ToSet(Append(s, e)) = ToSet(s) \cup {e}
<1>1. /\ Append(s, e) \in Seq(S) /\ Len(s) \in Nat /\ DOMAIN s = 1..Len(s)
      /\ DOMAIN Append(s, e) = 1..(Len(s) + 1)
      /\ \A i \in 1..(Len(s) + 1) : Append(s, e)[i] = IF i = Len(s) + 1 THEN e ELSE s[i]
  OBVIOUS
<1>2. QED
  BY <1>1 DEF ToSet

LEMMA Popped ==
  ASSUME NEW S, NEW s \in Seq(S), s # <<>>
  PROVE  /\ s[Len(s)] \in S /\ SubSeq(s, 1, Len(s) - 1) \in Seq(S)
         /\ ToSet(s) = ToSet(SubSeq(s, 1, Len(s) - 1)) \cup {s[Len(s)]}
<1> DEFINE n == Len(s)
           f == SubSeq(s, 1, n - 1)
<1>1. n \in Nat \ {0} /\ DOMAIN s = 1..n /\ \A i \in 1..n : s[i] \in S
  OBVIOUS
<1>2. f = [i \in 1..(n - 1) |-> s[i]]
  BY <1>1, SubSeqProperties
<1> HIDE DEF n, f
<1>3. f \in [1..(n - 1) -> S] /\ DOMAIN f = 1..(n - 1) /\ n - 1 \in Nat
  BY <1>1, <1>2
<1>4. f \in Seq(S)
  BY <1>3, SeqDef
<1>5. {s[i] : i \in 1..n} = {f[i] : i \in 1..(n - 1)} \cup {s[n]} /\ s[n] \in S
  BY <1>1, <1>2
<1>6. QED
  BY <1>1, <1>3, <1>4, <1>5 DEF ToSet, n, f

(***************************************************************************)
(* What has been gained.                                                   *)
(***************************************************************************)
Tables == [Module -> [Name -> Symbol]]

AllGains == 3 * Cardinality(Module) * Cardinality(Name)

LEMMA GainsFinite ==
  ASSUME NEW S \in SUBSET (Module \X Name \X (1..3))
  PROVE  IsFiniteSet(S) /\ Cardinality(S) \in Nat /\ Cardinality(S) <= AllGains
<1> DEFINE Pairs == (Module \X Name) \X (1..3)
           Triples == Module \X Name \X (1..3)
           f == [p \in Pairs |-> <<p[1][1], p[1][2], p[2]>>]
           a == Cardinality(Module)
           b == Cardinality(Name)
<1>1. IsFiniteSet(Pairs) /\ Cardinality(Pairs) = a * b * 3 /\ a \in Nat /\ b \in Nat
  <2>1. IsFiniteSet(1..3) /\ Cardinality(1..3) = 3
    <3>1. 1 \in Int /\ 3 \in Int
      OBVIOUS
    <3>2. IsFiniteSet(1..3) /\ Cardinality(1..3) = IF 1 > 3 THEN 0 ELSE 3 - 1 + 1
      BY ONLY <3>1, FS_Interval
    <3>3. QED
      BY <3>2
  <2>2. IsFiniteSet(Module \X Name) /\ Cardinality(Module \X Name) = a * b
    BY DeferralBounds, FS_Product
  <2>3. a \in Nat /\ b \in Nat
    BY DeferralBounds, FS_CardinalityType
  <2>4. IsFiniteSet(Pairs) /\ Cardinality(Pairs) = Cardinality(Module \X Name) * Cardinality(1..3)
    BY <2>1, <2>2, FS_Product
  <2>5. QED
    BY <2>1, <2>2, <2>3, <2>4
<1>2. f \in Surjection(Pairs, Triples)
  <2>1. f \in [Pairs -> Triples]
    OBVIOUS
  <2>2. ASSUME NEW t \in Triples
        PROVE  \E p \in Pairs : f[p] = t
    <3>1. PICK m \in Module, x \in Name, k \in 1..3 : t = <<m, x, k>>
      OBVIOUS
    <3>2. <<<<m, x>>, k>> \in Pairs /\ f[<<<<m, x>>, k>>] = t
      BY <3>1
    <3>3. QED
      BY <3>2
  <2>3. QED
    BY <2>1, <2>2 DEF Surjection
<1> HIDE DEF f
<1>3. IsFiniteSet(Triples) /\ Cardinality(Triples) <= Cardinality(Pairs)
  BY <1>1, <1>2, FS_Surjection
<1>4. /\ IsFiniteSet(S) /\ Cardinality(S) <= Cardinality(Triples)
      /\ Cardinality(S) \in Nat /\ Cardinality(Triples) \in Nat
  BY <1>3, FS_Subset, FS_CardinalityType
<1>5. AllGains = Cardinality(Pairs)
  <2> HIDE DEF a, b, Pairs
  <2>1. 3 * a * b = a * b * 3
    BY <1>1
  <2>2. QED
    BY <1>1, <2>1 DEF AllGains, a, b
<1>6. Cardinality(S) <= AllGains
  <2>1. Cardinality(Pairs) \in Nat
    BY <1>1, FS_CardinalityType
  <2>2. QED
    BY <1>3, <1>4, <1>5, <2>1
<1>7. QED
  BY <1>4, <1>6

\* Nothing that was gained is lost, and every change of a symbol gains something.
LEMMA GainsGrow ==
  ASSUME names \in Tables, names' \in Tables,
         \A m \in Module : \A x \in Name : Improves(names[m][x], names'[m][x])
  PROVE  /\ Cardinality(Gains) \in Nat /\ Cardinality(Gains') \in Nat
         /\ Cardinality(Gains) <= Cardinality(Gains')
         /\ (\E m \in Module : \E x \in Name : names'[m][x] # names[m][x])
              => Cardinality(Gains) < Cardinality(Gains')
<1> DEFINE Before == Gains
           After == {g \in Module \X Name \X (1..3) : g[3] <= Strength(names'[g[1]][g[2]])}
<1>1. Gains' = After
  BY DEF Gains
<1>2. /\ IsFiniteSet(After) /\ Cardinality(After) \in Nat
      /\ IsFiniteSet(Before) /\ Cardinality(Before) \in Nat
  BY GainsFinite DEF Gains
<1>3. ASSUME NEW m \in Module, NEW x \in Name
      PROVE  /\ names[m][x] \in Symbol /\ names'[m][x] \in Symbol
             /\ Strength(names[m][x]) \in 0..3 /\ Strength(names'[m][x]) \in 0..3
             /\ Strength(names[m][x]) <= Strength(names'[m][x])
             /\ names'[m][x] # names[m][x] => Strength(names[m][x]) < Strength(names'[m][x])
  <2>1. names[m][x] \in Symbol /\ names'[m][x] \in Symbol
    BY DEF Tables
  <2>2. Strength(names[m][x]) \in 0..3 /\ Strength(names'[m][x]) \in 0..3
    BY <2>1, Strengths
  <2>3. QED
    BY <2>1, <2>2 DEF Improves
<1>4. Before \subseteq After
  <2> SUFFICES ASSUME NEW m \in Module, NEW x \in Name, NEW k \in 1..3, k <= Strength(names[m][x])
               PROVE  k <= Strength(names'[m][x])
    BY DEF Gains
  <2>1. QED
    BY <1>3
<1>5. (\E m \in Module : \E x \in Name : names'[m][x] # names[m][x]) => Before # After
  <2> SUFFICES ASSUME NEW m \in Module, NEW x \in Name, names'[m][x] # names[m][x]
               PROVE  Before # After
    OBVIOUS
  <2> DEFINE g == <<m, x, Strength(names'[m][x])>>
  <2>1. Strength(names'[m][x]) \in 1..3 /\ ~(Strength(names'[m][x]) <= Strength(names[m][x]))
    BY <1>3
  <2>2. g \in After /\ g \notin Before
    BY <2>1 DEF Gains
  <2>3. QED
    BY <2>2
<1> HIDE DEF After
<1>6. /\ Cardinality(Before) \in Nat /\ Cardinality(Before) <= Cardinality(After)
      /\ Before # After => Cardinality(Before) # Cardinality(After)
  BY <1>2, <1>4, FS_Subset
<1>7. QED
  BY <1>1, <1>2, <1>5, <1>6

LEMMA GainsStay ==
  ASSUME names' = names
  PROVE  Cardinality(Gains') = Cardinality(Gains)
BY DEF Gains

(***************************************************************************)
(* The initial states.                                                     *)
(***************************************************************************)
LEMMA DeferralInitInv ==
  ASSUME DeferralInit
  PROVE  DeferralInv
<1>1. None \in Symbol /\ None \notin Placeholders
  BY Symbols
<1>2. DeferralTypeOK
  <2>1. program \in [Module -> Seq(Statements)] /\ worklist \in Seq(Module)
    BY ProgramAssumption, OrderAssumption DEF DeferralInit
  <2>2. incomplete_namespaces \subseteq Module
    BY DEF DeferralInit
  <2>3. iteration \in 1..MaxIterations /\ all_deferred \in Seq(Module)
    BY DeferralBounds DEF DeferralInit
  <2>4. pass \in Pass /\ names \in [Module -> [Name -> Symbol]]
    BY <1>1 DEF DeferralInit, NewPass, Pass
  <2>5. QED
    BY <2>1, <2>2, <2>3, <2>4 DEF DeferralInit, DeferralTypeOK
<1>3. PassIsCurrent
  BY DEF DeferralInit, PassIsCurrent, NewPass
<1>4. RoundsAreEarned
  <2>1. Cardinality(Gains) \in Nat
    BY GainsFinite DEF Gains
  <2>2. QED
    BY <2>1 DEF DeferralInit, RoundsAreEarned, Begun, NewPass
<1>5. PlaceholdersAreAwaited
  BY <1>1 DEF DeferralInit, PlaceholdersAreAwaited
<1>6. QED
  BY <1>2, <1>3, <1>4, <1>5 DEF DeferralInv

(***************************************************************************)
(* The visits.                                                             *)
(***************************************************************************)
AVisit == VisitFuncDef \/ VisitClassDef \/ VisitImportFrom \/ VisitImportAll
IsVisit(t) == VisitFollows(State, t, Visited) /\ Becomes(t)

LEMMA Visits ==
  ASSUME DeferralInv, AVisit
  PROVE  /\ target \in Module /\ statement \in DOMAIN program[target] /\ Visited \in Statements
         /\ \E t : IsVisit(t)
<1>1. target # Null /\ statement \in DOMAIN program[target]
  BY DEF AVisit, VisitFuncDef, VisitClassDef, VisitImportFrom, VisitImportAll, Visit
<1>2. target \in Module /\ Visiting /\ Visited \in Statements
  BY <1>1 DEF DeferralInv, DeferralTypeOK, Visiting, Visited
<1>3. State \in AnalyzerState /\ Sound(State)
  <2>1. State \in AnalyzerState
    BY <1>2 DEF DeferralInv, DeferralTypeOK, State, AnalyzerState
  <2>2. Sound(State)
    BY DEF DeferralInv, PassIsCurrent, State, Sound
  <2>3. QED
    BY <2>1, <2>2
<1>4. final_iteration => incomplete_namespaces = {}
  BY DEF DeferralInv, PassIsCurrent
<1>5. names \in [Module -> [Name -> Symbol]]
  BY DEF DeferralInv, DeferralTypeOK
<1>6. CASE VisitFuncDef
  BY <1>2, <1>3, <1>6, FuncDefFollows DEF VisitFuncDef, Visit, IsVisit
<1>7. CASE VisitClassDef
  BY <1>2, <1>3, <1>4, <1>7, ClassDefFollows DEF VisitClassDef, Visit, IsVisit
<1>8. CASE VisitImportFrom
  BY <1>2, <1>3, <1>4, <1>5, <1>8, ImportFromFollows DEF VisitImportFrom, Visit, IsVisit
<1>9. CASE VisitImportAll
  BY <1>2, <1>3, <1>4, <1>5, <1>9, StarFollows DEF VisitImportAll, Visit, IsVisit
<1>10. QED
  BY <1>1, <1>2, <1>6, <1>7, <1>8, <1>9 DEF AVisit

\* A visit leaves the other modules alone, and none of the module's names loses what it has.
LEMMA VisitedNames ==
  ASSUME DeferralInv, target \in Module, NEW t, IsVisit(t)
  PROVE  /\ names' \in Tables /\ names'[target] = t.names
         /\ \A m \in Module : m # target => names'[m] = names[m]
         /\ \A m \in Module : \A x \in Name : Improves(names[m][x], names'[m][x])
<1>1. names \in Tables /\ t.names \in [Name -> Symbol] /\ names' = [names EXCEPT ![target] = t.names]
  BY DEF DeferralInv, DeferralTypeOK, Tables, IsVisit, VisitFollows, AnalyzerState, Becomes
<1>2. \A x \in Name : Improves(names[target][x], t.names[x])
  BY DEF IsVisit, VisitFollows, State
<1>3. names' \in Tables /\ names'[target] = t.names /\ \A m \in Module : m # target => names'[m] = names[m]
  BY <1>1 DEF Tables
<1>4. QED
  BY <1>2, <1>3 DEF Improves

LEMMA VisitTypeOK ==
  ASSUME DeferralInv, target \in Module, NEW t, IsVisit(t)
  PROVE  DeferralTypeOK' /\ PassIsCurrent'
<1>1. /\ statement \in Nat /\ statement' = statement + 1 /\ t \in AnalyzerState /\ Sound(t)
      /\ infos' = t.infos /\ errors' = t.errors /\ pass' = t.pass
      /\ UNCHANGED <<program, worklist, all_deferred, any_progress, final_iteration, iteration,
                     incomplete_namespaces, target, outcome>>
  BY DEF DeferralInv, DeferralTypeOK, IsVisit, VisitFollows, Becomes, driver
<1>2. names' \in [Module -> [Name -> Symbol]]
  BY VisitedNames DEF Tables
<1>3. infos' \subseteq Place /\ errors' \subseteq Report /\ pass' \in Pass
  BY <1>1 DEF AnalyzerState
<1>4. DeferralTypeOK'
  BY <1>1, <1>2, <1>3 DEF DeferralInv, DeferralTypeOK
<1>5. target # Null
  BY NullAssumption
<1>6. PassIsCurrent'
  BY <1>1, <1>5 DEF DeferralInv, PassIsCurrent, Sound
<1>7. QED
  BY <1>4, <1>6

LEMMA VisitRounds ==
  ASSUME DeferralInv, target \in Module, NEW t, IsVisit(t)
  PROVE  RoundsAreEarned'
<1>1. UNCHANGED <<any_progress, final_iteration, iteration, outcome>> /\ pass' = t.pass
  BY DEF IsVisit, Becomes, driver
<1> DEFINE g == Cardinality(Gains)
           h == Cardinality(Gains')
           b == Begun
<1>2. g \in Nat /\ h \in Nat /\ g <= h /\ b \in Nat /\ b' = b
  BY <1>1, GainsGrow, VisitedNames DEF DeferralInv, DeferralTypeOK, Tables, Begun
<1>3. t.pass.progress => pass.progress \/ g < h
  <2>1. t.pass.progress => pass.progress \/ \E x \in Name : t.names[x] # names[target][x]
    BY DEF IsVisit, VisitFollows, State
  <2>2. names \in Tables
    BY DEF DeferralInv, DeferralTypeOK, Tables
  <2>3. (\E x \in Name : t.names[x] # names[target][x]) => g < h
    BY <2>2, VisitedNames, GainsGrow
  <2>4. QED
    BY <2>1, <2>3
<1>4. /\ final_iteration => b <= g + 2
      /\ ~final_iteration => b <= g + 1
      /\ ~final_iteration /\ (any_progress \/ pass.progress) => b <= g
  BY DEF DeferralInv, RoundsAreEarned
<1>5. (Cardinality(Gains))' = h
  OBVIOUS
<1> HIDE DEF g, h, b
<1>6. /\ final_iteration => b <= h + 2
      /\ ~final_iteration => b <= h + 1
      /\ ~final_iteration /\ (any_progress \/ t.pass.progress) => b <= h
  BY <1>2, <1>3, <1>4
<1>7. QED
  BY <1>1, <1>2, <1>6 DEF RoundsAreEarned, g, h, b

LEMMA VisitAwaits ==
  ASSUME DeferralInv, target \in Module, statement \in DOMAIN program[target], Visited \in Statements,
         NEW t, IsVisit(t)
  PROVE  PlaceholdersAreAwaited'
<1>1. /\ statement' = statement + 1 /\ pass' = t.pass /\ (pass.deferred => t.pass.deferred)
      /\ UNCHANGED <<program, worklist, all_deferred, target>>
  BY DEF IsVisit, VisitFollows, State, Becomes, driver
<1>2. /\ names' \in Tables /\ names'[target] = t.names
      /\ \A m \in Module : m # target => names'[m] = names[m]
      /\ \A m \in Module : \A x \in Name : Improves(names[m][x], names'[m][x])
  BY VisitedNames
<1>3. names \in Tables /\ program \in [Module -> Seq(Statements)] /\ statement \in Nat
  BY DEF DeferralInv, DeferralTypeOK, Tables
<1> DEFINE gives(st, x) == Binds(st, x) \/ (st.kind = "star" /\ names'[st.module][x] # None)
<1>4. ASSUME NEW st \in Statements, NEW x \in Name, Gives(st, x)
      PROVE  gives(st, x)
  <2>1. CASE Binds(st, x)
    BY <2>1
  <2>2. CASE st.kind = "star" /\ names[st.module][x] # None
    <3>1. st.module \in Module
      BY <2>2 DEF Statements
    <3>2. names[st.module][x] \in Symbol /\ names'[st.module][x] \in Symbol
      BY <1>2, <1>3, <3>1 DEF Tables
    <3>3. QED
      BY <1>2, <2>2, <3>1, <3>2, NoneGoes
  <2>3. QED
    BY <1>4, <2>1, <2>2 DEF Gives
<1>5. \A m \in Module : \A i \in DOMAIN program[m] : program[m][i] \in Statements /\ i \in Nat
  BY <1>3
<1> SUFFICES ASSUME NEW m \in Module, NEW x \in Name, names'[m][x] \in Placeholders
             PROVE  \E i \in DOMAIN program[m] :
                      /\ gives(program[m][i], x)
                      /\ \/ m \in ToSet(worklist) \/ m \in ToSet(all_deferred)
                         \/ m = target /\ (statement + 1 <= i \/ t.pass.deferred)
  BY <1>1 DEF PlaceholdersAreAwaited, Awaited, Due, Gives
<1> HIDE DEF gives
<1>6. CASE m = target /\ Gives(Visited, x)
  <2>1. t.pass.deferred
    BY <1>2, <1>6 DEF IsVisit, VisitFollows, Settles
  <2>2. gives(program[m][statement], x)
    BY <1>4, <1>6 DEF Visited
  <2>3. QED
    BY <1>6, <2>1, <2>2
<1>7. CASE ~(m = target /\ Gives(Visited, x))
  <2>1. names[m][x] \in Placeholders
    BY <1>2, <1>7 DEF IsVisit, VisitFollows, State
  <2>2. PICK i \in DOMAIN program[m] : Gives(program[m][i], x) /\ Due(m, i)
    BY <2>1 DEF DeferralInv, PlaceholdersAreAwaited, Awaited
  <2>3. gives(program[m][i], x) /\ i \in Nat
    BY <1>4, <1>5, <2>2
  <2>4. m = target => i # statement
    BY <1>7, <2>2 DEF Visited
  <2>5. QED
    BY <1>1, <1>3, <2>2, <2>3, <2>4 DEF Due
<1>8. QED
  BY <1>6, <1>7

LEMMA VisitInv ==
  ASSUME DeferralInv, AVisit
  PROVE  DeferralInv'
<1>1. PICK t : IsVisit(t)
  BY Visits
<1>2. target \in Module /\ statement \in DOMAIN program[target] /\ Visited \in Statements
  BY Visits
<1>3. DeferralTypeOK' /\ PassIsCurrent' /\ RoundsAreEarned' /\ PlaceholdersAreAwaited'
  BY <1>1, <1>2, VisitTypeOK, VisitRounds, VisitAwaits
<1>4. QED
  BY <1>3 DEF DeferralInv

(***************************************************************************)
(* The driver.                                                             *)
(***************************************************************************)
\* The driver's steps leave the names alone: what a name waits for stays what it was,
\* when the module is still due.
LEMMA StillAwaited ==
  ASSUME PlaceholdersAreAwaited, UNCHANGED <<program, names>>,
         \A m \in Module : \A i \in DOMAIN program[m] : Due(m, i) => Due(m, i)'
  PROVE  PlaceholdersAreAwaited'
<1> SUFFICES ASSUME NEW m \in Module, NEW x \in Name, names[m][x] \in Placeholders
             PROVE  Awaited(m, x)'
  BY DEF PlaceholdersAreAwaited
<1>1. PICK i \in DOMAIN program[m] : Gives(program[m][i], x) /\ Due(m, i)
  BY DEF PlaceholdersAreAwaited, Awaited
<1>2. Due(m, i)'
  BY <1>1
<1>3. QED
  BY <1>1, <1>2 DEF Awaited, Gives

LEMMA RoundsStay ==
  ASSUME RoundsAreEarned, UNCHANGED <<names, iteration, outcome, final_iteration>>,
         any_progress' \/ pass'.progress => any_progress \/ pass.progress
  PROVE  RoundsAreEarned'
<1>1. Cardinality(Gains') = Cardinality(Gains) /\ Begun' = Begun
  BY GainsStay DEF Begun
<1>2. QED
  BY <1>1 DEF RoundsAreEarned

LEMMA BeginTargetInv ==
  ASSUME DeferralInv, BeginTarget
  PROVE  DeferralInv'
<1>1. /\ worklist \in Seq(Module) /\ worklist # <<>> /\ target = Null /\ outcome = "analysing"
      /\ target' = worklist[Len(worklist)] /\ worklist' = SubSeq(worklist, 1, Len(worklist) - 1)
      /\ statement' = 1 /\ pass' = NewPass
      /\ UNCHANGED <<program, all_deferred, any_progress, final_iteration, iteration, incomplete_namespaces,
                     names, infos, errors, outcome>>
  BY DEF DeferralInv, DeferralTypeOK, BeginTarget
<1>2. target' \in Module /\ worklist' \in Seq(Module) /\ ToSet(worklist) = ToSet(worklist') \cup {target'}
  BY <1>1, Popped
<1>3. NewPass \in Pass /\ NewPass.missing = {} /\ ~NewPass.deferred /\ ~NewPass.progress
  BY DEF NewPass, Pass
<1>4. target' # Null
  BY <1>2, NullAssumption
<1>5. DeferralTypeOK'
  BY <1>1, <1>2, <1>3 DEF DeferralInv, DeferralTypeOK
<1>6. PassIsCurrent'
  BY <1>1, <1>3, <1>4 DEF DeferralInv, PassIsCurrent
<1>7. RoundsAreEarned'
  BY <1>1, <1>3, RoundsStay DEF DeferralInv
<1>8. ASSUME NEW m \in Module, NEW i \in DOMAIN program[m], Due(m, i)
      PROVE  Due(m, i)'
  <2>1. m # Null /\ i >= 1
    BY NullAssumption DEF DeferralInv, DeferralTypeOK
  <2>2. QED
    BY <1>1, <1>2, <1>8, <2>1 DEF Due
<1>9. PlaceholdersAreAwaited'
  BY <1>1, <1>8, StillAwaited DEF DeferralInv
<1>10. QED
  BY <1>5, <1>6, <1>7, <1>9 DEF DeferralInv

LEMMA EndTargetInv ==
  ASSUME DeferralInv, EndTarget
  PROVE  DeferralInv'
<1>1. /\ target # Null /\ statement \notin DOMAIN program[target]
      /\ all_deferred' = IF pass.deferred THEN Append(all_deferred, target) ELSE all_deferred
      /\ any_progress' = (any_progress \/ pass.progress)
      /\ incomplete_namespaces' = IF pass.incomplete THEN incomplete_namespaces ELSE incomplete_namespaces \ {target}
      /\ target' = Null /\ statement' = 0 /\ pass' = NewPass
      /\ UNCHANGED <<program, worklist, final_iteration, iteration, names, infos, errors, outcome>>
  BY DEF EndTarget
<1>2. target \in Module /\ all_deferred \in Seq(Module) /\ statement >= 1 /\ outcome = "analysing" /\ statement \in Nat
  BY <1>1 DEF DeferralInv, DeferralTypeOK, PassIsCurrent
<1>3. /\ all_deferred' \in Seq(Module)
      /\ ToSet(all_deferred') = ToSet(all_deferred) \cup (IF pass.deferred THEN {target} ELSE {})
  BY <1>1, <1>2, Appended
<1>4. NewPass \in Pass /\ NewPass.missing = {} /\ ~NewPass.deferred /\ ~NewPass.progress
  BY DEF NewPass, Pass
<1>5. pass.deferred \in BOOLEAN /\ pass.progress \in BOOLEAN
  BY DEF DeferralInv, DeferralTypeOK, Pass
<1>6. DeferralTypeOK'
  <2>1. any_progress' \in BOOLEAN /\ incomplete_namespaces' \subseteq Module
    BY <1>1, <1>5 DEF DeferralInv, DeferralTypeOK
  <2>2. QED
    BY <1>1, <1>3, <1>4, <2>1 DEF DeferralInv, DeferralTypeOK
<1>7. PassIsCurrent'
  BY <1>1, <1>2, <1>4 DEF DeferralInv, PassIsCurrent
<1>8. RoundsAreEarned'
  BY <1>1, <1>4, RoundsStay DEF DeferralInv
<1>9. ASSUME NEW m \in Module, NEW i \in DOMAIN program[m], Due(m, i)
      PROVE  Due(m, i)'
  <2>1. CASE m \in ToSet(worklist) \/ m \in ToSet(all_deferred)
    BY <1>1, <1>3, <2>1 DEF Due
  <2>2. CASE m = target /\ (statement <= i \/ pass.deferred)
    <3>1. program[m] \in Seq(Statements)
      BY DEF DeferralInv, DeferralTypeOK
    <3>2. ~(statement <= i)
      BY <1>1, <1>2, <2>2, <3>1
    <3>3. QED
      BY <1>3, <2>2, <3>2 DEF Due
  <2>3. QED
    BY <1>9, <2>1, <2>2 DEF Due
<1>10. PlaceholdersAreAwaited'
  BY <1>1, <1>9, StillAwaited DEF DeferralInv
<1>11. QED
  BY <1>6, <1>7, <1>8, <1>10 DEF DeferralInv

LEMMA NextIterationInv ==
  ASSUME DeferralInv, NextIteration
  PROVE  DeferralInv'
<1>1. /\ outcome = "analysing" /\ target = Null /\ worklist = <<>> /\ all_deferred # <<>>
      /\ worklist' = Reverse(all_deferred) /\ all_deferred' = <<>>
      /\ final_iteration' = ~any_progress /\ any_progress' = FALSE
      /\ incomplete_namespaces' = IF any_progress THEN incomplete_namespaces ELSE {}
      /\ UNCHANGED <<program, target, statement, names, infos, errors, pass>>
  BY DEF NextIteration, analyzer
<1>2. \/ iteration < MaxIterations /\ iteration' = iteration + 1 /\ outcome' = outcome
      \/ iteration = MaxIterations /\ outcome' = "hung" /\ iteration' = iteration
  BY DeferralBounds DEF DeferralInv, DeferralTypeOK, NextIteration
<1>3. worklist' \in Seq(Module) /\ ToSet(worklist') = ToSet(all_deferred)
  BY <1>1, Reversed DEF DeferralInv, DeferralTypeOK
<1>4. pass = NewPass /\ ~NewPass.progress /\ ~NewPass.deferred /\ ~final_iteration
  BY <1>1 DEF DeferralInv, PassIsCurrent, NewPass
<1>5. DeferralTypeOK'
  <2>1. iteration' \in 1..MaxIterations /\ outcome' \in {"analysing", "done", "hung"}
    BY <1>1, <1>2, DeferralBounds DEF DeferralInv, DeferralTypeOK
  <2>2. final_iteration' \in BOOLEAN /\ any_progress' \in BOOLEAN /\ incomplete_namespaces' \subseteq Module
        /\ all_deferred' \in Seq(Module)
    BY <1>1 DEF DeferralInv, DeferralTypeOK
  <2>3. QED
    BY <1>1, <1>3, <2>1, <2>2 DEF DeferralInv, DeferralTypeOK
<1>6. PassIsCurrent'
  BY <1>1, <1>2, <1>4 DEF DeferralInv, PassIsCurrent
<1>7. RoundsAreEarned'
  <2> DEFINE g == Cardinality(Gains)
             b == Begun
  <2>1. Cardinality(Gains') = g
    BY <1>1, GainsStay
  <2>2. b \in Nat /\ b' = b + 1
    BY <1>1, <1>2 DEF Begun, DeferralInv, DeferralTypeOK
  <2>3. g \in Nat
    BY GainsFinite DEF Gains
  <2>4. b <= g + 1 /\ (any_progress => b <= g)
    BY <1>4 DEF DeferralInv, RoundsAreEarned
  <2>5. ~any_progress' /\ ~pass'.progress
    BY <1>1, <1>4
  <2> HIDE DEF g, b
  <2>6. b + 1 <= g + 2 /\ (any_progress => b + 1 <= g + 1)
    BY <2>2, <2>3, <2>4
  <2>7. QED
    BY <1>1, <2>1, <2>2, <2>5, <2>6 DEF RoundsAreEarned, g, b
<1>8. ASSUME NEW m \in Module, NEW i \in DOMAIN program[m], Due(m, i)
      PROVE  Due(m, i)'
  <2>1. m # Null /\ ToSet(worklist) = {}
    BY <1>1, NullAssumption DEF ToSet
  <2>2. QED
    BY <1>1, <1>3, <1>8, <2>1 DEF Due
<1>9. PlaceholdersAreAwaited'
  BY <1>1, <1>8, StillAwaited DEF DeferralInv
<1>10. QED
  BY <1>5, <1>6, <1>7, <1>9 DEF DeferralInv

LEMMA FinishInv ==
  ASSUME DeferralInv, Finish
  PROVE  DeferralInv'
<1>1. /\ outcome = "analysing" /\ target = Null /\ worklist = <<>> /\ all_deferred = <<>> /\ outcome' = "done"
      /\ UNCHANGED <<program, worklist, all_deferred, any_progress, final_iteration, iteration,
                     incomplete_namespaces, target, statement, names, infos, errors, pass>>
  BY DEF Finish, driver, analyzer
<1>2. DeferralTypeOK'
  BY <1>1 DEF DeferralInv, DeferralTypeOK
<1>3. PassIsCurrent'
  BY <1>1 DEF DeferralInv, PassIsCurrent
<1>4. RoundsAreEarned'
  <2>1. Begun' = Begun /\ Cardinality(Gains') = Cardinality(Gains)
    BY <1>1, GainsStay DEF Begun
  <2>2. QED
    BY <1>1, <2>1 DEF DeferralInv, RoundsAreEarned
<1>5. PlaceholdersAreAwaited'
  <2>1. \A m \in Module : \A i \in DOMAIN program[m] : Due(m, i) => Due(m, i)'
    BY <1>1 DEF Due
  <2>2. QED
    BY <1>1, <2>1, StillAwaited DEF DeferralInv
<1>6. QED
  BY <1>2, <1>3, <1>4, <1>5 DEF DeferralInv

LEMMA StutterInv ==
  ASSUME DeferralInv, UNCHANGED deferralVars
  PROVE  DeferralInv'
<1>1. UNCHANGED <<program, worklist, all_deferred, any_progress, final_iteration, iteration,
                  incomplete_namespaces, target, statement, names, infos, errors, pass, outcome>>
  BY DEF deferralVars, driver, analyzer
<1>2. DeferralTypeOK'
  BY <1>1 DEF DeferralInv, DeferralTypeOK
<1>3. PassIsCurrent'
  BY <1>1 DEF DeferralInv, PassIsCurrent
<1>4. RoundsAreEarned'
  BY <1>1, RoundsStay DEF DeferralInv
<1>5. PlaceholdersAreAwaited'
  <2>1. \A m \in Module : \A i \in DOMAIN program[m] : Due(m, i) => Due(m, i)'
    BY <1>1 DEF Due
  <2>2. QED
    BY <1>1, <2>1, StillAwaited DEF DeferralInv
<1>6. QED
  BY <1>2, <1>3, <1>4, <1>5 DEF DeferralInv

LEMMA AlwaysDeferralInv == DeferralSpec => []DeferralInv
<1>1. DeferralInit => DeferralInv
  BY DeferralInitInv
<1>2. DeferralInv /\ [DeferralNext]_deferralVars => DeferralInv'
  <2> SUFFICES ASSUME DeferralInv, [DeferralNext]_deferralVars
               PROVE  DeferralInv'
    OBVIOUS
  <2>1. CASE AVisit
    BY <2>1, VisitInv
  <2>2. CASE BeginTarget
    BY <2>2, BeginTargetInv
  <2>3. CASE EndTarget
    BY <2>3, EndTargetInv
  <2>4. CASE NextIteration
    BY <2>4, NextIterationInv
  <2>5. CASE Finish
    BY <2>5, FinishInv
  <2>6. CASE UNCHANGED deferralVars
    BY <2>6, StutterInv
  <2>7. QED
    BY <2>1, <2>2, <2>3, <2>4, <2>5, <2>6 DEF DeferralNext, AVisit
<1>3. QED
  BY <1>1, <1>2, PTL DEF DeferralSpec

\* process_top_levels ends by itself, with nothing left open: nothing is deferred in the
\* final iteration, every other iteration but one has brought some name further, and
\* when all is done no symbol table has a placeholder.
THEOREM AlwaysDeferralEnds == DeferralSpec => []DeferralEnds
<1>1. DeferralInv => DeferralEnds
  <2> SUFFICES ASSUME DeferralInv
               PROVE  DeferralEnds
    OBVIOUS
  <2>1. NothingDeferred
    BY DEF DeferralInv, PassIsCurrent, NothingDeferred
  <2>2. EveryRoundGains
    <3> DEFINE g == Cardinality(Gains)
               b == Begun
    <3>1. g \in Nat /\ b \in Nat
      BY GainsFinite DEF Gains, Begun, DeferralInv, DeferralTypeOK
    <3>2. b <= g + 2 \/ b <= g + 1
      BY DEF DeferralInv, RoundsAreEarned
    <3> HIDE DEF g, b
    <3>3. b <= g + 2
      BY <3>1, <3>2
    <3>4. QED
      BY <3>3 DEF EveryRoundGains, g, b, Begun
  <2>3. NothingLeftOpen
    <3> SUFFICES ASSUME outcome = "done", NEW m \in Module, NEW x \in Name, names[m][x] \in Placeholders
                 PROVE  FALSE
      BY DEF NothingLeftOpen
    <3>1. PICK i \in DOMAIN program[m] : Due(m, i)
      BY DEF DeferralInv, PlaceholdersAreAwaited, Awaited
    <3>2. worklist = <<>> /\ all_deferred = <<>> /\ target = Null
      BY DEF DeferralInv, PassIsCurrent
    <3>3. QED
      BY <3>1, <3>2, NullAssumption DEF Due, ToSet
  <2>4. QED
    BY <2>1, <2>2, <2>3 DEF DeferralEnds
<1>2. QED
  BY <1>1, AlwaysDeferralInv, PTL

\* Every variable keeps its type, in the course of every analysis.
THEOREM AlwaysDeferralTypeOK == DeferralSpec => []DeferralTypeOK
<1>1. DeferralInv => DeferralTypeOK
  BY DEF DeferralInv
<1>2. QED
  BY <1>1, AlwaysDeferralInv, PTL

\* MAX_ITERATIONS stops nothing but an analysis of many names: as many as a third of
\* the iterations, in all the modules of the cycle.
HungOnlyByNames == outcome = "hung" => MaxIterations <= AllGains + 1

THEOREM AlwaysHungOnlyByNames == DeferralSpec => []HungOnlyByNames
<1>1. DeferralInv => HungOnlyByNames
  <2> SUFFICES ASSUME DeferralInv, outcome = "hung"
               PROVE  MaxIterations <= AllGains + 1
    BY DEF HungOnlyByNames
  <2> DEFINE g == Cardinality(Gains)
  <2>1. iteration = MaxIterations /\ MaxIterations \in Nat /\ Begun = MaxIterations + 1
    BY DeferralBounds DEF DeferralInv, PassIsCurrent, Begun
  <2>2. g \in Nat /\ g <= AllGains
    BY GainsFinite DEF Gains
  <2>3. MaxIterations + 1 <= g + 2 \/ MaxIterations + 1 <= g + 1
    BY <2>1 DEF DeferralInv, RoundsAreEarned
  <2>4. AllGains \in Nat
    <3>1. Cardinality(Module) \in Nat /\ Cardinality(Name) \in Nat
      BY DeferralBounds, FS_CardinalityType
    <3>2. QED
      BY <3>1 DEF AllGains
  <2> HIDE DEF g
  <2>5. QED
    BY <2>1, <2>2, <2>3, <2>4
<1>2. QED
  BY <1>1, AlwaysDeferralInv, PTL

\* A name that is bound to something is never bound to something else, by a later
\* statement or a later iteration: what has been looked up stays true.
NamesStay ==
  \A m \in Module : \A x \in Name : Ready(names[m][x]) => names'[m][x] = names[m][x]

LEMMA OnlyVisitsName ==
  ASSUME [DeferralNext]_deferralVars
  PROVE  AVisit \/ UNCHANGED <<names, program>>
<1>1. BeginTarget \/ EndTarget \/ NextIteration \/ Finish => UNCHANGED <<names, program>>
  BY DEF BeginTarget, EndTarget, NextIteration, Finish, analyzer
<1>2. UNCHANGED deferralVars => UNCHANGED <<names, program>>
  BY DEF deferralVars, analyzer
<1>3. QED
  BY <1>1, <1>2 DEF DeferralNext, AVisit

LEMMA StepsImprove ==
  ASSUME DeferralInv, [DeferralNext]_deferralVars
  PROVE  \A m \in Module : \A x \in Name : names'[m][x] \in Symbol /\ Improves(names[m][x], names'[m][x])
<1>1. names \in Tables
  BY DEF DeferralInv, DeferralTypeOK, Tables
<1>2. CASE AVisit
  <2>1. target \in Module /\ \E t : IsVisit(t)
    BY <1>2, Visits
  <2>2. QED
    BY <2>1, VisitedNames DEF Tables
<1>3. CASE names' = names
  BY <1>1, <1>3 DEF Improves, Tables
<1>4. QED
  BY <1>2, <1>3, OnlyVisitsName

THEOREM AlwaysNamesStay == DeferralSpec => [][NamesStay]_deferralVars
<1>1. DeferralInv /\ [DeferralNext]_deferralVars => NamesStay
  <2> SUFFICES ASSUME DeferralInv, [DeferralNext]_deferralVars, NEW m \in Module, NEW x \in Name, Ready(names[m][x])
               PROVE  names'[m][x] = names[m][x]
    BY DEF NamesStay
  <2>1. names[m][x] \in Symbol
    BY DEF DeferralInv, DeferralTypeOK
  <2>2. QED
    BY <2>1, StepsImprove, ReadyStays
<1>2. QED
  BY <1>1, AlwaysDeferralInv, PTL DEF DeferralSpec

\* What a name is bound to, wherever it was imported from, is a definition of that
\* name, of that kind, in the program; Any only stands for something imported.
IsDefinition(node, x) ==
  LET st == program[node.at[1]][node.at[2]]
  IN  /\ node.at[2] \in DOMAIN program[node.at[1]]
      /\ IF node.kind = "unknown" THEN st.kind \in {"from", "star"} ELSE st.kind = node.kind /\ st.name = x
SymbolsAreDefinitions ==
  \A m \in Module : \A x \in Name : Ready(names[m][x]) => IsDefinition(names[m][x], x)

LEMMA StillDefinitions ==
  ASSUME program' = program,
         \A m \in Module : \A x \in Name : Ready(names'[m][x]) => IsDefinition(names'[m][x], x)
  PROVE  SymbolsAreDefinitions'
<1> SUFFICES ASSUME NEW m \in Module, NEW x \in Name, Ready(names'[m][x])
             PROVE  IsDefinition(names[m][x], x)'
  BY DEF SymbolsAreDefinitions
<1> DEFINE node == names'[m][x]
<1>1. IsDefinition(node, x)
  OBVIOUS
<1> HIDE DEF node
<1>2. program'[node.at[1]] = program[node.at[1]]
  OBVIOUS
<1>3. LET st == program'[node.at[1]][node.at[2]]
      IN  /\ node.at[2] \in DOMAIN program'[node.at[1]]
          /\ IF node.kind = "unknown" THEN st.kind \in {"from", "star"} ELSE st.kind = node.kind /\ st.name = x
  BY <1>1, <1>2 DEF IsDefinition
<1>4. QED
  BY <1>3 DEF IsDefinition, node

LEMMA VisitBindsDefinitions ==
  ASSUME DeferralInv, SymbolsAreDefinitions, AVisit
  PROVE  SymbolsAreDefinitions'
<1>1. /\ target \in Module /\ statement \in DOMAIN program[target] /\ Visited \in Statements
      /\ \E t : IsVisit(t)
  BY Visits
<1>2. PICK t : IsVisit(t)
  BY <1>1
<1>3. /\ names'[target] = t.names /\ program' = program
      /\ \A m \in Module : m # target => names'[m] = names[m]
  BY <1>1, <1>2, VisitedNames DEF IsVisit, Becomes
<1> SUFFICES ASSUME NEW m \in Module, NEW x \in Name, Ready(names'[m][x])
             PROVE  IsDefinition(names'[m][x], x)
  BY <1>3, StillDefinitions
<1>4. CASE names'[m][x] = names[m][x]
  BY <1>4 DEF SymbolsAreDefinitions
<1>5. CASE names'[m][x] # names[m][x]
  <2>1. m = target /\ Gives(Visited, x) /\ names'[m][x] \in Sources(Visited, x)
    BY <1>2, <1>3, <1>5 DEF IsVisit, VisitFollows, State
  <2>2. names'[m][x] \notin Placeholders
    BY DEF Ready
  <2>3. /\ Here[1] = target /\ Here[2] = statement
        /\ \A kind : Node(kind, Here).kind = kind /\ Node(kind, Here).at = Here
    BY DEF Here, Node
  <2>4. CASE Visited.kind \in {"func", "class"}
    <3>1. names'[m][x] = Node(Visited.kind, Here) /\ Visited.name = x
      BY <2>1, <2>2, <2>4 DEF Sources, Gives, Binds
    <3>2. names'[m][x].kind = Visited.kind /\ names'[m][x].at[1] = target /\ names'[m][x].at[2] = statement
      BY <2>3, <3>1
    <3>3. Visited = program[target][statement] /\ Visited.kind # "unknown"
      BY <2>4 DEF Visited
    <3>4. QED
      BY <1>1, <3>1, <3>2, <3>3 DEF IsDefinition
  <2>5. CASE Visited.kind \notin {"func", "class"}
    <3>1. Visited.kind \in {"from", "star"} /\ Visited.module \in Module
      BY <1>1, <2>5 DEF Statements
    <3>2. names'[m][x] = Node("unknown", Here) \/ names'[m][x] = names[Visited.module][x]
      BY <2>1, <2>2, <2>5 DEF Sources
    <3>3. CASE names'[m][x] = Node("unknown", Here)
      BY <1>1, <2>3, <3>1, <3>3 DEF IsDefinition, Visited
    <3>4. CASE names'[m][x] = names[Visited.module][x]
      BY <3>1, <3>4 DEF SymbolsAreDefinitions
    <3>5. QED
      BY <3>2, <3>3, <3>4
  <2>6. QED
    BY <2>4, <2>5
<1>6. QED
  BY <1>4, <1>5

THEOREM AlwaysSymbolsAreDefinitions == DeferralSpec => []SymbolsAreDefinitions
<1>1. DeferralInit => SymbolsAreDefinitions
  BY DEF DeferralInit, SymbolsAreDefinitions, Ready
<1>2. DeferralInv /\ SymbolsAreDefinitions /\ [DeferralNext]_deferralVars => SymbolsAreDefinitions'
  <2> SUFFICES ASSUME DeferralInv, SymbolsAreDefinitions, [DeferralNext]_deferralVars
               PROVE  SymbolsAreDefinitions'
    OBVIOUS
  <2>1. CASE AVisit
    BY <2>1, VisitBindsDefinitions
  <2>2. CASE UNCHANGED <<names, program>>
    <3>1. \A m \in Module : \A x \in Name : Ready(names'[m][x]) => IsDefinition(names'[m][x], x)
      BY <2>2 DEF SymbolsAreDefinitions
    <3>2. QED
      BY <2>2, <3>1, StillDefinitions
  <2>3. QED
    BY <2>1, <2>2, OnlyVisitsName
<1>3. QED
  BY <1>1, <1>2, AlwaysDeferralInv, PTL DEF DeferralSpec

(***************************************************************************)
(* What names mean.                                                        *)
(***************************************************************************)
\* The library's theorems of induction are about operators; this one is not.
LEMMA Smallest ==
  ASSUME NEW S \in SUBSET Nat, S # {}
  PROVE  \E n \in S : \A k \in S : n <= k
<1> DEFINE R == OpToRel(<, Nat)
<1>1. IsWellFoundedOn(R, Nat)
  BY NatLessThanWellFounded
<1>2. ASSUME NEW x \in Nat, NEW y \in Nat, y < x PROVE <<y, x>> \in R
  BY <1>2, Zenon DEF OpToRel
<1> HIDE DEF R
<1>3. PICK x \in S : \A y \in S : ~(<<y, x>> \in R)
  BY <1>1, WFMin
<1>4. ASSUME NEW k \in S PROVE x <= k
  <2>1. ~(k < x)
    BY <1>2, <1>3
  <2>2. QED
    BY <2>1
<1>5. QED
  BY <1>4

\* A function can be applied again and again.
Iterates(f, S, a, F, n) == f \in [0..n -> S] /\ f[0] = a /\ \A k \in 1..n : f[k] = F[f[k - 1]]

LEMMA Iterating ==
  ASSUME NEW S, NEW a \in S, NEW F \in [S -> S], NEW n \in Nat
  PROVE  \E f : Iterates(f, S, a, F, n)
<1> DEFINE Bad == {k \in Nat : ~\E f : Iterates(f, S, a, F, k)}
<1> SUFFICES ASSUME Bad # {}
             PROVE  FALSE
  OBVIOUS
<1>1. PICK b \in Bad : \A k \in Bad : b <= k
  BY Smallest
<1>2. CASE b = 0
  <2>1. Iterates([k \in 0..0 |-> a], S, a, F, 0)
    BY DEF Iterates
  <2>2. QED
    BY <1>2, <2>1
<1>3. CASE b # 0
  <2>1. b - 1 \in Nat /\ ~(b <= b - 1)
    BY <1>3
  <2>2. PICK f : Iterates(f, S, a, F, b - 1)
    BY <1>1, <2>1
  <2> DEFINE g == [k \in 0..b |-> IF k = b THEN F[f[b - 1]] ELSE f[k]]
  <2>3. f \in [0..(b - 1) -> S] /\ f[0] = a /\ \A k \in 1..(b - 1) : f[k] = F[f[k - 1]]
    BY <2>2 DEF Iterates
  <2>4. f[b - 1] \in S /\ F[f[b - 1]] \in S
    BY <2>1, <2>3
  <2>5. g \in [0..b -> S] /\ g[0] = a
    BY <1>3, <2>3, <2>4
  <2>6. \A k \in 1..b : g[k] = F[g[k - 1]]
    BY <1>3, <2>1, <2>3
  <2>7. QED
    BY <2>5, <2>6 DEF Iterates
<1>4. QED
  BY <1>2, <1>3

LastStep == Cardinality(Module) * Cardinality(Name)

LEMMA StepsAre == LastStep \in Nat /\ Steps = 0..LastStep
<1>1. Cardinality(Module) \in Nat /\ Cardinality(Name) \in Nat
  BY DeferralBounds, FS_CardinalityType
<1>2. QED
  BY <1>1 DEF LastStep, Steps

\* A statement gives x, when the modules have the names in h.
Given(m, h) ==
  {x \in Name : \E i \in DOMAIN program[m] :
     LET st == program[m][i]
     IN Binds(st, x) \/ (st.kind = "star" /\ x \in h[st.module])}

NamesApproached(f) ==
  /\ f \in [0..LastStep -> [Module -> SUBSET Name]] /\ Names = f[LastStep]
  /\ f[0] = [m \in Module |-> {}]
  /\ \A k \in 1..LastStep : f[k] = [m \in Module |-> Given(m, f[k - 1])]

LEMMA NamesDefined == \E f : NamesApproached(f)
<1> DEFINE S == [Module -> SUBSET Name]
           F == [h \in S |-> [m \in Module |-> Given(m, h)]]
           a == [m \in Module |-> {}]
           Is(f) == f = [k \in Steps |-> [m \in Module |-> IF k = 0 THEN {} ELSE Given(m, f[k - 1])]]
<1>1. a \in S /\ F \in [S -> S] /\ \A h \in S : F[h] = [m \in Module |-> Given(m, h)]
  BY DEF Given
<1> HIDE DEF F
<1>2. PICK f : Iterates(f, S, a, F, LastStep)
  BY <1>1, StepsAre, Iterating
<1>3. f \in [0..LastStep -> S] /\ f[0] = a /\ \A k \in 1..LastStep : f[k] = F[f[k - 1]]
  BY <1>2 DEF Iterates
<1>4. Is(f)
  <2>1. \A k \in Steps : f[k] = [m \in Module |-> IF k = 0 THEN {} ELSE Given(m, f[k - 1])]
    <3> TAKE k \in Steps
    <3>1. CASE k = 0
      BY <1>3, <3>1
    <3>2. CASE k # 0
      <4>1. k \in 1..LastStep /\ k - 1 \in 0..LastStep
        BY <3>2, StepsAre
      <4>2. f[k] = F[f[k - 1]] /\ f[k - 1] \in S
        BY <1>3, <4>1
      <4>3. QED
        BY <1>1, <3>2, <4>2
    <3>3. QED
      BY <3>1, <3>2
  <2>2. QED
    BY <1>3, <2>1, StepsAre
<1> DEFINE g == CHOOSE h : Is(h)
<1>5. Is(g)
  BY <1>4
<1>6. Names = g[LastStep]
  BY DEF Names, Given, LastStep
<1> HIDE DEF g
<1>7. \A k \in Steps : g[k] = [m \in Module |-> IF k = 0 THEN {} ELSE Given(m, g[k - 1])]
  BY <1>5
<1>8. g[0] = a /\ \A k \in 1..LastStep : g[k] = [m \in Module |-> Given(m, g[k - 1])]
  BY <1>7, StepsAre
<1>9. \A k \in Steps : g[k] \in S
  <2>1. \A k \in Steps : \A m \in Module : Given(m, g[k - 1]) \in SUBSET Name
    BY DEF Given
  <2>2. QED
    BY <1>7, <2>1
<1>10. g \in [0..LastStep -> S]
  BY <1>5, <1>9, StepsAre
<1>11. NamesApproached(g)
  BY <1>6, <1>8, <1>10 DEF NamesApproached
<1>12. QED
  BY <1>11

\* A statement gives x to m in the end.
Brings(m, i, x) ==
  Binds(program[m][i], x) \/ (program[m][i].kind = "star" /\ x \in Names[program[m][i].module])
StarFree(m) == \A i \in DOMAIN program[m] : program[m][i].kind # "star"

LEMMA AtLeast ==
  ASSUME NEW S, IsFiniteSet(S), NEW x \in S, NEW y \in S
  PROVE  Cardinality(S) \in Nat \ {0} /\ (x # y => Cardinality(S) >= 2)
<1>1. IsFiniteSet({x}) /\ Cardinality({x}) = 1
  BY FS_Singleton
<1>2. x # y => Cardinality({x} \cup {y}) = 2 /\ IsFiniteSet({x} \cup {y})
  BY <1>1, FS_AddElement
<1>3. Cardinality(S) \in Nat
  BY FS_CardinalityType
<1>4. Cardinality({x}) <= Cardinality(S)
  BY FS_Subset
<1>5. Cardinality({x} \cup {y}) <= Cardinality(S)
  BY FS_Subset
<1>6. QED
  BY <1>1, <1>2, <1>3, <1>4, <1>5

\* Star imports of modules that have none give the names these modules bind.
LEMMA NamesAre ==
  ASSUME program \in [Module -> Seq(Statements)], ~StarChain
  PROVE  /\ Names \in [Module -> SUBSET Name]
         /\ \A m \in Module : \A x \in Name : x \in Names[m] <=> \E i \in DOMAIN program[m] : Brings(m, i, x)
<1>1. PICK f : NamesApproached(f)
  BY NamesDefined
<1>2. /\ f \in [0..LastStep -> [Module -> SUBSET Name]] /\ Names = f[LastStep]
      /\ \A k \in 1..LastStep : f[k] = [m \in Module |-> Given(m, f[k - 1])]
  BY <1>1 DEF NamesApproached
<1>3. Names \in [Module -> SUBSET Name]
  BY <1>2, StepsAre
<1>4. ASSUME NEW m \in Module, StarFree(m), NEW k \in 1..LastStep, NEW x \in Name
      PROVE  x \in f[k][m] <=> \E i \in DOMAIN program[m] : Binds(program[m][i], x)
  <2>1. f[k][m] = Given(m, f[k - 1])
    BY <1>2
  <2>2. QED
    BY <1>4, <2>1 DEF Given, StarFree
<1>5. ASSUME NEW m \in Module, NEW x \in Name, NEW i \in DOMAIN program[m], program[m][i].kind = "star"
      PROVE  LastStep - 1 \in 1..LastStep /\ program[m][i].module \in Module /\ StarFree(program[m][i].module)
  <2> DEFINE n == program[m][i].module
             a == Cardinality(Module)
             b == Cardinality(Name)
  <2>1. n \in Module
    <3>1. program[m][i] \in Statements
      OBVIOUS
    <3>2. QED
      BY <1>5, <3>1 DEF Statements
  <2>2. StarFree(n) /\ n # m
    BY <1>5 DEF StarChain, StarFree
  <2>3. a \in Nat /\ a >= 2 /\ b \in Nat \ {0}
    BY <2>1, <2>2, DeferralBounds, AtLeast
  <2> HIDE DEF a, b
  <2>4. a * b \in Nat /\ a * b >= 2
    BY <2>3
  <2>5. LastStep = a * b
    BY DEF LastStep, a, b
  <2>6. QED
    BY <2>1, <2>2, <2>4, <2>5
<1>6. ASSUME NEW m \in Module, NEW x \in Name
      PROVE  x \in Names[m] <=> \E i \in DOMAIN program[m] : Brings(m, i, x)
  <2>1. LastStep \in 1..LastStep
    <3>1. Cardinality(Module) \in Nat \ {0} /\ Cardinality(Name) \in Nat \ {0}
      BY DeferralBounds, AtLeast
    <3>2. QED
      BY <3>1 DEF LastStep
  <2>2. Names[m] = Given(m, f[LastStep - 1])
    BY <1>2, <2>1
  <2>3. ASSUME NEW i \in DOMAIN program[m], program[m][i].kind = "star"
        PROVE  x \in f[LastStep - 1][program[m][i].module] <=> x \in Names[program[m][i].module]
    BY <1>2, <1>4, <1>5, <2>1, <2>3
  <2>4. QED
    BY <2>2, <2>3 DEF Given, Brings
<1>7. QED
  BY <1>3, <1>6

\* The first statement that gives x.
LEMMA FirstIs ==
  ASSUME program \in [Module -> Seq(Statements)], ~StarChain, NEW m \in Module, NEW x \in Names[m]
  PROVE  LET i == First(m, x, Names)
         IN  /\ x \in Name /\ i \in DOMAIN program[m] /\ Brings(m, i, x)
             /\ \A j \in DOMAIN program[m] : Brings(m, j, x) => i <= j
<1> DEFINE S == {i \in DOMAIN program[m] : Brings(m, i, x)}
           Is(i) == i \in DOMAIN program[m] /\ Brings(m, i, x) /\ \A j \in 1..(i - 1) : ~Brings(m, j, x)
<1>1. x \in Name /\ S # {}
  BY NamesAre
<1>2. DOMAIN program[m] \subseteq Nat /\ S \subseteq Nat /\ DOMAIN program[m] = 1..Len(program[m])
      /\ Len(program[m]) \in Nat
  BY DEF StarFree
<1>3. PICK i \in S : \A j \in S : i <= j
  BY <1>1, <1>2, Smallest
<1>4. Is(i)
  <2>1. ASSUME NEW j \in 1..(i - 1) PROVE ~Brings(m, j, x)
    <3>1. j \in DOMAIN program[m] /\ ~(i <= j)
      BY <1>2, <1>3
    <3>2. QED
      BY <1>3, <3>1
  <2>2. QED
    BY <1>3, <2>1
<1> DEFINE c == CHOOSE j \in DOMAIN program[m] : Brings(m, j, x) /\ \A l \in 1..(j - 1) : ~Brings(m, l, x)
<1>5. First(m, x, Names) = c
  BY DEF First, Brings
<1>6. c \in DOMAIN program[m] /\ Brings(m, c, x) /\ \A l \in 1..(c - 1) : ~Brings(m, l, x)
  BY <1>4
<1> HIDE DEF c
<1>7. \A j \in DOMAIN program[m] : Brings(m, j, x) => c <= j
  BY <1>2, <1>6
<1>8. QED
  BY <1>1, <1>5, <1>6, <1>7

\* A name that is used and does not exist is one that no star import could have brought.
UndefinedWithoutStars ==
  \A m \in Module : \A i \in DOMAIN program[m] :
    LET st == program[m][i]
    IN  /\ Unavailable(m, i) => StarFree(st.module)
        /\ st.kind = "class" /\ st.base # Null /\ st.base \notin Names[m] => StarFree(m)

Plain ==
  /\ program \in [Module -> Seq(Statements)]
  /\ ~StarChain /\ (\A m \in Module : ~Redefines(m)) /\ UndefinedWithoutStars

Means(m, x) == Meaning[m][x] # None
Bound(m, x) == Ready(names[m][x])

\* What x in m rests on.
Succ(m, x) ==
  LET st == program[m][First(m, x, Names)]
  IN  IF st.kind = "func" THEN {}
      ELSE IF st.kind = "class" THEN IF st.base \in Names[m] THEN {<<m, st.base>>} ELSE {}
      ELSE IF x \in Names[st.module] THEN {<<st.module, x>>} ELSE {}

\* The programs are constant.
LEMMA MeaningStays ==
  ASSUME program' = program
  PROVE  /\ Names' = Names /\ Meaning' = Meaning /\ (Plain' <=> Plain)
         /\ \A m, x : First(m, x, Names)' = First(m, x, Names)
         /\ \A m, x : Means(m, x)' <=> Means(m, x)
         /\ \A m, x : Succ(m, x)' = Succ(m, x)
         /\ \A m, i, x : Brings(m, i, x)' <=> Brings(m, i, x)
         /\ \A m : StarFree(m)' <=> StarFree(m)
<1>1. Names' = Names
  BY DEF Names, Steps, Binds
<1>2. Meaning' = Meaning
  BY DEF Meaning, First, Names, Steps, Binds
<1>3. StarChain' <=> StarChain
  BY DEF StarChain
<1>4. (\A m \in Module : ~Redefines(m))' <=> \A m \in Module : ~Redefines(m)
  <2>1. \A m, x : First(m, x, Names)' = First(m, x, Names)
    BY <1>1 DEF First, Binds
  <2>2. QED
    BY <1>1, <2>1 DEF Redefines, Binds
<1>5. UndefinedWithoutStars' <=> UndefinedWithoutStars
  BY <1>1 DEF UndefinedWithoutStars, Unavailable, StarFree
<1>6. Plain' <=> Plain
  BY <1>3, <1>4, <1>5 DEF Plain
<1>7. \A m, x : First(m, x, Names)' = First(m, x, Names)
  BY <1>1 DEF First, Binds
<1>8. \A m, x : Means(m, x)' <=> Means(m, x)
  BY <1>2 DEF Means
<1>9. ASSUME NEW m, NEW x PROVE Succ(m, x)' = Succ(m, x)
  <2>1. First(m, x, Names)' = First(m, x, Names)
    BY <1>7
  <2>2. QED
    BY <1>1, <2>1 DEF Succ
<1>10. \A m, i, x : Brings(m, i, x)' <=> Brings(m, i, x)
  BY <1>1 DEF Brings, Binds
<1>11. \A m : StarFree(m)' <=> StarFree(m)
  BY DEF StarFree
<1>12. QED
  BY <1>1, <1>2, <1>6, <1>7, <1>8, <1>9, <1>10, <1>11

LEMMA PlainStatements ==
  ASSUME Plain, NEW m \in Module, NEW i \in DOMAIN program[m]
  PROVE  /\ program[m][i] \in Statements /\ i \in Nat \ {0}
         /\ program[m][i].kind = "star" =>
              /\ program[m][i].module \in Module /\ program[m][i].module # m
              /\ StarFree(program[m][i].module) /\ ~StarFree(m)
         /\ program[m][i].kind = "from" =>
              /\ program[m][i].module \in Module
              /\ program[m][i].name \in Names[program[m][i].module] \/ StarFree(program[m][i].module)
         /\ program[m][i].kind = "class" =>
              program[m][i].base = Null \/ program[m][i].base \in Names[m] \/ StarFree(m)
<1>1. program[m][i] \in Statements /\ i \in Nat \ {0}
  BY DEF Plain
<1>2. program[m][i].kind \in {"star", "from"} => program[m][i].module \in Module
  BY <1>1 DEF Statements
<1>3. program[m][i].kind = "star" => StarFree(program[m][i].module) /\ ~StarFree(m)
  BY DEF Plain, StarChain, StarFree
<1>4. QED
  BY <1>1, <1>2, <1>3 DEF Plain, UndefinedWithoutStars, Unavailable

\* What x in m means, if the names that it rests on mean g.
Rule(g, m, x) ==
  LET i == First(m, x, Names)
      st == program[m][i]
  IN  CASE st.kind = "func" -> Node("func", <<m, i>>)
        [] st.kind = "class" -> IF st.base \in Names[m] /\ g[m][st.base] = None
                                THEN None ELSE Node("class", <<m, i>>)
        [] st.kind = "from" /\ x \notin Names[st.module] -> Node("unknown", <<m, i>>)
        [] OTHER -> g[st.module][x]

MeaningApproached(f) ==
  /\ f \in [0..LastStep -> Tables] /\ Meaning = f[LastStep]
  /\ \A k \in 0..LastStep : \A m \in Module : \A x \in Name :
       f[k][m][x] = IF k = 0 \/ x \notin Names[m] THEN None ELSE Rule(f[k - 1], m, x)

LEMMA RuleIs ==
  ASSUME Plain, NEW g, NEW m \in Module, NEW x \in Names[m]
  PROVE  LET i == First(m, x, Names)
             st == program[m][i]
         IN  /\ x \in Name /\ i \in DOMAIN program[m] /\ st \in Statements /\ Brings(m, i, x)
             /\ \A j \in DOMAIN program[m] : Brings(m, j, x) => i <= j
             /\ st.kind = "func" => Rule(g, m, x) = Node("func", <<m, i>>) /\ Succ(m, x) = {}
             /\ st.kind = "class" =>
                  /\ Rule(g, m, x) = IF st.base \in Names[m] /\ g[m][st.base] = None
                                     THEN None ELSE Node("class", <<m, i>>)
                  /\ Succ(m, x) = IF st.base \in Names[m] THEN {<<m, st.base>>} ELSE {}
             /\ st.kind \in {"from", "star"} =>
                  /\ st.module \in Module
                  /\ x \in Names[st.module] => Rule(g, m, x) = g[st.module][x] /\ Succ(m, x) = {<<st.module, x>>}
                  /\ x \notin Names[st.module] =>
                       /\ Rule(g, m, x) = Node("unknown", <<m, i>>) /\ Succ(m, x) = {}
                       /\ st.kind = "from" /\ st.name = x /\ StarFree(st.module)
             /\ st.kind \in {"func", "class", "from", "star"}
<1> DEFINE i == First(m, x, Names)
           st == program[m][i]
<1>1. /\ x \in Name /\ i \in DOMAIN program[m] /\ Brings(m, i, x)
      /\ \A j \in DOMAIN program[m] : Brings(m, j, x) => i <= j
  BY FirstIs DEF Plain
<1>2. /\ st \in Statements /\ st.kind \in {"func", "class", "from", "star"}
      /\ st.kind \in {"from", "star"} => st.module \in Module
      /\ st.kind = "star" => x \in Names[st.module]
      /\ st.kind = "from" => st.name = x /\ (x \in Names[st.module] \/ StarFree(st.module))
  <2>1. st \in Statements
    BY <1>1, PlainStatements
  <2>2. st.kind \in {"func", "class", "from", "star"}
    BY <2>1 DEF Statements
  <2>3. /\ st.kind \in {"from", "star"} => st.module \in Module
        /\ st.kind = "star" => x \in Names[st.module]
        /\ st.kind = "from" => st.name = x /\ (x \in Names[st.module] \/ StarFree(st.module))
    BY <1>1, PlainStatements DEF Brings, Binds
  <2>4. QED
    BY <2>1, <2>2, <2>3
<1>3. st.kind = "func" => Rule(g, m, x) = Node("func", <<m, i>>) /\ Succ(m, x) = {}
  BY DEF Rule, Succ
<1>4. st.kind = "class" =>
                  /\ Rule(g, m, x) = IF st.base \in Names[m] /\ g[m][st.base] = None
                                     THEN None ELSE Node("class", <<m, i>>)
                  /\ Succ(m, x) = IF st.base \in Names[m] THEN {<<m, st.base>>} ELSE {}
  BY DEF Rule, Succ
<1>5. st.kind \in {"from", "star"} =>
        /\ x \in Names[st.module] => Rule(g, m, x) = g[st.module][x] /\ Succ(m, x) = {<<st.module, x>>}
        /\ x \notin Names[st.module] => Rule(g, m, x) = Node("unknown", <<m, i>>) /\ Succ(m, x) = {}
  BY <1>2 DEF Rule, Succ
<1>6. QED
  BY <1>1, <1>2, <1>3, <1>4, <1>5 DEF i

LEMMA RuleType ==
  ASSUME Plain, NEW g \in Tables, NEW m \in Module, NEW x \in Names[m]
  PROVE  Rule(g, m, x) \in Symbol
<1> DEFINE i == First(m, x, Names)
           st == program[m][i]
<1>1. /\ x \in Name /\ i \in DOMAIN program[m] /\ st.kind \in {"func", "class", "from", "star"}
      /\ st.kind \in {"func", "class"} => Rule(g, m, x) \in {None, Node(st.kind, <<m, i>>)}
      /\ st.kind \in {"from", "star"} =>
           Rule(g, m, x) \in {g[st.module][x], Node("unknown", <<m, i>>)} /\ st.module \in Module
  BY RuleIs
<1> HIDE DEF i
<1>2. i \in Nat
  BY <1>1, PlainStatements
<1>3. \A kind \in {"func", "class", "unknown"} : Node(kind, <<m, i>>) \in Symbol
  BY <1>2 DEF Node, Symbol, Place
<1>4. st.kind \in {"from", "star"} => g[st.module][x] \in Symbol
  BY <1>1 DEF Tables
<1>5. QED
  BY <1>1, <1>3, <1>4, Symbols

LEMMA MeaningDefined ==
  ASSUME Plain
  PROVE  \E f : MeaningApproached(f)
<1> DEFINE By(g) == [m \in Module |-> [x \in Name |-> IF x \notin Names[m] THEN None ELSE Rule(g, m, x)]]
           F == [g \in Tables |-> By(g)]
           a == [m \in Module |-> [x \in Name |-> None]]
           Is(f) == f = [k \in Steps |-> [m \in Module |-> [x \in Name |->
                           IF k = 0 \/ x \notin Names[m] THEN None ELSE Rule(f[k - 1], m, x)]]]
<1>1. a \in Tables /\ \A g \in Tables : By(g) \in Tables
  BY Symbols, RuleType DEF Tables
<1>2. F \in [Tables -> Tables] /\ \A g \in Tables : F[g] = By(g)
  BY <1>1
<1> HIDE DEF F
<1>3. PICK f : Iterates(f, Tables, a, F, LastStep)
  BY <1>1, <1>2, StepsAre, Iterating
<1>4. f \in [0..LastStep -> Tables] /\ f[0] = a /\ \A k \in 1..LastStep : f[k] = F[f[k - 1]]
  BY <1>3 DEF Iterates
<1>5. Is(f)
  <2>1. \A k \in Steps : f[k] = [m \in Module |-> [x \in Name |->
                                   IF k = 0 \/ x \notin Names[m] THEN None ELSE Rule(f[k - 1], m, x)]]
    <3> TAKE k \in Steps
    <3>1. CASE k = 0
      BY <1>4, <3>1
    <3>2. CASE k # 0
      <4>1. k \in 1..LastStep /\ k - 1 \in 0..LastStep
        BY <3>2, StepsAre
      <4>2. f[k] = By(f[k - 1])
        BY <1>2, <1>4, <4>1
      <4>3. QED
        BY <3>2, <4>2
    <3>3. QED
      BY <3>1, <3>2
  <2>2. QED
    BY <1>4, <2>1, StepsAre
<1> DEFINE g == CHOOSE h : Is(h)
<1>6. Is(g)
  BY <1>5
<1>7. Meaning = g[LastStep]
  BY DEF Meaning, Rule, LastStep
<1> HIDE DEF g
<1>8. \A k \in Steps : g[k] = [m \in Module |-> [x \in Name |->
                                 IF k = 0 \/ x \notin Names[m] THEN None ELSE Rule(g[k - 1], m, x)]]
  BY <1>6
<1>9. g \in [Steps -> Tables]
  <2> DEFINE Bad == {k \in Nat : k \in Steps /\ g[k] \notin Tables}
  <2> SUFFICES ASSUME Bad # {}
               PROVE  FALSE
    <3>1. \A k \in Steps : g[k] \in Tables
      BY StepsAre
    <3>2. QED
      BY <1>6, <3>1
  <2>1. PICK b \in Bad : \A k \in Bad : b <= k
    BY Smallest
  <2>2. CASE b = 0
    BY <1>1, <1>8, <2>1, <2>2
  <2>3. CASE b # 0
    <3>1. b - 1 \in Steps /\ b - 1 \in Nat /\ ~(b <= b - 1)
      BY <2>1, <2>3, StepsAre
    <3>2. g[b - 1] \in Tables
      BY <2>1, <3>1
    <3>3. g[b] = By(g[b - 1])
      BY <1>8, <2>1, <2>3
    <3>4. QED
      BY <1>1, <2>1, <3>2, <3>3
  <2>4. QED
    BY <2>2, <2>3
<1>10. QED
  BY <1>7, <1>8, <1>9, StepsAre DEF MeaningApproached

LEMMA SuccType ==
  ASSUME Plain, NEW m \in Module, NEW x \in Names[m]
  PROVE  Succ(m, x) \subseteq Module \X Name
<1> DEFINE i == First(m, x, Names)
           st == program[m][i]
<1>1. /\ x \in Name /\ st.kind \in {"func", "class", "from", "star"}
      /\ st.kind = "func" => Succ(m, x) = {}
      /\ st.kind = "class" => Succ(m, x) = IF st.base \in Names[m] THEN {<<m, st.base>>} ELSE {}
      /\ st.kind \in {"from", "star"} => Succ(m, x) \subseteq {<<st.module, x>>} /\ st.module \in Module
  BY RuleIs
<1>2. st.base \in Names[m] => st.base \in Name
  BY NamesAre DEF Plain
<1> HIDE DEF i
<1>3. QED
  BY <1>1, <1>2

\* What is known of some names stays true when more of them are known.
LEMMA RuleStays ==
  ASSUME Plain, NEW g \in Tables, NEW h \in Tables, NEW m \in Module, NEW x \in Names[m],
         \A n \in Module : \A y \in Name : g[n][y] # None => h[n][y] = g[n][y],
         Rule(g, m, x) # None
  PROVE  /\ Rule(h, m, x) = Rule(g, m, x)
         /\ \A v \in Succ(m, x) : g[v[1]][v[2]] # None
<1> DEFINE i == First(m, x, Names)
           st == program[m][i]
<1>1. /\ x \in Name /\ st \in Statements /\ st.kind \in {"func", "class", "from", "star"}
      /\ st.kind = "func" => Succ(m, x) = {}
      /\ st.kind = "class" => Succ(m, x) = IF st.base \in Names[m] THEN {<<m, st.base>>} ELSE {}
      /\ st.kind \in {"from", "star"} =>
           /\ Succ(m, x) = IF x \in Names[st.module] THEN {<<st.module, x>>} ELSE {}
           /\ st.module \in Module
  BY RuleIs
<1>2. ASSUME NEW e
      PROVE  /\ st.kind = "func" => Rule(e, m, x) = Node("func", <<m, i>>)
             /\ st.kind = "class" => Rule(e, m, x) = IF st.base \in Names[m] /\ e[m][st.base] = None
                                                    THEN None ELSE Node("class", <<m, i>>)
             /\ st.kind \in {"from", "star"} =>
                  Rule(e, m, x) = IF x \in Names[st.module] THEN e[st.module][x] ELSE Node("unknown", <<m, i>>)
  BY RuleIs
<1>3. st.base \in Names[m] => st.base \in Name
  BY NamesAre DEF Plain
<1> HIDE DEF i
<1>4. CASE st.kind = "func"
  BY <1>1, <1>2, <1>4
<1>5. CASE st.kind = "class"
  BY <1>1, <1>2, <1>3, <1>5
<1>6. CASE st.kind \in {"from", "star"}
  BY <1>1, <1>2, <1>6
<1>7. QED
  BY <1>1, <1>4, <1>5, <1>6

LEMMA MeaningGrows ==
  ASSUME Plain, NEW f, MeaningApproached(f)
  PROVE  \A k \in 1..LastStep : \A m \in Module : \A x \in Name :
           f[k - 1][m][x] # None => f[k][m][x] = f[k - 1][m][x]
<1> DEFINE Grows(k) == \A m \in Module : \A x \in Name : f[k - 1][m][x] # None => f[k][m][x] = f[k - 1][m][x]
           Bad == {k \in Nat : k \in 1..LastStep /\ ~Grows(k)}
<1> SUFFICES ASSUME Bad # {}
             PROVE  FALSE
  <2>1. 1..LastStep \subseteq Nat
    BY StepsAre
  <2> HIDE DEF Grows
  <2>2. \A k \in 1..LastStep : Grows(k)
    BY <2>1
  <2>3. QED
    BY <2>2 DEF Grows
<1>1. PICK b \in Bad : \A k \in Bad : b <= k
  BY Smallest
<1>2. /\ f \in [0..LastStep -> Tables]
      /\ \A k \in 0..LastStep : \A m \in Module : \A x \in Name :
           f[k][m][x] = IF k = 0 \/ x \notin Names[m] THEN None ELSE Rule(f[k - 1], m, x)
  BY DEF MeaningApproached
<1>3. b \in 1..LastStep /\ b - 1 \in 0..LastStep /\ b \in 0..LastStep
  BY <1>1, StepsAre
<1>4. PICK m \in Module, x \in Name : f[b - 1][m][x] # None /\ f[b][m][x] # f[b - 1][m][x]
  BY <1>1
<1>5. b - 1 # 0 /\ x \in Names[m] /\ f[b - 1][m][x] = Rule(f[b - 1 - 1], m, x)
  BY <1>2, <1>3, <1>4
<1>6. b - 1 \in 1..LastStep /\ ~(b <= b - 1) /\ b - 1 - 1 \in 0..LastStep
  BY <1>3, <1>5, StepsAre
<1>7. Grows(b - 1)
  BY <1>1, <1>6
<1>8. f[b][m][x] = Rule(f[b - 1], m, x)
  BY <1>2, <1>3, <1>5
<1>9. f[b - 1] \in Tables /\ f[b - 1 - 1] \in Tables
  BY <1>2, <1>3, <1>6
<1>10. Rule(f[b - 1], m, x) = Rule(f[b - 1 - 1], m, x)
  BY <1>4, <1>5, <1>7, <1>9, RuleStays
<1>11. QED
  BY <1>4, <1>5, <1>8, <1>10

\* A name that means something rests on names that mean something, and means what they do.
LEMMA MeansAre ==
  ASSUME Plain
  PROVE  /\ Meaning \in Tables
         /\ \A m \in Module : \A x \in Name : Means(m, x) =>
              /\ x \in Names[m] /\ Meaning[m][x] = Rule(Meaning, m, x)
              /\ \A v \in Succ(m, x) : v \in Module \X Name /\ Means(v[1], v[2])
<1>1. PICK f : MeaningApproached(f)
  BY MeaningDefined
<1>2. /\ f \in [0..LastStep -> Tables] /\ Meaning = f[LastStep]
      /\ \A k \in 0..LastStep : \A m \in Module : \A x \in Name :
           f[k][m][x] = IF k = 0 \/ x \notin Names[m] THEN None ELSE Rule(f[k - 1], m, x)
  BY <1>1 DEF MeaningApproached
<1>3. Meaning \in Tables
  BY <1>2, StepsAre
<1>4. ASSUME NEW m \in Module, NEW x \in Name, Means(m, x)
      PROVE  /\ x \in Names[m] /\ Meaning[m][x] = Rule(Meaning, m, x)
             /\ \A v \in Succ(m, x) : v \in Module \X Name /\ Means(v[1], v[2])
  <2>1. LastStep # 0 /\ x \in Names[m] /\ Meaning[m][x] = Rule(f[LastStep - 1], m, x)
    BY <1>2, <1>4, StepsAre DEF Means
  <2>2. LastStep \in 1..LastStep /\ LastStep - 1 \in 0..LastStep
    BY <2>1, StepsAre
  <2>3. \A n \in Module : \A y \in Name : f[LastStep - 1][n][y] # None => Meaning[n][y] = f[LastStep - 1][n][y]
    BY <1>1, <1>2, <2>2, MeaningGrows
  <2>4. f[LastStep - 1] \in Tables /\ Rule(f[LastStep - 1], m, x) # None
    BY <1>2, <1>4, <2>1, <2>2 DEF Means
  <2>5. Rule(Meaning, m, x) = Rule(f[LastStep - 1], m, x)
        /\ \A v \in Succ(m, x) : f[LastStep - 1][v[1]][v[2]] # None
    BY <1>3, <2>1, <2>3, <2>4, RuleStays
  <2>6. Succ(m, x) \subseteq Module \X Name
    BY <2>1, SuccType
  <2>7. QED
    BY <2>1, <2>3, <2>5, <2>6 DEF Means
<1>5. QED
  BY <1>3, <1>4

\* In any set of names that mean something there is one that rests on none of the others.
LEMMA Grounded ==
  ASSUME Plain, NEW U \in SUBSET (Module \X Name), U # {}, \A u \in U : Means(u[1], u[2])
  PROVE  \E u \in U : Succ(u[1], u[2]) \cap U = {}
<1>1. PICK f : MeaningApproached(f)
  BY MeaningDefined
<1>2. /\ f \in [0..LastStep -> Tables] /\ Meaning = f[LastStep]
      /\ \A k \in 0..LastStep : \A m \in Module : \A x \in Name :
           f[k][m][x] = IF k = 0 \/ x \notin Names[m] THEN None ELSE Rule(f[k - 1], m, x)
  BY <1>1 DEF MeaningApproached
<1> DEFINE K == {k \in Nat : k \in 0..LastStep /\ \E u \in U : f[k][u[1]][u[2]] # None}
<1>3. K # {}
  BY <1>2, StepsAre DEF Means
<1>4. PICK k \in K : \A j \in K : k <= j
  BY <1>3, Smallest
<1>5. PICK u \in U : f[k][u[1]][u[2]] # None
  BY <1>4
<1>6. u[1] \in Module /\ u[2] \in Name
  OBVIOUS
<1>7. k # 0 /\ u[2] \in Names[u[1]] /\ f[k][u[1]][u[2]] = Rule(f[k - 1], u[1], u[2])
  BY <1>2, <1>4, <1>5, <1>6
<1>8. k - 1 \in 0..LastStep /\ k - 1 \in Nat /\ ~(k <= k - 1)
  BY <1>4, <1>7, StepsAre
<1>9. f[k - 1] \in Tables
  BY <1>2, <1>8
<1>10. \A v \in Succ(u[1], u[2]) : f[k - 1][v[1]][v[2]] # None
  BY <1>5, <1>6, <1>7, <1>9, RuleStays
<1>11. QED
  BY <1>4, <1>8, <1>10

(***************************************************************************)
(* What a visit brings, before the final iteration.                        *)
(***************************************************************************)
\* What comes later in the file may take the name.
Held(s, x) == {x, "*"} \cap s.pass.missing # {}

\* Operations on x between s and t.
Brought(s, t, x) ==
  /\ s.pass.missing \subseteq t.pass.missing /\ t.pass.missing \subseteq s.pass.missing \cup {x}
  /\ t.pass.incomplete = s.pass.incomplete
  /\ s.pass.progress => t.pass.progress
  /\ t.names[x] # s.names[x] => t.pass.progress /\ ~Held(s, x)

LEMMA BroughtOn ==
  ASSUME NEW s, NEW t, NEW u, NEW x, Brought(s, t, x), Brought(t, u, x)
  PROVE  Brought(s, u, x)
BY DEF Brought, Held

LEMMA AddSymbolBrings ==
  ASSUME Visiting, ~final_iteration, NEW s \in AnalyzerState, NEW x \in Name, NEW canDefer \in BOOLEAN,
         NEW node \in Symbol, node # None
  PROVE  LET t == AddSymbol(s, x, node, canDefer)
         IN  /\ Brought(s, t, x) /\ t.pass.missing = s.pass.missing
             /\ t.names[x] # None \/ Held(s, x)
             /\ Ready(node) => Ready(t.names[x]) \/ Held(s, x)
<1> DEFINE r == IF node \in Placeholders /\ canDefer THEN ProcessPlaceholder(s) ELSE s
           put == [r EXCEPT !.names[x] = node, !.pass.progress = TRUE]
           t == AddSymbol(s, x, node, canDefer)
<1>1. /\ r \in AnalyzerState /\ r.names = s.names /\ r.pass.missing = s.pass.missing
      /\ r.pass.incomplete = s.pass.incomplete /\ r.pass.progress = s.pass.progress
  <2>1. r \in {s, Defer(s)}
    BY DEF ProcessPlaceholder
  <2> HIDE DEF r
  <2>2. /\ Defer(s) \in AnalyzerState /\ Defer(s).names = s.names /\ Defer(s).pass.missing = s.pass.missing
        /\ Defer(s).pass.incomplete = s.pass.incomplete /\ Defer(s).pass.progress = s.pass.progress
    BY DEF Defer, AnalyzerState, Pass
  <2>3. QED
    BY <2>1, <2>2
<1> HIDE DEF r
<1>2. CASE r.names[x] # None /\ ~IsValidReplacement(r.names[x], node)
  <2>1. t \in {r, Fail(r, "defined")}
    BY <1>2 DEF AddSymbol, r
  <2>2. t.names = r.names /\ t.pass = r.pass
    BY <1>1, <2>1 DEF Fail, AnalyzerState
  <2>3. Ready(node) => Ready(t.names[x])
    BY <1>1, <1>2, <2>2, NotReplacing DEF AnalyzerState
  <2>4. QED
    BY <1>1, <1>2, <2>2, <2>3 DEF Brought
<1>3. CASE ~(r.names[x] # None /\ ~IsValidReplacement(r.names[x], node)) /\ ~Held(r, x)
  <2>1. t = put
    BY <1>3 DEF AddSymbol, r, Held
  <2>2. /\ put.names[x] = node /\ put.pass.progress /\ put.pass.missing = r.pass.missing
        /\ put.pass.incomplete = r.pass.incomplete
    BY <1>1 DEF AnalyzerState, Pass
  <2>3. QED
    BY <1>1, <1>3, <2>1, <2>2 DEF Brought, Held
<1>4. CASE ~(r.names[x] # None /\ ~IsValidReplacement(r.names[x], node)) /\ Held(r, x)
  <2>1. t = r
    BY <1>4 DEF AddSymbol, r, Held
  <2>2. QED
    BY <1>1, <1>4, <2>1 DEF Brought, Held
<1>5. QED
  BY <1>2, <1>3, <1>4

LEMMA MarkIncompleteBrings ==
  ASSUME Visiting, ~final_iteration, NEW s \in AnalyzerState, Sound(s), NEW x \in Name,
         NEW placeholder \in Placeholders
  PROVE  LET t == MarkIncomplete(s, x, placeholder)
         IN  Brought(s, t, x) /\ x \in t.pass.missing /\ (t.names[x] # None \/ Held(s, x))
<1> DEFINE d == Defer(s)
           u == AddSymbol(d, x, placeholder, TRUE)
           t == [u EXCEPT !.pass.missing = u.pass.missing \cup {x}]
<1>1. Follows(s, d, x, {}) /\ d \in AnalyzerState /\ Sound(d)
  BY DeferFollows DEF Follows
<1>2. /\ d.names = s.names /\ d.pass.missing = s.pass.missing
      /\ d.pass.incomplete = s.pass.incomplete /\ d.pass.progress = s.pass.progress
  BY DEF Defer, AnalyzerState, Pass
<1>3. Brought(s, d, x)
  BY <1>2 DEF Brought
<1> HIDE DEF d
<1>4. placeholder \in Symbol /\ placeholder # None
  BY Symbols DEF Placeholders
<1>5. Brought(d, u, x) /\ (u.names[x] # None \/ Held(d, x))
  BY <1>1, <1>4, AddSymbolBrings
<1>6. u \in AnalyzerState
  BY <1>1, <1>4, AddSymbolFollows DEF Follows
<1> HIDE DEF u
<1>7. /\ t.names = u.names /\ t.pass.missing = u.pass.missing \cup {x}
      /\ t.pass.incomplete = u.pass.incomplete /\ t.pass.progress = u.pass.progress
  BY <1>6 DEF AnalyzerState, Pass
<1>8. Brought(u, t, x)
  BY <1>7 DEF Brought
<1>9. Brought(s, t, x)
  BY <1>3, <1>5, <1>8, BroughtOn
<1>10. MarkIncomplete(s, x, placeholder) = t
  BY NullAssumption DEF MarkIncomplete, d, u
<1> HIDE DEF t
<1>11. QED
  BY <1>2, <1>5, <1>7, <1>9, <1>10 DEF Held

LEMMA AddImportedBrings ==
  ASSUME Visiting, ~final_iteration, NEW s \in AnalyzerState, NEW x \in Name, NEW node \in Symbol, node # None
  PROVE  LET t == AddImported(s, x, node)
         IN  /\ Brought(s, t, x) /\ t.pass.missing = s.pass.missing
             /\ t.names[x] # None \/ Held(s, x)
             /\ Ready(node) => Ready(t.names[x]) \/ Held(s, x)
<1>1. CASE Ready(s.names[x]) /\ Ready(node) /\ node # s.names[x]
  BY <1>1 DEF AddImported, Ready, Brought
<1>2. CASE ~(Ready(s.names[x]) /\ Ready(node) /\ node # s.names[x])
  <2>1. AddImported(s, x, node) = AddSymbol(s, x, node, TRUE)
    BY <1>2 DEF AddImported
  <2> DEFINE t == AddSymbol(s, x, node, TRUE)
  <2>2. /\ Brought(s, t, x) /\ t.pass.missing = s.pass.missing
        /\ t.names[x] # None \/ Held(s, x)
        /\ Ready(node) => Ready(t.names[x]) \/ Held(s, x)
    BY AddSymbolBrings
  <2> HIDE DEF t
  <2>3. QED
    BY <2>1, <2>2 DEF t
<1>3. QED
  BY <1>1, <1>2

LEMMA AddUnknownBrings ==
  ASSUME Visiting, ~final_iteration, NEW s \in AnalyzerState, Sound(s), NEW x \in Name
  PROVE  LET t == AddUnknown(s, x)
         IN  /\ Brought(s, t, x) /\ (Ready(t.names[x]) \/ Held(s, x))
             /\ t.names[x] \in {s.names[x]} \cup {Node("unknown", Here)}
<1> DEFINE t == AddUnknown(s, x)
           node == Node("unknown", Here)
<1>1. t.names[x] \in {s.names[x]} \cup {node}
  BY AddUnknownFollows DEF Follows
<1>2. CASE s.names[x].kind = "unknown"
  <2>1. None.kind = "none" /\ Placeholder.kind = "placeholder" /\ TypePlaceholder.kind = "type placeholder"
    BY DEF None, Placeholder, TypePlaceholder, Node
  <2>2. Ready(s.names[x])
    BY <1>2, <2>1 DEF Ready, Placeholders
  <2>3. QED
    BY <1>2, <2>2 DEF AddUnknown, Brought
<1>3. CASE s.names[x].kind # "unknown"
  <2>1. node \in [kind : {"func", "class", "unknown"}, at : Place]
    BY DEF Visiting, Node, Here, Place
  <2>2. node \in Symbol /\ node # None /\ Ready(node)
    BY <2>1, Symbols DEF Symbol, Ready
  <2>3. t = AddSymbol(s, x, node, TRUE)
    BY <1>3 DEF AddUnknown
  <2> HIDE DEF node, t
  <2>4. QED
    BY <1>1, <2>2, <2>3, AddSymbolBrings DEF t, node
<1>4. QED
  BY <1>2, <1>3

\* A star import of a namespace that is not complete leaves all names open.
Opens(st) == st.kind = "star" /\ st.module \in incomplete_namespaces

\* A namespace that is complete does not have x.
Lacks(m, x) == names[m][x] = None /\ m \notin incomplete_namespaces

\* The statement can be analysed: what it takes x from is bound, or known not to exist.
Supplied(st, x) ==
  CASE st.kind = "func" -> TRUE
    [] st.kind = "class" -> \/ st.base = Null \/ Bound(target, st.base)
                            \/ st.base # x /\ Lacks(target, st.base)
    [] st.kind = "from" -> Bound(st.module, x) \/ Lacks(st.module, x)
    [] OTHER -> ~Opens(st) /\ Bound(st.module, x)
Result(st, x) ==
  IF st.kind \in {"func", "class"} THEN Node(st.kind, Here)
  ELSE IF Lacks(st.module, x) THEN Node("unknown", Here) ELSE names[st.module][x]

VisitBrings(s, t, st) ==
  /\ s.pass.missing \subseteq t.pass.missing
  /\ \A x \in Name : x \in t.pass.missing \ s.pass.missing => Binds(st, x)
  /\ "*" \in t.pass.missing <=> "*" \in s.pass.missing \/ Opens(st)
  /\ t.pass.incomplete <=> s.pass.incomplete \/ Opens(st)
  /\ s.pass.progress => t.pass.progress
  /\ \A x \in Name :
       /\ t.names[x] # s.names[x] => t.pass.progress /\ ~Held(s, x)
       /\ t.names[x] # s.names[x] /\ Ready(t.names[x]) => t.names[x] = Result(st, x)
       /\ Binds(st, x) => Ready(t.names[x]) \/ Held(t, x)
       /\ Gives(st, x) => /\ t.names[x] # None \/ x \in s.pass.missing \/ "*" \in t.pass.missing
                          /\ Supplied(st, x) => Ready(t.names[x]) \/ Held(s, x)

\* What the statement does to the one name that it binds.
Binding(s, t, st, x) ==
  /\ Brought(s, t, x)
  /\ t.names[x] # None \/ Held(s, x)
  /\ Ready(t.names[x]) \/ Held(t, x)
  /\ Supplied(st, x) => Ready(t.names[x]) \/ Held(s, x)
  /\ t.names[x] # s.names[x] /\ Ready(t.names[x]) => t.names[x] = Result(st, x)

LEMMA OneNameBrings ==
  ASSUME NEW s \in AnalyzerState, NEW t \in AnalyzerState, NEW st \in Statements, st.kind # "star",
         VisitFollows(s, t, st), Binding(s, t, st, st.name)
  PROVE  VisitBrings(s, t, st)
<1> DEFINE x == st.name
<1>1. x \in Name /\ x # "*" /\ ~Opens(st) /\ \A y \in Name : (Gives(st, y) <=> y = x) /\ (Binds(st, y) <=> y = x)
  BY NullAssumption DEF Statements, Gives, Binds, Opens
<1>2. Brought(s, t, x)
  BY DEF Binding
<1> HIDE DEF x
<1>3. /\ s.pass.missing \subseteq t.pass.missing /\ t.pass.missing \subseteq s.pass.missing \cup {x}
      /\ t.pass.incomplete = s.pass.incomplete
      /\ s.pass.progress => t.pass.progress
  BY <1>2 DEF Brought
<1>4. ASSUME NEW y \in Name
      PROVE  /\ t.names[y] # s.names[y] => t.pass.progress /\ ~Held(s, y)
             /\ t.names[y] # s.names[y] /\ Ready(t.names[y]) => t.names[y] = Result(st, y)
             /\ Binds(st, y) => Ready(t.names[y]) \/ Held(t, y)
             /\ Gives(st, y) => /\ t.names[y] # None \/ y \in s.pass.missing \/ "*" \in t.pass.missing
                                /\ Supplied(st, y) => Ready(t.names[y]) \/ Held(s, y)
  <2>1. CASE y = x
    <3>1. Binding(s, t, st, y)
      BY <2>1 DEF x
    <3>2. Held(s, y) => y \in s.pass.missing \/ "*" \in t.pass.missing
      BY <1>3 DEF Held
    <3>3. QED
      BY <3>1, <3>2 DEF Binding, Brought
  <2>2. CASE y # x
    BY <1>1, <2>2 DEF VisitFollows
  <2>3. QED
    BY <2>1, <2>2
<1>5. QED
  BY <1>1, <1>3, <1>4 DEF VisitBrings

LEMMA FuncDefBrings ==
  ASSUME Visiting, ~final_iteration, NEW s \in AnalyzerState, Sound(s), NEW st \in Statements, st.kind = "func"
  PROVE  VisitBrings(s, AddSymbol(s, st.name, Node("func", Here), TRUE), st)
<1> DEFINE x == st.name
           node == Node("func", Here)
           t == AddSymbol(s, x, node, TRUE)
<1>1. x \in Name
  BY DEF Statements
<1>2. node \in Symbol /\ Ready(node) /\ node # None
  <2>1. node \in [kind : {"func", "class", "unknown"}, at : Place]
    BY DEF Visiting, Node, Here, Place
  <2>2. QED
    BY <2>1, Symbols DEF Symbol, Ready
<1>3. VisitFollows(s, t, st)
  BY FuncDefFollows
<1>4. t \in AnalyzerState
  BY <1>3 DEF VisitFollows
<1>5. node = Result(st, x)
  BY DEF Result
<1> HIDE DEF node, x
<1>6. /\ Brought(s, t, x) /\ t.pass.missing = s.pass.missing
      /\ t.names[x] # None \/ Held(s, x)
      /\ Ready(node) => Ready(t.names[x]) \/ Held(s, x)
  BY <1>1, <1>2, AddSymbolBrings
<1>7. t.names[x] \in {s.names[x]} \cup {node}
  BY <1>1, <1>2, AddSymbolFollows DEF Follows
<1> HIDE DEF t
<1>8. Binding(s, t, st, x)
  BY <1>2, <1>5, <1>6, <1>7 DEF Binding, Held
<1>9. VisitBrings(s, t, st)
  BY <1>3, <1>4, <1>8, OneNameBrings DEF x
<1>10. QED
  BY <1>9 DEF t, node, x

LEMMA ClassDefBrings ==
  ASSUME Visiting, ~final_iteration, NEW s \in AnalyzerState, Sound(s), NEW st \in Statements, st.kind = "class",
         s.names = names[target]
  PROVE  VisitBrings(s, AnalyzeClass(s, st.name, st.base), st)
<1> DEFINE x == st.name
           base == st.base
           node == Node("class", Here)
           t == IF Here \in s.infos THEN s ELSE AddSymbol(s, x, TypePlaceholder, FALSE)
           sym == IF base = Null THEN Node("class", Nowhere) ELSE t.names[base]
           missing == sym = None
           analyzed == IF missing THEN Fail(t, "undefined")
                       ELSE IF sym \in Placeholders THEN Fail(t, "cyclic")
                       ELSE IF sym.kind = "func" THEN Fail(t, "base") ELSE t
           built == [analyzed EXCEPT !.infos = analyzed.infos \cup {Here}]
           waits == sym \in Placeholders \/ (missing /\ target \in incomplete_namespaces)
           u == AnalyzeClass(s, x, base)
<1>1. x \in Name /\ base \in Name \cup {Null} /\ TypePlaceholder \in Symbol /\ TypePlaceholder # None
  BY Symbols DEF Statements, Placeholders
<1>2. /\ Follows(s, t, x, {TypePlaceholder})
      /\ Brought(s, t, x) /\ t.pass.missing = s.pass.missing
  <2>1. CASE Here \in s.infos
    <3>1. t = s
      BY <2>1
    <3>2. Follows(s, s, x, {TypePlaceholder}) /\ Brought(s, s, x)
      BY <1>1, FollowsSelf DEF Brought
    <3>3. QED
      BY <3>1, <3>2
  <2>2. CASE Here \notin s.infos
    <3> DEFINE a == AddSymbol(s, x, TypePlaceholder, FALSE)
    <3>1. Follows(s, a, x, {TypePlaceholder})
      BY <1>1, AddSymbolFollows
    <3>2. Brought(s, a, x) /\ a.pass.missing = s.pass.missing
      BY <1>1, AddSymbolBrings
    <3>3. t = a
      BY <2>2
    <3>4. QED
      BY <3>1, <3>2, <3>3
  <2>3. QED
    BY <2>1, <2>2
<1>3. /\ t \in AnalyzerState /\ Sound(t) /\ t.names[x] \in {s.names[x], TypePlaceholder}
      /\ \A y \in Name : Ready(s.names[y]) => t.names[y] = s.names[y]
  <2>1. /\ t \in AnalyzerState /\ Sound(t) /\ t.names[x] \in {s.names[x], TypePlaceholder}
        /\ Improves(s.names[x], t.names[x]) /\ \A y \in Name : y # x => t.names[y] = s.names[y]
    BY <1>2 DEF Follows
  <2>2. s.names[x] \in Symbol /\ t.names[x] \in Symbol
    BY <1>1, <2>1 DEF AnalyzerState
  <2>3. QED
    BY <1>1, <2>1, <2>2, ReadyStays
<1>4. /\ waits => u = MarkIncomplete(t, x, Placeholder)
      /\ ~waits => u = AddSymbol(built, x, node, TRUE)
  BY DEF AnalyzeClass
<1>5. VisitFollows(s, u, st) /\ u \in AnalyzerState
  <2>1. VisitFollows(s, AnalyzeClass(s, st.name, st.base), st)
    <3>1. ~final_iteration
      OBVIOUS
    <3>2. QED
      BY <3>1, ClassDefFollows
  <2>2. QED
    BY <2>1 DEF VisitFollows
<1>6. Supplied(st, x) => ~waits
  <2>1. base = Null => sym \notin Placeholders /\ ~missing
    <3>1. Node("class", Nowhere).kind = "class" /\ None.kind = "none" /\ Placeholder.kind = "placeholder"
          /\ TypePlaceholder.kind = "type placeholder"
      BY DEF None, Placeholder, TypePlaceholder, Node
    <3>2. Node("class", Nowhere) # None /\ Node("class", Nowhere) \notin Placeholders
      BY <3>1 DEF Placeholders
    <3>3. QED
      BY <3>2
  <2>2. base # Null /\ Bound(target, base) => sym \notin Placeholders /\ ~missing
    BY <1>1, <1>3 DEF Bound, Ready
  <2>3. base # Null /\ base # x /\ Lacks(target, base) => sym \notin Placeholders /\ target \notin incomplete_namespaces
    <3>1. base # x /\ base \in Name => t.names[base] = s.names[base]
      BY <1>2 DEF Follows
    <3>2. QED
      BY <1>1, <3>1, Symbols DEF Lacks
  <2>4. Supplied(st, x) => base = Null \/ Bound(target, base) \/ (base # x /\ Lacks(target, base))
    BY DEF Supplied
  <2>5. QED
    BY <2>1, <2>2, <2>3, <2>4
<1> HIDE DEF u, t
<1>7. CASE waits
  <2> DEFINE w == MarkIncomplete(t, x, Placeholder)
  <2>1. Brought(t, w, x) /\ x \in w.pass.missing /\ (w.names[x] # None \/ Held(t, x))
    BY <1>1, <1>3, MarkIncompleteBrings DEF Placeholders
  <2>2. w.names[x] \in {t.names[x]} \cup {Placeholder}
    BY <1>1, <1>3, MarkIncompleteFollows DEF Follows, Placeholders
  <2>3. u = w
    BY <1>4, <1>7
  <2> HIDE DEF w
  <2>4. Brought(s, u, x)
    BY <1>2, <2>1, <2>3, BroughtOn
  <2>5. u.names[x] # s.names[x] => ~Ready(u.names[x])
    BY <1>3, <2>2, <2>3 DEF Ready, Placeholders
  <2>6. Binding(s, u, st, x)
    BY <1>2, <1>6, <1>7, <2>1, <2>3, <2>4, <2>5 DEF Binding, Held
  <2>7. QED
    BY <1>5, <2>6, OneNameBrings DEF u
<1>8. CASE ~waits
  <2>1. analyzed \in {t, Fail(t, "undefined"), Fail(t, "cyclic"), Fail(t, "base")}
    OBVIOUS
  <2>2. Follows(t, analyzed, x, {}) /\ analyzed.names = t.names /\ analyzed.pass = t.pass
    <3>1. \A kind \in {"cyclic", "undefined", "base"} :
            Follows(t, Fail(t, kind), x, {}) /\ Fail(t, kind).names = t.names /\ Fail(t, kind).pass = t.pass
      BY <1>1, <1>3, FailFollows
    <3>2. Follows(t, t, x, {})
      BY <1>1, <1>3, FollowsSelf
    <3>3. QED
      BY <2>1, <3>1, <3>2
  <2>3. analyzed \in AnalyzerState /\ Sound(analyzed)
    BY <2>2 DEF Follows
  <2> HIDE DEF analyzed
  <2>4. Here \in Place
    BY DEF Visiting, Here, Place
  <2>5. built \in AnalyzerState /\ built.names = t.names /\ built.pass = t.pass
    BY <2>2, <2>3, <2>4 DEF AnalyzerState
  <2>6. Sound(built)
    BY <2>2, <2>3, <2>5 DEF Sound
  <2> HIDE DEF built
  <2>7. node \in Symbol /\ node # None /\ Ready(node)
    <3>1. node \in [kind : {"func", "class", "unknown"}, at : Place]
      BY <2>4 DEF Node
    <3>2. QED
      BY <3>1, Symbols DEF Symbol, Ready
  <2>8. node = Result(st, x)
    BY DEF Result
  <2> HIDE DEF node
  <2> DEFINE w == AddSymbol(built, x, node, TRUE)
  <2>9. /\ Brought(built, w, x) /\ w.pass.missing = built.pass.missing
        /\ w.names[x] # None \/ Held(built, x)
        /\ Ready(w.names[x]) \/ Held(built, x)
    BY <1>1, <2>5, <2>7, AddSymbolBrings
  <2>10. w.names[x] \in {built.names[x]} \cup {node}
    BY <1>1, <2>5, <2>6, <2>7, AddSymbolFollows DEF Follows
  <2>11. u = w
    BY <1>4, <1>8
  <2> HIDE DEF w
  <2>12. Brought(t, built, x)
    BY <2>5 DEF Brought
  <2>13. Brought(s, u, x)
    BY <1>2, <2>9, <2>11, <2>12, BroughtOn
  <2>14. u.names[x] # s.names[x] /\ Ready(u.names[x]) => u.names[x] = node
    BY <1>3, <2>5, <2>10, <2>11 DEF Ready, Placeholders
  <2>15. Binding(s, u, st, x)
    BY <1>2, <2>5, <2>8, <2>9, <2>11, <2>13, <2>14 DEF Binding, Held
  <2>16. QED
    BY <1>5, <2>15, OneNameBrings DEF u
<1>9. QED
  BY <1>7, <1>8

LEMMA ImportFromBrings ==
  ASSUME Visiting, ~final_iteration, NEW s \in AnalyzerState, Sound(s), NEW st \in Statements, st.kind = "from",
         names \in [Module -> [Name -> Symbol]]
  PROVE  LET node == names[st.module][st.name]
         IN  VisitBrings(s, IF node = None \/ (node \in Placeholders /\ final_iteration)
                            THEN ReportMissing(s, st.module, st.name)
                            ELSE IF node \in Placeholders
                            THEN AddImported(MarkIncomplete(s, st.name, TypePlaceholder), st.name, node)
                            ELSE AddImported(s, st.name, node), st)
<1> DEFINE x == st.name
           node == names[st.module][x]
           u == IF node = None \/ (node \in Placeholders /\ final_iteration)
                THEN ReportMissing(s, st.module, x)
                ELSE IF node \in Placeholders
                THEN AddImported(MarkIncomplete(s, x, TypePlaceholder), x, node)
                ELSE AddImported(s, x, node)
<1>1. x \in Name /\ st.module \in Module /\ node \in Symbol
  BY DEF Statements
<1>2. VisitFollows(s, u, st)
  <2>1. final_iteration => incomplete_namespaces = {}
    OBVIOUS
  <2>2. QED
    BY <2>1, ImportFromFollows
<1>3. u \in AnalyzerState
  BY <1>2 DEF VisitFollows
<1>4. /\ Result(st, x) = IF node = None /\ st.module \notin incomplete_namespaces THEN Node("unknown", Here) ELSE node
      /\ Supplied(st, x) <=> Ready(node) \/ (node = None /\ st.module \notin incomplete_namespaces)
  BY DEF Result, Supplied, Bound, Lacks
<1>5. /\ node = None /\ st.module \in incomplete_namespaces => u = MarkIncomplete(s, x, Placeholder)
      /\ node = None /\ st.module \notin incomplete_namespaces => u = AddUnknown(Fail(s, "attribute"), x)
      /\ node \in Placeholders => u = AddImported(MarkIncomplete(s, x, TypePlaceholder), x, node)
      /\ Ready(node) => u = AddImported(s, x, node)
  BY Symbols DEF ReportMissing, Ready
<1> HIDE DEF u, node
<1> SUFFICES Binding(s, u, st, x)
  BY <1>2, <1>3, OneNameBrings DEF u, node
<1>6. CASE node = None /\ st.module \in incomplete_namespaces
  <2> DEFINE w == MarkIncomplete(s, x, Placeholder)
  <2>1. Brought(s, w, x) /\ x \in w.pass.missing /\ (w.names[x] # None \/ Held(s, x))
    BY <1>1, MarkIncompleteBrings DEF Placeholders
  <2>2. w.names[x] \in {s.names[x]} \cup {Placeholder}
    BY <1>1, MarkIncompleteFollows DEF Follows, Placeholders
  <2>3. u = w
    BY <1>5, <1>6
  <2> HIDE DEF w
  <2>4. QED
    BY <1>4, <1>6, <2>1, <2>2, <2>3 DEF Binding, Held, Ready, Placeholders
<1>7. CASE node \in Placeholders
  <2> DEFINE d == MarkIncomplete(s, x, TypePlaceholder)
             w == AddImported(d, x, node)
  <2>1. Brought(s, d, x) /\ x \in d.pass.missing /\ (d.names[x] # None \/ Held(s, x))
    BY <1>1, MarkIncompleteBrings DEF Placeholders
  <2>2. d \in AnalyzerState /\ Sound(d) /\ d.names[x] \in {s.names[x]} \cup {TypePlaceholder}
    BY <1>1, MarkIncompleteFollows DEF Follows, Placeholders
  <2>3. node # None
    BY <1>7, Symbols
  <2> HIDE DEF d
  <2>4. Brought(d, w, x) /\ w.pass.missing = d.pass.missing
    BY <1>1, <2>2, <2>3, AddImportedBrings
  <2>5. w \in AnalyzerState /\ Improves(d.names[x], w.names[x]) /\ w.names[x] \in {d.names[x]} \cup {node}
    BY <1>1, <2>2, <2>3, AddImportedFollows DEF Follows
  <2>6. u = w
    BY <1>5, <1>7 DEF d
  <2> HIDE DEF w
  <2>7. d.names[x] \in Symbol /\ w.names[x] \in Symbol
    BY <1>1, <2>2, <2>5 DEF AnalyzerState
  <2>8. Brought(s, u, x) /\ x \in u.pass.missing /\ (u.names[x] # None \/ Held(s, x))
    BY <2>1, <2>4, <2>5, <2>6, <2>7, NoneGoes, BroughtOn
  <2>9. u.names[x] # s.names[x] => ~Ready(u.names[x])
    BY <1>7, <2>2, <2>5, <2>6 DEF Ready, Placeholders
  <2>10. QED
    BY <1>4, <1>7, <2>3, <2>8, <2>9 DEF Binding, Held, Ready
<1>8. CASE Ready(node)
  <2> DEFINE w == AddImported(s, x, node)
  <2>1. node # None
    BY <1>8 DEF Ready
  <2>2. /\ Brought(s, w, x) /\ w.pass.missing = s.pass.missing
        /\ w.names[x] # None \/ Held(s, x)
        /\ Ready(w.names[x]) \/ Held(s, x)
    BY <1>1, <1>8, <2>1, AddImportedBrings
  <2>3. w.names[x] \in {s.names[x]} \cup {node}
    BY <1>1, <2>1, AddImportedFollows DEF Follows
  <2>4. u = w
    BY <1>5, <1>8
  <2> HIDE DEF w
  <2>5. QED
    BY <1>4, <2>1, <2>2, <2>3, <2>4 DEF Binding, Held
<1>9. CASE node = None /\ st.module \notin incomplete_namespaces
  <2> DEFINE f == Fail(s, "attribute")
             w == AddUnknown(f, x)
  <2>1. f \in AnalyzerState /\ Sound(f) /\ f.names = s.names /\ f.pass = s.pass
    BY <1>1, FailFollows DEF Follows
  <2>2. u = w
    BY <1>5, <1>9
  <2> HIDE DEF f
  <2>3. Brought(f, w, x) /\ (Ready(w.names[x]) \/ Held(f, x)) /\ w.names[x] \in {f.names[x]} \cup {Node("unknown", Here)}
    BY <1>1, <2>1, AddUnknownBrings
  <2> HIDE DEF w
  <2>4. Brought(s, u, x) /\ (Ready(u.names[x]) \/ Held(s, x)) /\ u.names[x] \in {s.names[x]} \cup {Node("unknown", Here)}
    BY <2>1, <2>2, <2>3 DEF Brought, Held
  <2>5. Held(s, x) => Held(u, x)
    BY <2>4 DEF Brought, Held
  <2>6. QED
    BY <1>4, <1>9, <2>4, <2>5 DEF Binding, Ready
<1>10. QED
  BY <1>6, <1>7, <1>8, <1>9 DEF Ready

LEMMA ImportAllBrings ==
  ASSUME Visiting, ~final_iteration, NEW s \in AnalyzerState, Sound(s), NEW st \in Statements, st.kind = "star",
         names \in [Module -> [Name -> Symbol]]
  PROVE  LET t == ImportAll(s, st.module)
         IN  /\ t.pass.missing = s.pass.missing /\ t.pass.incomplete = s.pass.incomplete
             /\ s.pass.progress => t.pass.progress
             /\ \A x \in Name :
                  /\ t.names[x] # s.names[x] => t.pass.progress /\ ~Held(s, x)
                  /\ t.names[x] # s.names[x] => t.names[x] = names[st.module][x]
                  /\ Gives(st, x) => /\ t.names[x] # None \/ Held(s, x)
                                     /\ Bound(st.module, x) => Ready(t.names[x]) \/ Held(s, x)
<1> DEFINE m == st.module
           given == {x \in Name : names[m][x] # None}
           imported(x) == ImportName(s, m, x)
           t == ImportAll(s, m)
<1>1. m \in Module /\ \A x \in Name : Gives(st, x) <=> x \in given
  BY DEF Statements, Gives, Binds
<1>2. ASSUME NEW x \in given
      PROVE  /\ Brought(s, imported(x), x)
             /\ imported(x).names[x] # None \/ Held(s, x)
             /\ Ready(names[m][x]) => Ready(imported(x).names[x]) \/ Held(s, x)
             /\ imported(x).names[x] \in {s.names[x]} \cup {names[m][x]}
  <2> DEFINE w == AddImported(s, x, names[m][x])
  <2>1. names[m][x] \in Symbol /\ names[m][x] # None /\ x \in Name
    BY <1>1
  <2>2. /\ Brought(s, w, x)
        /\ w.names[x] # None \/ Held(s, x)
        /\ Ready(names[m][x]) => Ready(w.names[x]) \/ Held(s, x)
    BY <2>1, AddImportedBrings
  <2>3. w.names[x] \in {s.names[x]} \cup {names[m][x]}
    BY <2>1, AddImportedFollows DEF Follows
  <2>4. imported(x) = w
    BY DEF ImportName
  <2> HIDE DEF w
  <2>5. QED
    BY <2>2, <2>3, <2>4
<1>3. /\ t.names = [x \in Name |-> IF x \in given THEN imported(x).names[x] ELSE s.names[x]]
      /\ t.pass = [s.pass EXCEPT !.deferred = @ \/ \E x \in given : imported(x).pass.deferred,
                                 !.progress = @ \/ \E x \in given : imported(x).pass.progress]
  BY DEF ImportAll
<1>4. /\ t.pass.missing = s.pass.missing /\ t.pass.incomplete = s.pass.incomplete
      /\ t.pass.progress <=> s.pass.progress \/ \E x \in given : imported(x).pass.progress
  BY <1>3 DEF AnalyzerState, Pass
<1> HIDE DEF t, imported
<1>5. ASSUME NEW x \in Name
      PROVE  /\ t.names[x] # s.names[x] => t.pass.progress /\ ~Held(s, x)
             /\ t.names[x] # s.names[x] => t.names[x] = names[m][x]
             /\ Gives(st, x) => /\ t.names[x] # None \/ Held(s, x)
                                /\ Bound(m, x) => Ready(t.names[x]) \/ Held(s, x)
  <2>1. CASE x \in given
    <3>1. t.names[x] = imported(x).names[x]
      BY <1>3, <2>1
    <3>2. imported(x).pass.progress => t.pass.progress
      BY <1>4, <2>1
    <3>3. QED
      BY <1>2, <2>1, <3>1, <3>2 DEF Brought, Bound
  <2>2. CASE x \notin given
    BY <1>1, <1>3, <2>2
  <2>3. QED
    BY <2>1, <2>2
<1>6. QED
  BY <1>4, <1>5 DEF t

LEMMA StarBrings ==
  ASSUME Visiting, ~final_iteration, NEW s \in AnalyzerState, Sound(s), NEW st \in Statements, st.kind = "star",
         names \in [Module -> [Name -> Symbol]]
  PROVE  VisitBrings(s, ImportAll(IF st.module \in incomplete_namespaces THEN MarkIncomplete(s, "*", None) ELSE s,
                                  st.module), st)
<1> DEFINE d == IF st.module \in incomplete_namespaces THEN MarkIncomplete(s, "*", None) ELSE s
           t == ImportAll(d, st.module)
           e == [Defer(s) EXCEPT !.pass.incomplete = TRUE]
<1>1. /\ e.names = s.names /\ e.pass.deferred /\ e.pass.progress = s.pass.progress
      /\ e \in AnalyzerState /\ e.pass.incomplete /\ e.pass.missing = s.pass.missing
  BY DEF Defer, AnalyzerState, Pass
<1>2. MarkIncomplete(s, "*", None) = [e EXCEPT !.pass.missing = e.pass.missing \cup {"*"}]
  BY DEF MarkIncomplete
<1> HIDE DEF e
<1>3. /\ d \in AnalyzerState /\ Sound(d) /\ d.names = s.names /\ d.pass.progress = s.pass.progress
      /\ d.pass.missing = s.pass.missing \cup (IF Opens(st) THEN {"*"} ELSE {})
      /\ d.pass.incomplete <=> s.pass.incomplete \/ Opens(st)
  <2>1. CASE Opens(st)
    <3> DEFINE w == [e EXCEPT !.pass.missing = e.pass.missing \cup {"*"}]
    <3>1. /\ w \in AnalyzerState /\ w.names = s.names /\ w.pass.progress = s.pass.progress
          /\ w.pass.missing = s.pass.missing \cup {"*"} /\ w.pass.incomplete /\ w.pass.deferred
      BY <1>1 DEF AnalyzerState, Pass
    <3>2. d = w
      BY <1>2, <2>1 DEF Opens
    <3> HIDE DEF w, d
    <3>3. QED
      BY <2>1, <3>1, <3>2 DEF Sound
  <2>2. CASE ~Opens(st)
    BY <2>2 DEF Opens
  <2>3. QED
    BY <2>1, <2>2
<1> HIDE DEF d
<1>4. /\ t.pass.missing = d.pass.missing /\ t.pass.incomplete = d.pass.incomplete
      /\ d.pass.progress => t.pass.progress
      /\ \A x \in Name :
           /\ t.names[x] # d.names[x] => t.pass.progress /\ ~Held(d, x)
           /\ t.names[x] # d.names[x] => t.names[x] = names[st.module][x]
           /\ Gives(st, x) => /\ t.names[x] # None \/ Held(d, x)
                              /\ Bound(st.module, x) => Ready(t.names[x]) \/ Held(d, x)
  BY <1>3, ImportAllBrings
<1> HIDE DEF t
<1>5. \A x \in Name : /\ x # "*" /\ ~Binds(st, x)
                      /\ Ready(names[st.module][x]) => Result(st, x) = names[st.module][x]
                      /\ (Supplied(st, x) <=> ~Opens(st) /\ Bound(st.module, x))
  BY NullAssumption DEF Binds, Result, Supplied, Lacks, Ready
<1>6. \A x \in Name : /\ Held(s, x) => Held(d, x)
                      /\ Held(d, x) => x \in s.pass.missing \/ "*" \in t.pass.missing
                      /\ ~Opens(st) /\ Held(d, x) => Held(s, x)
  BY <1>3, <1>4, <1>5 DEF Held
<1>7. VisitBrings(s, t, st)
  BY <1>3, <1>4, <1>5, <1>6 DEF VisitBrings
<1>8. QED
  BY <1>7 DEF t, d

(***************************************************************************)
(* The names of a plain program.                                           *)
(***************************************************************************)
OnlyTheirNames == \A m \in Module : \A x \in Name : names[m][x] # None => x \in Names[m]

\* A namespace that is complete has all its names, bound or not; in the final iteration
\* all that can be bound is bound.
CompleteHaveAll ==
  ~final_iteration => \A m \in Module \ incomplete_namespaces : \A x \in Names[m] : names[m][x] # None
FinalHasAll == final_iteration => \A m \in Module : \A x \in Name : Means(m, x) => Bound(m, x)
BoundAsMeant == \A m \in Module : \A x \in Name : Means(m, x) /\ Bound(m, x) => names[m][x] = Meaning[m][x]
IncompleteAreDue == incomplete_namespaces \subseteq ToSet(worklist) \cup ToSet(all_deferred) \cup {target}

\* What the pass knows of the statements behind it.
Waits(j, x) ==
  \/ Bound(target, x) \/ {x, "*"} \cap pass.missing # {}
  \/ program[target][j].kind = "star" /\ names[program[target][j].module][x] \in Placeholders
PassKnows ==
  target # Null /\ ~final_iteration =>
    /\ "*" \in pass.missing <=> pass.incomplete
    /\ pass.incomplete => ~StarFree(target) /\ \E n \in incomplete_namespaces : StarFree(n)
    /\ \A x \in Name : x \in pass.missing =>
         /\ names[target][x] # None \/ pass.incomplete
         /\ \E j \in DOMAIN program[target] : j < statement /\ Binds(program[target][j], x)
    /\ \A j \in DOMAIN program[target] : \A x \in Name : j < statement /\ Brings(target, j, x) =>
         (names[target][x] # None \/ pass.incomplete) /\ Waits(j, x)

\* The first pass over a module without star imports makes progress, and completes it.
Untouched(m) == \A x \in Name : names[m][x] = None
NotBegun(m) == m \in ToSet(worklist) \/ (m = target /\ statement = 1 /\ pass.missing = {})
FirstPassGains ==
  \A m \in incomplete_namespaces :
    program[m] # <<>> /\ (StarFree(m) => (Untouched(m) /\ NotBegun(m)) \/ (m = target /\ pass.progress))

\* Without progress, what is not bound rests on something that is not bound, or there
\* is a namespace whose first pass is still to come.
Stalled(m, x) ==
  \/ \E v \in Succ(m, x) : ~Bound(v[1], v[2])
  \/ \E n \in incomplete_namespaces : StarFree(n)
NoProgressNoHope ==
  ~final_iteration /\ ~any_progress /\ ~pass.progress =>
    \A m \in Module \ ToSet(worklist) : \A x \in Names[m] :
      (m # target \/ First(m, x, Names) < statement) /\ Means(m, x) => Bound(m, x) \/ Stalled(m, x)

NamesInv ==
  /\ OnlyTheirNames /\ CompleteHaveAll /\ FinalHasAll /\ BoundAsMeant
  /\ IncompleteAreDue /\ PassKnows /\ FirstPassGains /\ NoProgressNoHope

\* A visit before the final iteration.
Knows(t) == IsVisit(t) /\ VisitBrings(State, t, Visited)

LEMMA KnownVisits ==
  ASSUME DeferralInv, Plain, CompleteHaveAll, ~final_iteration, AVisit
  PROVE  \E t : Knows(t)
<1>1. target # Null /\ statement \in DOMAIN program[target]
  BY DEF AVisit, VisitFuncDef, VisitClassDef, VisitImportFrom, VisitImportAll, Visit
<1>2. target \in Module /\ Visiting /\ Visited \in Statements
  BY <1>1 DEF DeferralInv, DeferralTypeOK, Visiting, Visited
<1>3. State \in AnalyzerState /\ Sound(State) /\ State.names = names[target]
  <2>1. State \in AnalyzerState
    BY <1>2 DEF DeferralInv, DeferralTypeOK, State, AnalyzerState
  <2>2. Sound(State)
    BY DEF DeferralInv, PassIsCurrent, State, Sound
  <2>3. QED
    BY <2>1, <2>2 DEF State
<1>4. final_iteration => incomplete_namespaces = {}
  OBVIOUS
<1>5. names \in [Module -> [Name -> Symbol]]
  BY DEF DeferralInv, DeferralTypeOK
<1>6. CASE VisitFuncDef
  <2> DEFINE t == AddSymbol(State, Visited.name, Node("func", Here), TRUE)
  <2>1. Becomes(t) /\ Visited.kind = "func"
    BY <1>6 DEF VisitFuncDef, Visit
  <2>2. VisitFollows(State, t, Visited)
    BY <1>2, <1>3, <2>1, FuncDefFollows
  <2>3. VisitBrings(State, t, Visited)
    BY <1>2, <1>3, <2>1, FuncDefBrings
  <2>4. QED
    BY <2>1, <2>2, <2>3 DEF Knows, IsVisit
<1>7. CASE VisitClassDef
  <2> DEFINE t == AnalyzeClass(State, Visited.name, Visited.base)
  <2>1. Becomes(t) /\ Visited.kind = "class"
    BY <1>7 DEF VisitClassDef, Visit
  <2>2. VisitFollows(State, t, Visited)
    BY <1>2, <1>3, <1>4, <2>1, ClassDefFollows
  <2>3. VisitBrings(State, t, Visited)
    BY <1>2, <1>3, <2>1, ClassDefBrings
  <2>4. QED
    BY <2>1, <2>2, <2>3 DEF Knows, IsVisit
<1>8. CASE VisitImportFrom
  <2> DEFINE x == Visited.name
             node == names[Visited.module][x]
             t == IF node = None \/ (node \in Placeholders /\ final_iteration)
                  THEN ReportMissing(State, Visited.module, x)
                  ELSE IF node \in Placeholders
                  THEN AddImported(MarkIncomplete(State, x, TypePlaceholder), x, node)
                  ELSE AddImported(State, x, node)
  <2>1. Becomes(t) /\ Visited.kind = "from"
    BY <1>8 DEF VisitImportFrom, Visit
  <2>2. VisitFollows(State, t, Visited)
    BY <1>2, <1>3, <1>4, <1>5, <2>1, ImportFromFollows
  <2>3. VisitBrings(State, t, Visited)
    BY <1>2, <1>3, <1>5, <2>1, ImportFromBrings
  <2>4. QED
    BY <2>1, <2>2, <2>3 DEF Knows, IsVisit
<1>9. CASE VisitImportAll
  <2> DEFINE t == ImportAll(IF Visited.module \in incomplete_namespaces
                            THEN MarkIncomplete(State, "*", None) ELSE State, Visited.module)
  <2>1. Becomes(t) /\ Visited.kind = "star"
    BY <1>9 DEF VisitImportAll, Visit
  <2>2. VisitFollows(State, t, Visited)
    BY <1>2, <1>3, <1>4, <1>5, <2>1, StarFollows
  <2>3. VisitBrings(State, t, Visited)
    BY <1>2, <1>3, <1>5, <2>1, StarBrings
  <2>4. QED
    BY <2>1, <2>2, <2>3 DEF Knows, IsVisit
<1>10. QED
  BY <1>6, <1>7, <1>8, <1>9 DEF AVisit

\* What a statement gives now, it gives in the end.
LEMMA GivesBrings ==
  ASSUME Plain, OnlyTheirNames, NEW m \in Module, NEW i \in DOMAIN program[m], NEW x \in Name,
         Gives(program[m][i], x)
  PROVE  Brings(m, i, x) /\ x \in Names[m]
<1>1. Brings(m, i, x)
  BY PlainStatements DEF Gives, Brings, OnlyTheirNames
<1>2. QED
  BY <1>1, NamesAre DEF Plain

LEMMA VisitOnlyTheirs ==
  ASSUME DeferralInv, Plain, OnlyTheirNames, AVisit
  PROVE  OnlyTheirNames'
<1>1. target \in Module /\ statement \in DOMAIN program[target]
  BY Visits
<1>2. PICK t : IsVisit(t)
  BY Visits
<1>3. /\ names'[target] = t.names /\ program' = program
      /\ \A m \in Module : m # target => names'[m] = names[m]
  BY <1>1, <1>2, VisitedNames DEF IsVisit, Becomes
<1>4. Names' = Names
  BY <1>3, MeaningStays
<1>5. ASSUME NEW m \in Module, NEW x \in Name, names'[m][x] # None
      PROVE  x \in Names[m]
  <2>1. CASE names'[m][x] = names[m][x]
    BY <1>5, <2>1 DEF OnlyTheirNames
  <2>2. CASE names'[m][x] # names[m][x]
    <3>1. m = target /\ Gives(program[m][statement], x)
      BY <1>2, <1>3, <2>2 DEF IsVisit, VisitFollows, State, Visited
    <3>2. QED
      BY <1>1, <3>1, GivesBrings
  <2>3. QED
    BY <2>1, <2>2
<1>6. QED
  BY <1>4, <1>5 DEF OnlyTheirNames

LEMMA KnownIs ==
  ASSUME DeferralInv, Plain, AVisit, NEW t, Knows(t)
  PROVE  /\ target \in Module /\ target # Null /\ statement \in DOMAIN program[target] /\ statement \in Nat \ {0}
         /\ Visited = program[target][statement] /\ Visited \in Statements
         /\ names'[target] = t.names /\ State.names = names[target] /\ State.pass = pass
         /\ \A m \in Module : m # target => names'[m] = names[m]
         /\ \A m \in Module : \A x \in Name : /\ names[m][x] \in Symbol /\ names'[m][x] \in Symbol
                                              /\ Improves(names[m][x], names'[m][x])
         /\ pass' = t.pass /\ statement' = statement + 1
         /\ UNCHANGED <<program, worklist, all_deferred, any_progress, final_iteration,
                        incomplete_namespaces, target>>
<1>1. target \in Module /\ statement \in DOMAIN program[target] /\ Visited \in Statements
  BY Visits
<1>2. /\ names' \in Tables /\ names \in Tables /\ names'[target] = t.names
      /\ \A m \in Module : m # target => names'[m] = names[m]
      /\ \A m \in Module : \A x \in Name : Improves(names[m][x], names'[m][x])
  BY <1>1, VisitedNames DEF Knows, DeferralInv, DeferralTypeOK, Tables
<1>3. /\ pass' = t.pass /\ statement' = statement + 1
      /\ UNCHANGED <<program, worklist, all_deferred, any_progress, final_iteration,
                     incomplete_namespaces, target>>
  BY DEF Knows, IsVisit, Becomes, driver
<1>4. State.names = names[target] /\ State.pass = pass /\ Visited = program[target][statement]
  BY DEF State, Visited
<1>5. statement \in Nat \ {0} /\ target # Null
  BY <1>1, PlainStatements, NullAssumption
<1>6. \A m \in Module : \A x \in Name : /\ names[m][x] \in Symbol /\ names'[m][x] \in Symbol
                                          /\ Improves(names[m][x], names'[m][x])
  BY <1>2 DEF Tables
<1>7. names'[target] = t.names /\ \A m \in Module : m # target => names'[m] = names[m]
  BY <1>2
<1>8. QED
  BY ONLY <1>1, <1>3, <1>4, <1>5, <1>6, <1>7

\* The first statement that gives a name gives it its meaning.
LEMMA FirstMeans ==
  ASSUME Plain, NEW m \in Module, NEW x \in Name, Means(m, x)
  PROVE  LET i == First(m, x, Names)
             st == program[m][i]
         IN  /\ st.kind \in {"func", "class"} => Meaning[m][x] = Node(st.kind, <<m, i>>)
             /\ st.kind \in {"from", "star"} =>
                  /\ st.module \in Module
                  /\ x \in Names[st.module] => Means(st.module, x) /\ Meaning[m][x] = Meaning[st.module][x]
                  /\ x \notin Names[st.module] => /\ Meaning[m][x] = Node("unknown", <<m, i>>) /\ st.kind = "from"
                                                  /\ StarFree(st.module)
             /\ st.kind \in {"func", "class", "from", "star"}
<1> DEFINE i == First(m, x, Names)
           st == program[m][i]
<1>1. x \in Names[m] /\ Meaning[m][x] = Rule(Meaning, m, x) /\ Meaning[m][x] # None
  BY MeansAre DEF Means
<1>2. /\ st.kind = "func" => Rule(Meaning, m, x) = Node("func", <<m, i>>)
      /\ st.kind = "class" => Rule(Meaning, m, x) = IF st.base \in Names[m] /\ Meaning[m][st.base] = None
                                                    THEN None ELSE Node("class", <<m, i>>)
      /\ st.kind \in {"from", "star"} =>
           /\ st.module \in Module
           /\ x \in Names[st.module] => Rule(Meaning, m, x) = Meaning[st.module][x]
           /\ x \notin Names[st.module] => /\ Rule(Meaning, m, x) = Node("unknown", <<m, i>>) /\ st.kind = "from"
                                           /\ StarFree(st.module)
      /\ st.kind \in {"func", "class", "from", "star"}
  BY <1>1, RuleIs
<1> HIDE DEF i
<1>3. /\ st.kind \in {"func", "class"} => Meaning[m][x] = Node(st.kind, <<m, i>>)
      /\ st.kind \in {"from", "star"} =>
           /\ st.module \in Module
           /\ x \in Names[st.module] => Means(st.module, x) /\ Meaning[m][x] = Meaning[st.module][x]
           /\ x \notin Names[st.module] => /\ Meaning[m][x] = Node("unknown", <<m, i>>) /\ st.kind = "from"
                                           /\ StarFree(st.module)
  BY <1>1, <1>2 DEF Means
<1>4. QED
  BY <1>2, <1>3 DEF i

LEMMA VisitMeans ==
  ASSUME DeferralInv, Plain, NamesInv, ~final_iteration, AVisit, NEW t, Knows(t)
  PROVE  BoundAsMeant'
<1>1. /\ target \in Module /\ target # Null /\ statement \in DOMAIN program[target] /\ statement \in Nat \ {0}
      /\ Visited = program[target][statement] /\ Visited \in Statements
      /\ names'[target] = t.names /\ State.names = names[target] /\ State.pass = pass
      /\ \A m \in Module : m # target => names'[m] = names[m]
      /\ \A m \in Module : \A x \in Name : /\ names[m][x] \in Symbol /\ names'[m][x] \in Symbol
                                           /\ Improves(names[m][x], names'[m][x])
      /\ program' = program
  BY KnownIs
<1>2. Meaning' = Meaning
  BY <1>1, MeaningStays
<1>3. ASSUME NEW m \in Module, NEW x \in Name, Means(m, x), Ready(names'[m][x]), names'[m][x] # names[m][x]
      PROVE  names'[m][x] = Meaning[m][x]
  <2> DEFINE i == First(target, x, Names)
             st == program[target][i]
  <2>1. m = target
    BY <1>1, <1>3
  <2>2. ~Ready(names[target][x])
    BY <1>1, <1>3, <2>1, ReadyStays
  <2>3. Gives(Visited, x)
    BY <1>1, <1>3, <2>1 DEF Knows, IsVisit, VisitFollows
  <2>4. ~Held(State, x) /\ t.names[x] = Result(Visited, x)
    BY <1>1, <1>3, <2>1 DEF Knows, VisitBrings
  <2>5. Brings(target, statement, x) /\ x \in Names[target]
    BY <1>1, <2>3, GivesBrings DEF NamesInv
  <2>6. i \in DOMAIN program[target] /\ i <= statement /\ Brings(target, i, x)
    BY <1>1, <2>5, FirstIs DEF Plain
  <2>7. i \in Nat
    BY <1>1, <2>6, PlainStatements
  <2> HIDE DEF i
  <2>8. i = statement
    <3> SUFFICES ASSUME i < statement
                 PROVE  FALSE
      BY <1>1, <2>6, <2>7
    <3>1. Waits(i, x)
      BY <1>1, <2>6 DEF NamesInv, PassKnows
    <3>2. {x, "*"} \cap pass.missing = {}
      BY <1>1, <2>4 DEF Held
    <3>3. st.kind = "star" /\ names[st.module][x] \in Placeholders
      BY <2>2, <3>1, <3>2 DEF Waits, Bound
    <3>4. st.module \in Module /\ x \in Names[st.module]
      BY <1>1, <2>6, <3>3, PlainStatements DEF Brings, Binds
    <3>5. Binds(Visited, x) \/ (Visited.kind = "star" /\ x \in Names[Visited.module])
      BY <1>1, <2>5 DEF Brings
    <3>6. Visited.kind = "star" /\ Visited.module = st.module
      <4>1. ~Redefines(target)
        BY <1>1 DEF Plain
      <4>2. QED
        BY <1>1, <2>6, <3>3, <3>4, <3>5, <4>1 DEF Redefines, i
    <3>7. t.names[x] = names[st.module][x]
      BY <2>4, <3>3, <3>6, Symbols DEF Result, Lacks
    <3>8. QED
      BY <1>1, <1>3, <2>1, <3>3, <3>7 DEF Ready
  <2>9. CASE st.kind \in {"func", "class"}
    <3>1. Meaning[target][x] = Node(st.kind, <<target, i>>)
      BY <1>1, <1>3, <2>1, <2>9, FirstMeans DEF i
    <3>2. QED
      BY <1>1, <2>1, <2>4, <2>8, <2>9, <3>1 DEF Result, Here
  <2>10. CASE st.kind \in {"from", "star"}
    <3>1. /\ st.module \in Module
          /\ x \in Names[st.module] => Means(st.module, x) /\ Meaning[target][x] = Meaning[st.module][x]
          /\ x \notin Names[st.module] => Meaning[target][x] = Node("unknown", <<target, i>>)
      BY <1>1, <1>3, <2>1, <2>10, FirstMeans DEF i
    <3>2. t.names[x] = IF Lacks(st.module, x) THEN Node("unknown", Here) ELSE names[st.module][x]
      BY <1>1, <2>4, <2>8, <2>10 DEF Result
    <3>3. CASE x \in Names[st.module]
      <4>1. ~Lacks(st.module, x)
        BY <3>1, <3>3 DEF NamesInv, CompleteHaveAll, Lacks
      <4>2. Bound(st.module, x)
        BY <1>1, <1>3, <2>1, <3>2, <4>1 DEF Bound
      <4>3. names[st.module][x] = Meaning[st.module][x]
        BY <3>1, <3>3, <4>2 DEF NamesInv, BoundAsMeant
      <4>4. QED
        BY <1>1, <2>1, <3>1, <3>2, <3>3, <4>1, <4>3
    <3>4. CASE x \notin Names[st.module]
      <4>1. names[st.module][x] = None
        BY <1>3, <3>1, <3>4 DEF NamesInv, OnlyTheirNames
      <4>2. Lacks(st.module, x)
        BY <1>1, <1>3, <2>1, <3>2, <4>1 DEF Ready
      <4>3. QED
        BY <1>1, <2>1, <2>8, <3>1, <3>2, <3>4, <4>2 DEF Here
    <3>5. QED
      BY <3>3, <3>4
  <2>11. QED
    BY <1>1, <1>3, <2>1, <2>9, <2>10, FirstMeans DEF i
<1>4. \A m \in Module : \A x \in Name : Means(m, x) /\ Ready(names[m][x]) => names[m][x] = Meaning[m][x]
  BY DEF NamesInv, BoundAsMeant, Bound
<1>5. \A m \in Module : \A x \in Name : Means(m, x) /\ Ready(names'[m][x]) => names'[m][x] = Meaning[m][x]
  BY <1>3, <1>4
<1>6. QED
  BY <1>2, <1>5 DEF BoundAsMeant, Means, Bound, Ready

LEMMA VisitPassKnows ==
  ASSUME DeferralInv, Plain, NamesInv, ~final_iteration, AVisit, NEW t, Knows(t)
  PROVE  PassKnows'
<1>1. /\ target \in Module /\ target # Null /\ statement \in DOMAIN program[target] /\ statement \in Nat \ {0}
      /\ Visited = program[target][statement] /\ Visited \in Statements
      /\ names'[target] = t.names /\ State.names = names[target] /\ State.pass = pass
      /\ \A m \in Module : m # target => names'[m] = names[m]
      /\ \A m \in Module : \A x \in Name : /\ names[m][x] \in Symbol /\ names'[m][x] \in Symbol
                                           /\ Improves(names[m][x], names'[m][x])
      /\ pass' = t.pass /\ statement' = statement + 1
      /\ program' = program /\ target' = target /\ incomplete_namespaces' = incomplete_namespaces
  BY KnownIs
<1>2. /\ pass.missing \subseteq t.pass.missing
      /\ \A x \in Name : x \in t.pass.missing \ pass.missing => Binds(Visited, x)
      /\ "*" \in t.pass.missing <=> ("*" \in pass.missing \/ Opens(Visited))
      /\ t.pass.incomplete <=> (pass.incomplete \/ Opens(Visited))
      /\ \A x \in Name :
           /\ Binds(Visited, x) => Ready(t.names[x]) \/ Held(t, x)
           /\ Gives(Visited, x) => /\ t.names[x] # None \/ x \in pass.missing \/ "*" \in t.pass.missing
                                   /\ Supplied(Visited, x) => Ready(t.names[x]) \/ Held(State, x)
  BY <1>1 DEF Knows, VisitBrings
<1>3. /\ "*" \in pass.missing <=> pass.incomplete
      /\ pass.incomplete => ~StarFree(target) /\ \E n \in incomplete_namespaces : StarFree(n)
      /\ \A x \in Name : x \in pass.missing =>
           /\ names[target][x] # None \/ pass.incomplete
           /\ \E j \in DOMAIN program[target] : j < statement /\ Binds(program[target][j], x)
      /\ \A j \in DOMAIN program[target] : \A x \in Name : j < statement /\ Brings(target, j, x) =>
           (names[target][x] # None \/ pass.incomplete) /\ Waits(j, x)
  BY <1>1 DEF NamesInv, PassKnows
<1>4. ASSUME NEW j \in DOMAIN program[target]
      PROVE  j \in Nat /\ (j < statement + 1 <=> j < statement \/ j = statement)
  BY <1>1, PlainStatements
<1>5. t.pass.incomplete => ~StarFree(target) /\ \E n \in incomplete_namespaces : StarFree(n)
  <2>1. Opens(Visited) => ~StarFree(target) /\ StarFree(Visited.module)
    BY <1>1, PlainStatements DEF Opens
  <2>2. QED
    BY <1>2, <1>3, <2>1 DEF Opens
<1>6. ASSUME NEW x \in Name, names[target][x] # None PROVE t.names[x] # None
  BY <1>1, <1>6, NoneGoes
<1>7. ASSUME NEW x \in Name, x \in t.pass.missing
      PROVE  /\ t.names[x] # None \/ t.pass.incomplete
             /\ \E j \in DOMAIN program[target] : j < statement + 1 /\ Binds(program[target][j], x)
  <2>1. CASE x \in pass.missing
    BY <1>2, <1>3, <1>4, <1>6, <2>1
  <2>2. CASE x \notin pass.missing
    <3>1. Binds(Visited, x) /\ Gives(Visited, x)
      BY <1>2, <1>7, <2>2 DEF Gives
    <3>2. t.names[x] # None \/ "*" \in t.pass.missing
      BY <1>2, <2>2, <3>1
    <3>3. QED
      BY <1>1, <1>2, <1>3, <1>4, <3>1, <3>2
  <2>3. QED
    BY <2>1, <2>2
<1>8. ASSUME NEW j \in DOMAIN program[target], NEW x \in Name, j < statement + 1, Brings(target, j, x)
      PROVE  /\ t.names[x] # None \/ t.pass.incomplete
             /\ \/ Ready(t.names[x]) \/ {x, "*"} \cap t.pass.missing # {}
                \/ program[target][j].kind = "star" /\ names'[program[target][j].module][x] \in Placeholders
  <2>1. program[target][j].kind = "star" =>
          /\ program[target][j].module \in Module
          /\ names'[program[target][j].module] = names[program[target][j].module]
    BY <1>1, PlainStatements
  <2>2. CASE j < statement
    <3>1. (names[target][x] # None \/ pass.incomplete) /\ Waits(j, x)
      BY <1>3, <1>8, <2>2
    <3>2. Bound(target, x) => Ready(t.names[x])
      BY <1>1, ReadyStays DEF Bound
    <3>3. QED
      BY <1>2, <1>6, <2>1, <3>1, <3>2 DEF Waits
  <2>3. CASE j = statement /\ Binds(Visited, x)
    <3>1. Gives(Visited, x)
      BY <2>3 DEF Gives
    <3>2. x \in pass.missing => t.names[x] # None \/ t.pass.incomplete
      BY <1>2, <1>3, <1>6
    <3>3. t.names[x] # None \/ t.pass.incomplete
      BY <1>2, <1>3, <3>1, <3>2
    <3>4. QED
      BY <1>2, <2>3, <3>3 DEF Held
  <2>4. CASE j = statement /\ ~Binds(Visited, x)
    <3>1. Visited.kind = "star" /\ Visited.module \in Module /\ x \in Names[Visited.module]
      BY <1>1, <1>8, <2>1, <2>4 DEF Brings
    <3>2. CASE Opens(Visited)
      BY <1>2, <3>2
    <3>3. CASE ~Opens(Visited)
      <4>1. names[Visited.module][x] # None
        BY <3>1, <3>3 DEF Opens, NamesInv, CompleteHaveAll
      <4>2. Gives(Visited, x) /\ (Supplied(Visited, x) <=> Bound(Visited.module, x))
        BY <3>1, <3>3, <4>1 DEF Gives, Supplied
      <4>3. x \in pass.missing => t.names[x] # None \/ t.pass.incomplete
        BY <1>2, <1>3, <1>6
      <4>4. t.names[x] # None \/ t.pass.incomplete
        BY <1>2, <1>3, <4>2, <4>3
      <4>5. Bound(Visited.module, x) \/ names[Visited.module][x] \in Placeholders
        BY <4>1 DEF Bound, Ready
      <4>6. Bound(Visited.module, x) => Ready(t.names[x]) \/ {x, "*"} \cap t.pass.missing # {}
        BY <1>1, <1>2, <4>2 DEF Held
      <4>7. QED
        BY <1>1, <2>1, <2>4, <3>1, <4>4, <4>5, <4>6
    <3>4. QED
      BY <3>2, <3>3
  <2>5. QED
    BY <1>4, <1>8, <2>2, <2>3, <2>4
<1>9. Names' = Names
  BY <1>1, MeaningStays
<1>10. ("*" \in pass.missing <=> pass.incomplete)'
  BY <1>1, <1>2, <1>3
<1>11. (pass.incomplete => ~StarFree(target) /\ \E n \in incomplete_namespaces : StarFree(n))'
  BY <1>1, <1>5 DEF StarFree
<1>12. (\A x \in Name : x \in pass.missing =>
           /\ names[target][x] # None \/ pass.incomplete
           /\ \E j \in DOMAIN program[target] : j < statement /\ Binds(program[target][j], x))'
  BY <1>1, <1>7 DEF Binds
<1>13. (\A j \in DOMAIN program[target] : \A x \in Name : j < statement /\ Brings(target, j, x) =>
           (names[target][x] # None \/ pass.incomplete) /\ Waits(j, x))'
  <2> SUFFICES ASSUME NEW j \in DOMAIN program[target], NEW x \in Name, j < statement + 1, Brings(target, j, x)'
               PROVE  (t.names[x] # None \/ t.pass.incomplete) /\ Waits(j, x)'
    BY <1>1
  <2>1. Brings(target, j, x)
    BY <1>1, <1>9 DEF Brings, Binds
  <2>2. QED
    BY <1>1, <1>8, <2>1 DEF Waits, Bound, Ready
<1>14. QED
  BY <1>10, <1>11, <1>12, <1>13 DEF PassKnows

LEMMA VisitFirstPass ==
  ASSUME DeferralInv, Plain, NamesInv, ~final_iteration, AVisit, NEW t, Knows(t)
  PROVE  FirstPassGains'
<1>1. /\ target \in Module /\ target # Null /\ statement \in DOMAIN program[target] /\ statement \in Nat \ {0}
      /\ Visited = program[target][statement] /\ Visited \in Statements
      /\ names'[target] = t.names /\ State.names = names[target] /\ State.pass = pass
      /\ \A m \in Module : m # target => names'[m] = names[m]
      /\ pass' = t.pass /\ statement' = statement + 1 /\ worklist' = worklist
      /\ program' = program /\ target' = target /\ incomplete_namespaces' = incomplete_namespaces
  BY KnownIs
<1>2. /\ "*" \in t.pass.missing <=> ("*" \in pass.missing \/ Opens(Visited))
      /\ pass.progress => t.pass.progress
      /\ \A x \in Name :
           /\ t.names[x] # names[target][x] => t.pass.progress
           /\ Gives(Visited, x) => t.names[x] # None \/ x \in pass.missing \/ "*" \in t.pass.missing
  BY <1>1 DEF Knows, VisitBrings
<1>3. ASSUME NEW m \in incomplete_namespaces, StarFree(m)
      PROVE  \/ (\A x \in Name : names'[m][x] = None) /\ m \in ToSet(worklist)
             \/ m = target /\ t.pass.progress
  <2>1. m \in Module
    BY DEF DeferralInv, DeferralTypeOK
  <2>2. (Untouched(m) /\ NotBegun(m)) \/ (m = target /\ pass.progress)
    BY <1>3 DEF NamesInv, FirstPassGains
  <2>3. CASE m # target
    BY <1>1, <2>1, <2>2, <2>3 DEF Untouched, NotBegun
  <2>4. CASE m = target /\ t.pass.progress
    BY <2>4
  <2>5. CASE m = target /\ ~t.pass.progress
    <3>1. Untouched(m) /\ NotBegun(m) /\ \A x \in Name : names'[m][x] = None
      BY <1>1, <1>2, <2>2, <2>5 DEF Untouched
    <3>2. Visited.kind # "star"
      BY <1>1, <1>3, <2>5 DEF StarFree
    <3>3. Visited.name \in Name /\ Gives(Visited, Visited.name) /\ ~Opens(Visited)
      BY <1>1, <3>2 DEF Statements, Gives, Binds, Opens
    <3>4. pass.missing # {}
      BY <1>1, <1>2, <2>5, <3>1, <3>3
    <3>5. QED
      BY <3>1, <3>4 DEF NotBegun
  <2>6. QED
    BY <2>3, <2>4, <2>5
<1>4. \A m \in incomplete_namespaces : program[m] # <<>>
  BY DEF NamesInv, FirstPassGains
<1>5. QED
  BY <1>1, <1>3, <1>4 DEF FirstPassGains, Untouched, NotBegun, StarFree

LEMMA VisitNoProgress ==
  ASSUME DeferralInv, Plain, NamesInv, ~final_iteration, AVisit, NEW t, Knows(t)
  PROVE  NoProgressNoHope'
<1>1. /\ target \in Module /\ target # Null /\ statement \in DOMAIN program[target] /\ statement \in Nat \ {0}
      /\ Visited = program[target][statement] /\ Visited \in Statements
      /\ names'[target] = t.names /\ State.names = names[target] /\ State.pass = pass
      /\ \A m \in Module : m # target => names'[m] = names[m]
      /\ pass' = t.pass /\ statement' = statement + 1 /\ worklist' = worklist
      /\ any_progress' = any_progress /\ final_iteration' = final_iteration
      /\ program' = program /\ target' = target /\ incomplete_namespaces' = incomplete_namespaces
  BY KnownIs
<1>2. Names' = Names /\ Meaning' = Meaning
  BY <1>1, MeaningStays
<1> SUFFICES ASSUME ~any_progress, ~t.pass.progress,
                    NEW m \in Module, m \notin ToSet(worklist), NEW x \in Names[m],
                    m # target \/ First(m, x, Names) < statement + 1, Means(m, x)
             PROVE  Bound(m, x)' \/ Stalled(m, x)'
  <2>1. ASSUME NEW m \in Module, NEW x \in Names[m]
        PROVE  First(m, x, Names)' = First(m, x, Names) /\ (Means(m, x)' <=> Means(m, x))
    BY <1>1, MeaningStays
  <2>2. QED
    BY <1>1, <1>2, <2>1 DEF NoProgressNoHope
<1>3. x \in Name
  BY NamesAre DEF Plain
<1>4. ~pass.progress /\ \A y \in Name : t.names[y] = names[target][y]
  BY <1>1 DEF Knows, VisitBrings
<1>5. \A n \in Module : \A y \in Name : names'[n][y] = names[n][y]
  BY <1>1, <1>4
<1>6. Stalled(m, x) => Stalled(m, x)'
  <2>1. Succ(m, x)' = Succ(m, x)
    BY <1>1, MeaningStays
  <2>2. Succ(m, x) \subseteq Module \X Name
    BY SuccType
  <2>3. \A v \in Succ(m, x) : names'[v[1]][v[2]] = names[v[1]][v[2]]
    BY <1>5, <2>2
  <2>4. QED
    BY <1>1, <2>1, <2>3 DEF Stalled, Bound, Ready, StarFree
<1>7. Bound(m, x) => Bound(m, x)'
  BY <1>3, <1>5 DEF Bound, Ready
<1>8. CASE m # target \/ First(m, x, Names) < statement
  BY <1>4, <1>6, <1>7, <1>8 DEF NamesInv, NoProgressNoHope
<1>9. CASE m = target /\ ~(First(m, x, Names) < statement)
  <2> SUFFICES ASSUME ~Bound(m, x), ~Stalled(m, x)
               PROVE  FALSE
    BY <1>6, <1>7
  <2> DEFINE i == First(m, x, Names)
             st == program[m][i]
  <2>1. /\ i \in DOMAIN program[m] /\ st \in Statements /\ Brings(m, i, x)
        /\ \A j \in DOMAIN program[m] : Brings(m, j, x) => i <= j
        /\ st.kind = "class" => Succ(m, x) = IF st.base \in Names[m] THEN {<<m, st.base>>} ELSE {}
        /\ st.kind \in {"from", "star"} =>
             /\ st.module \in Module
             /\ x \in Names[st.module] => Succ(m, x) = {<<st.module, x>>}
             /\ x \notin Names[st.module] => st.kind = "from" /\ StarFree(st.module)
        /\ st.kind \in {"func", "class", "from", "star"}
    BY RuleIs
  <2>2. i \in Nat
    BY <2>1, PlainStatements
  <2>3. i = statement
    BY <1>1, <1>9, <2>2
  <2> HIDE DEF i
  <2>4. st = Visited
    BY <1>1, <1>9, <2>3
  <2>5. /\ st.kind = "class" /\ st.base \in Names[m] => Bound(m, st.base)
        /\ st.kind \in {"from", "star"} /\ x \in Names[st.module] => Bound(st.module, x)
    <3>1. \A v \in Succ(m, x) : Ready(names[v[1]][v[2]])
      BY DEF Stalled, Bound
    <3>2. st.kind = "class" /\ st.base \in Names[m] => <<m, st.base>> \in Succ(m, x)
      BY <2>1
    <3>3. st.kind \in {"from", "star"} /\ x \in Names[st.module] => <<st.module, x>> \in Succ(m, x)
      BY <2>1
    <3>4. QED
      BY <3>1, <3>2, <3>3 DEF Bound
  <2>6. \A n \in incomplete_namespaces : ~StarFree(n)
    BY DEF Stalled
  <2>7. st.kind = "star" => ~Opens(st)
    BY <1>9, <2>1, <2>6, PlainStatements DEF Opens
  <2>8. \A n \in Module : \A y \in Name : StarFree(n) /\ y \notin Names[n] => Lacks(n, y)
    BY <2>6 DEF Lacks, NamesInv, OnlyTheirNames
  <2>9. Supplied(st, x)
    <3>1. CASE st.kind = "func"
      BY <3>1 DEF Supplied
    <3>2. CASE st.kind = "class"
      <4>1. st.base \in Name \cup {Null}
        BY <2>1, <3>2 DEF Statements
      <4>2. st.base = Null \/ st.base \in Names[m] \/ StarFree(m)
        BY <2>1, <3>2, PlainStatements
      <4>3. st.base = Null \/ Bound(m, st.base) \/ (st.base # x /\ Lacks(m, st.base))
        BY <2>5, <2>8, <3>2, <4>1, <4>2
      <4>4. QED
        BY <1>9, <3>2, <4>3 DEF Supplied
    <3>3. CASE st.kind \in {"from", "star"}
      BY <1>3, <2>1, <2>5, <2>7, <2>8, <3>3 DEF Supplied
    <3>4. QED
      BY <2>1, <3>1, <3>2, <3>3
  <2>10. Gives(st, x)
    <3>1. CASE Binds(st, x)
      BY <3>1 DEF Gives
    <3>2. CASE st.kind = "star"
      BY <2>1, <2>5, <3>2 DEF Gives, Bound, Ready
    <3>3. QED
      BY <2>1, <3>1, <3>2 DEF Brings
  <2>11. Ready(t.names[x]) \/ Held(State, x)
    BY <1>3, <2>4, <2>9, <2>10 DEF Knows, VisitBrings
  <2>12. {x, "*"} \cap pass.missing # {}
    BY <1>1, <1>3, <1>4, <1>9, <2>11 DEF Bound, Held
  <2>13. CASE "*" \in pass.missing
    BY <1>1, <2>6, <2>13 DEF NamesInv, PassKnows
  <2>14. CASE x \in pass.missing
    <3>1. PICK j \in DOMAIN program[target] : j < statement /\ Binds(program[target][j], x)
      BY <1>1, <1>3, <2>14 DEF NamesInv, PassKnows
    <3>2. i <= j
      BY <1>9, <2>1, <3>1 DEF Brings
    <3>3. j \in Nat
      BY <1>1, PlainStatements
    <3>4. QED
      BY <1>1, <2>3, <3>1, <3>2, <3>3
  <2>15. QED
    BY <2>12, <2>13, <2>14
<1>10. QED
  BY <1>8, <1>9

LEMMA VisitNamesInv ==
  ASSUME DeferralInv, Plain, NamesInv, AVisit
  PROVE  NamesInv'
<1>1. target \in Module /\ statement \in DOMAIN program[target] /\ \E t : IsVisit(t)
  BY Visits
<1>2. PICK t : IsVisit(t)
  BY <1>1
<1>3. /\ UNCHANGED <<program, worklist, all_deferred, final_iteration, incomplete_namespaces, target>>
      /\ \A m \in Module : \A x \in Name : Improves(names[m][x], names'[m][x])
      /\ names \in Tables /\ names' \in Tables
  <2>1. UNCHANGED <<program, worklist, all_deferred, final_iteration, incomplete_namespaces, target>>
    BY <1>2 DEF IsVisit, Becomes, driver
  <2>2. \A m \in Module : \A x \in Name : Improves(names[m][x], names'[m][x])
    BY <1>1, <1>2, VisitedNames
  <2>3. names \in Tables /\ names' \in Tables
    BY <1>1, <1>2, VisitedNames DEF DeferralInv, DeferralTypeOK, Tables
  <2>4. QED
    BY <2>1, <2>2, <2>3
<1>4. \A m \in Module : \A x \in Name :
        (names[m][x] # None => names'[m][x] # None) /\ (Ready(names[m][x]) => names'[m][x] = names[m][x])
  BY <1>3, NoneGoes, ReadyStays DEF Tables
<1>5. Names' = Names /\ Meaning' = Meaning /\ Names \in [Module -> SUBSET Name]
  BY <1>3, MeaningStays, NamesAre DEF Plain
<1>6. OnlyTheirNames'
  BY VisitOnlyTheirs DEF NamesInv
<1>7. CompleteHaveAll'
  BY <1>3, <1>4, <1>5 DEF NamesInv, CompleteHaveAll
<1>8. FinalHasAll'
  BY <1>3, <1>4, <1>5 DEF NamesInv, FinalHasAll, Means, Bound, Ready
<1>9. IncompleteAreDue'
  BY <1>3 DEF NamesInv, IncompleteAreDue
<1>10. CASE final_iteration
  <2>1. incomplete_namespaces = {}
    BY <1>10 DEF DeferralInv, PassIsCurrent
  <2>2. BoundAsMeant'
    <3>1. ASSUME NEW m \in Module, NEW x \in Name, Means(m, x) PROVE names'[m][x] = Meaning[m][x]
      BY <1>4, <1>10, <3>1 DEF NamesInv, FinalHasAll, BoundAsMeant, Bound
    <3>2. QED
      BY <1>5, <3>1 DEF BoundAsMeant, Means
  <2>3. PassKnows' /\ FirstPassGains' /\ NoProgressNoHope'
    BY <1>3, <1>10, <2>1 DEF PassKnows, FirstPassGains, NoProgressNoHope
  <2>4. QED
    BY <1>6, <1>7, <1>8, <1>9, <2>2, <2>3 DEF NamesInv
<1>11. CASE ~final_iteration
  <2>1. PICK u : Knows(u)
    BY <1>11, KnownVisits DEF NamesInv
  <2>2. BoundAsMeant' /\ PassKnows' /\ FirstPassGains' /\ NoProgressNoHope'
    BY <1>11, <2>1, VisitMeans, VisitPassKnows, VisitFirstPass, VisitNoProgress
  <2>3. QED
    BY <1>6, <1>7, <1>8, <1>9, <2>2 DEF NamesInv
<1>12. QED
  BY <1>10, <1>11

LEMMA InitNamesInv ==
  ASSUME DeferralInit, Plain
  PROVE  NamesInv
<1>1. /\ ToSet(worklist) = {m \in Module : program[m] # <<>>} /\ all_deferred = <<>> /\ any_progress = FALSE
      /\ final_iteration = FALSE /\ incomplete_namespaces = ToSet(worklist)
      /\ target = Null /\ statement = 0 /\ pass = NewPass
      /\ \A m \in Module : \A x \in Name : names[m][x] = None
  BY DEF DeferralInit
<1>2. ASSUME NEW m \in Module, m \notin ToSet(worklist), NEW x \in Names[m]
      PROVE  FALSE
  <2>1. program[m] = <<>> /\ x \in Name
    BY <1>1, <1>2, NamesAre DEF Plain
  <2>2. \E i \in DOMAIN program[m] : Brings(m, i, x)
    BY <2>1, NamesAre DEF Plain
  <2>3. QED
    BY <2>1, <2>2
<1>3. OnlyTheirNames
  BY <1>1 DEF OnlyTheirNames
<1>4. CompleteHaveAll
  BY <1>1, <1>2 DEF CompleteHaveAll
<1>5. FinalHasAll /\ IncompleteAreDue
  BY <1>1 DEF FinalHasAll, IncompleteAreDue
<1>6. BoundAsMeant
  BY <1>1 DEF BoundAsMeant, Bound, Ready
<1>7. PassKnows
  BY <1>1 DEF PassKnows
<1>8. FirstPassGains
  BY <1>1 DEF FirstPassGains, Untouched, NotBegun
<1>9. NoProgressNoHope
  BY <1>2 DEF NoProgressNoHope
<1>10. QED
  BY <1>3, <1>4, <1>5, <1>6, <1>7, <1>8, <1>9 DEF NamesInv

\* The driver's steps leave the names alone.
LEMMA DriverNames ==
  ASSUME Plain, NamesInv, UNCHANGED <<program, names>>
  PROVE  /\ OnlyTheirNames' /\ BoundAsMeant'
         /\ Names' = Names /\ Names \in [Module -> SUBSET Name]
         /\ \A m \in Module : \A x \in Names[m] : /\ First(m, x, Names)' = First(m, x, Names)
                                                  /\ First(m, x, Names) \in DOMAIN program[m]
                                                  /\ First(m, x, Names) \in Nat \ {0}
                                                  /\ Means(m, x)' <=> Means(m, x)
                                                  /\ Bound(m, x)' <=> Bound(m, x)
         /\ \A m \in Module : Untouched(m)' <=> Untouched(m)
<1>1. Names' = Names /\ Meaning' = Meaning /\ Names \in [Module -> SUBSET Name]
  BY MeaningStays, NamesAre DEF Plain
<1>2. OnlyTheirNames' /\ BoundAsMeant'
  BY <1>1 DEF NamesInv, OnlyTheirNames, BoundAsMeant, Means, Bound, Ready
<1>3. ASSUME NEW m \in Module, NEW x \in Names[m]
      PROVE  /\ First(m, x, Names)' = First(m, x, Names)
             /\ First(m, x, Names) \in DOMAIN program[m]
             /\ First(m, x, Names) \in Nat \ {0}
             /\ Means(m, x)' <=> Means(m, x)
             /\ Bound(m, x)' <=> Bound(m, x)
  <2>1. First(m, x, Names)' = First(m, x, Names) /\ (Means(m, x)' <=> Means(m, x))
    BY MeaningStays
  <2>2. First(m, x, Names) \in DOMAIN program[m]
    BY FirstIs DEF Plain
  <2>3. First(m, x, Names) \in Nat \ {0}
    BY <2>2, PlainStatements
  <2>4. Bound(m, x)' <=> Bound(m, x)
    BY DEF Bound, Ready
  <2>5. QED
    BY <2>1, <2>2, <2>3, <2>4
<1>4. \A m \in Module : Untouched(m)' <=> Untouched(m)
  BY DEF Untouched
<1>5. QED
  BY <1>1, <1>2, <1>3, <1>4

LEMMA DriverStalled ==
  ASSUME Plain, UNCHANGED <<program, names>>, NEW m \in Module, NEW x \in Names[m], Stalled(m, x),
         \A n \in incomplete_namespaces : StarFree(n) => n \in incomplete_namespaces'
  PROVE  Stalled(m, x)'
<1>1. Succ(m, x)' = Succ(m, x)
  BY MeaningStays
<1>2. QED
  BY <1>1 DEF Stalled, Bound, Ready, StarFree

LEMMA BeginTargetNames ==
  ASSUME DeferralInv, Plain, NamesInv, BeginTarget
  PROVE  NamesInv'
<1>1. /\ worklist \in Seq(Module) /\ worklist # <<>> /\ target = Null
      /\ target' = worklist[Len(worklist)] /\ worklist' = SubSeq(worklist, 1, Len(worklist) - 1)
      /\ statement' = 1 /\ pass' = NewPass
      /\ UNCHANGED <<program, all_deferred, any_progress, final_iteration, incomplete_namespaces, names>>
  BY DEF DeferralInv, DeferralTypeOK, BeginTarget
<1>2. target' \in Module /\ ToSet(worklist) = ToSet(worklist') \cup {target'}
  BY <1>1, Popped
<1>3. /\ OnlyTheirNames' /\ BoundAsMeant' /\ Names' = Names /\ Names \in [Module -> SUBSET Name]
      /\ \A m \in Module : \A x \in Names[m] : /\ First(m, x, Names)' = First(m, x, Names)
                                               /\ First(m, x, Names) \in Nat \ {0}
                                               /\ Means(m, x)' <=> Means(m, x)
                                               /\ Bound(m, x)' <=> Bound(m, x)
      /\ \A m \in Module : Untouched(m)' <=> Untouched(m)
  BY <1>1, DriverNames
<1>4. Meaning' = Meaning
  BY <1>1, MeaningStays
<1>5. NewPass.missing = {} /\ ~NewPass.progress /\ ~NewPass.incomplete
  BY DEF NewPass
<1>6. CompleteHaveAll'
  BY <1>1, <1>3 DEF NamesInv, CompleteHaveAll
<1>7. FinalHasAll'
  BY <1>1, <1>4 DEF NamesInv, FinalHasAll, Means, Bound, Ready
<1>8. IncompleteAreDue'
  BY <1>1, <1>2, NullAssumption DEF NamesInv, IncompleteAreDue, DeferralInv, DeferralTypeOK
<1>9. PassKnows'
  <2>1. \A j \in DOMAIN program[target'] : ~(j < 1)
    BY <1>2, PlainStatements
  <2>2. QED
    BY <1>1, <1>5, <2>1 DEF PassKnows
<1>10. FirstPassGains'
  <2>1. incomplete_namespaces \subseteq Module
    BY DEF DeferralInv, DeferralTypeOK
  <2>2. \A m \in incomplete_namespaces :
          program[m] # <<>> /\ (StarFree(m) => Untouched(m) /\ (m \in ToSet(worklist') \/ m = target'))
    BY <1>1, <1>2, <2>1, NullAssumption DEF NamesInv, FirstPassGains, NotBegun
  <2>3. QED
    BY <1>1, <1>5, <2>2 DEF FirstPassGains, Untouched, NotBegun, StarFree
<1>11. NoProgressNoHope'
  <2> SUFFICES ASSUME ~final_iteration, ~any_progress, NEW m \in Module, m \notin ToSet(worklist'), NEW x \in Names[m],
                      m # target' \/ First(m, x, Names) < 1, Means(m, x)
               PROVE  Bound(m, x)' \/ Stalled(m, x)'
    BY <1>1, <1>3 DEF NoProgressNoHope
  <2>1. m \notin ToSet(worklist) /\ m # target
    BY <1>1, <1>2, <1>3, NullAssumption
  <2>2. pass = NewPass
    BY <1>1 DEF DeferralInv, PassIsCurrent
  <2>3. Bound(m, x) \/ Stalled(m, x)
    BY <1>5, <2>1, <2>2 DEF NamesInv, NoProgressNoHope
  <2>4. QED
    BY <1>1, <1>3, <2>3, DriverStalled
<1>12. QED
  BY <1>3, <1>6, <1>7, <1>8, <1>9, <1>10, <1>11 DEF NamesInv

LEMMA EndTargetNames ==
  ASSUME DeferralInv, Plain, NamesInv, EndTarget
  PROVE  NamesInv'
<1>1. /\ target # Null /\ statement \notin DOMAIN program[target]
      /\ all_deferred' = IF pass.deferred THEN Append(all_deferred, target) ELSE all_deferred
      /\ any_progress' = (any_progress \/ pass.progress)
      /\ incomplete_namespaces' = IF pass.incomplete THEN incomplete_namespaces ELSE incomplete_namespaces \ {target}
      /\ target' = Null /\ statement' = 0 /\ pass' = NewPass
      /\ UNCHANGED <<program, worklist, final_iteration, names>>
  BY DEF EndTarget
<1>2. /\ target \in Module /\ all_deferred \in Seq(Module) /\ statement >= 1 /\ statement \in Nat
      /\ incomplete_namespaces \subseteq Module
      /\ pass.missing # {} => pass.deferred
      /\ final_iteration => incomplete_namespaces = {}
  BY <1>1 DEF DeferralInv, DeferralTypeOK, PassIsCurrent
<1>3. ToSet(all_deferred') = ToSet(all_deferred) \cup (IF pass.deferred THEN {target} ELSE {})
  BY <1>1, <1>2, Appended
<1>4. /\ OnlyTheirNames' /\ BoundAsMeant' /\ Names' = Names /\ Names \in [Module -> SUBSET Name]
      /\ \A m \in Module : \A x \in Names[m] : /\ First(m, x, Names)' = First(m, x, Names)
                                               /\ First(m, x, Names) \in DOMAIN program[m]
                                               /\ Means(m, x)' <=> Means(m, x)
                                               /\ Bound(m, x)' <=> Bound(m, x)
      /\ \A m \in Module : Untouched(m)' <=> Untouched(m)
  BY <1>1, DriverNames
<1>5. Meaning' = Meaning
  BY <1>1, MeaningStays
<1>6. \A j \in DOMAIN program[target] : j < statement
  <2>1. program[target] \in Seq(Statements)
    BY <1>2 DEF Plain
  <2>2. QED
    BY <1>1, <1>2, <2>1
<1>7. NewPass.missing = {} /\ ~NewPass.progress /\ ~NewPass.incomplete
  BY DEF NewPass
\* The target now has all its names, unless a star import has left it open.
<1>8. ASSUME ~final_iteration, ~pass.incomplete, NEW x \in Names[target]
      PROVE  names[target][x] # None
  <2>1. x \in Name /\ \E j \in DOMAIN program[target] : Brings(target, j, x)
    BY <1>2, NamesAre DEF Plain
  <2>2. QED
    BY <1>1, <1>6, <1>8, <2>1 DEF NamesInv, PassKnows
<1>9. CompleteHaveAll'
  BY <1>1, <1>2, <1>4, <1>8 DEF NamesInv, CompleteHaveAll
<1>10. FinalHasAll'
  BY <1>1, <1>5 DEF NamesInv, FinalHasAll, Means, Bound, Ready
<1>11. IncompleteAreDue'
  <2>1. ~final_iteration /\ pass.incomplete => pass.deferred
    BY <1>1, <1>2 DEF NamesInv, PassKnows
  <2>2. QED
    BY <1>1, <1>2, <1>3, <2>1 DEF NamesInv, IncompleteAreDue
<1>12. PassKnows'
  BY <1>1 DEF PassKnows
\* A module without star imports is complete, and not as it was before its first pass.
<1>13. ASSUME ~final_iteration, StarFree(target)
       PROVE  /\ ~pass.incomplete
              /\ target \in incomplete_namespaces => pass.progress
  <2>1. ~pass.incomplete
    BY <1>1, <1>13 DEF NamesInv, PassKnows
  <2>2. ASSUME target \in incomplete_namespaces, ~pass.progress
        PROVE  FALSE
    <3>1. program[target] # <<>> /\ Untouched(target)
      BY <1>13, <2>2 DEF NamesInv, FirstPassGains
    <3>2. 1 \in DOMAIN program[target]
      BY <1>2, <3>1 DEF Plain
    <3>3. program[target][1] \in Statements /\ program[target][1].kind # "star"
      BY <1>2, <1>13, <3>2, PlainStatements DEF StarFree
    <3> DEFINE x == program[target][1].name
    <3>4. x \in Name /\ Brings(target, 1, x)
      BY <3>3 DEF Statements, Brings, Binds
    <3>5. names[target][x] # None
      BY <1>1, <1>6, <1>13, <2>1, <3>2, <3>4 DEF NamesInv, PassKnows
    <3>6. QED
      BY <3>1, <3>4, <3>5 DEF Untouched
  <2>3. QED
    BY <2>1, <2>2
<1>14. FirstPassGains'
  <2>1. ASSUME NEW m \in incomplete_namespaces', StarFree(m)
        PROVE  Untouched(m) /\ m \in ToSet(worklist)
    <3>1. m \in incomplete_namespaces /\ ~final_iteration
      BY <1>1, <1>2, <2>1
    <3>2. m # target
      BY <1>1, <1>13, <2>1, <3>1
    <3>3. QED
      BY <2>1, <3>1, <3>2 DEF NamesInv, FirstPassGains, NotBegun
  <2>2. \A m \in incomplete_namespaces' : program[m] # <<>>
    BY <1>1 DEF NamesInv, FirstPassGains
  <2>3. QED
    BY <1>1, <2>1, <2>2 DEF FirstPassGains, Untouched, NotBegun, StarFree
<1>15. NoProgressNoHope'
  <2> SUFFICES ASSUME ~final_iteration, ~any_progress, ~pass.progress,
                      NEW m \in Module, m \notin ToSet(worklist), NEW x \in Names[m], Means(m, x)
               PROVE  Bound(m, x)' \/ Stalled(m, x)'
    BY <1>1, <1>4 DEF NoProgressNoHope
  <2>1. m # target \/ First(m, x, Names) < statement
    BY <1>4, <1>6
  <2>2. Bound(m, x) \/ Stalled(m, x)
    BY <2>1 DEF NamesInv, NoProgressNoHope
  <2>3. \A n \in incomplete_namespaces : StarFree(n) => n \in incomplete_namespaces'
    BY <1>1, <1>13
  <2>4. QED
    BY <1>1, <1>4, <2>2, <2>3, DriverStalled
<1>16. QED
  BY <1>4, <1>9, <1>10, <1>11, <1>12, <1>14, <1>15 DEF NamesInv

\* When nothing got further, all that can be bound is bound: of what is not, something
\* would rest on nothing that is not.
LEMMA NothingMoreToBind ==
  ASSUME DeferralInv, Plain, NamesInv, worklist = <<>>, target = Null, ~final_iteration, ~any_progress
  PROVE  \A m \in Module : \A x \in Name : Means(m, x) => Bound(m, x)
<1> DEFINE U == {u \in Module \X Name : Means(u[1], u[2]) /\ ~Bound(u[1], u[2])}
<1> SUFFICES ASSUME U # {}
             PROVE  FALSE
  <2> SUFFICES ASSUME NEW m \in Module, NEW x \in Name, Means(m, x), ~Bound(m, x)
               PROVE  FALSE
    OBVIOUS
  <2>1. <<m, x>> \in U
    OBVIOUS
  <2>2. QED
    BY <2>1
<1>1. U \in SUBSET (Module \X Name) /\ \A u \in U : Means(u[1], u[2])
  OBVIOUS
<1>2. PICK u \in U : Succ(u[1], u[2]) \cap U = {}
  BY <1>1, Grounded
<1> DEFINE m == u[1]
           x == u[2]
<1>3. m \in Module /\ x \in Name /\ Means(m, x) /\ ~Bound(m, x)
  BY <1>1
<1>4. x \in Names[m] /\ \A v \in Succ(m, x) : v \in Module \X Name /\ Means(v[1], v[2])
  BY <1>3, MeansAre
<1>5. \A v \in Succ(m, x) : Bound(v[1], v[2])
  BY <1>2, <1>4
<1> HIDE DEF m, x, U
<1>6. pass = NewPass /\ ~NewPass.progress /\ ToSet(worklist) = {} /\ m # target
  BY <1>3, NullAssumption DEF DeferralInv, PassIsCurrent, NewPass, ToSet
<1>7. Stalled(m, x)
  BY <1>3, <1>4, <1>6 DEF NamesInv, NoProgressNoHope
<1>8. PICK n \in incomplete_namespaces : StarFree(n)
  BY <1>5, <1>7 DEF Stalled
<1>9. n # target
  BY NullAssumption DEF DeferralInv, DeferralTypeOK
<1>10. QED
  BY <1>6, <1>8, <1>9 DEF NamesInv, FirstPassGains, NotBegun

LEMMA NextIterationNames ==
  ASSUME DeferralInv, Plain, NamesInv, NextIteration
  PROVE  NamesInv'
<1>1. /\ target = Null /\ worklist = <<>>
      /\ worklist' = Reverse(all_deferred) /\ all_deferred' = <<>>
      /\ final_iteration' = ~any_progress /\ any_progress' = FALSE
      /\ incomplete_namespaces' = IF any_progress THEN incomplete_namespaces ELSE {}
      /\ all_deferred # <<>>
      /\ UNCHANGED <<program, target, statement, names, pass>>
  BY DEF NextIteration, analyzer
<1>2. /\ ToSet(worklist') = ToSet(all_deferred) /\ ToSet(worklist) = {} /\ ToSet(all_deferred') = {}
      /\ incomplete_namespaces \subseteq Module /\ any_progress \in BOOLEAN
  <2>1. all_deferred \in Seq(Module) /\ incomplete_namespaces \subseteq Module /\ any_progress \in BOOLEAN
    BY DEF DeferralInv, DeferralTypeOK
  <2>2. ToSet(worklist') = ToSet(all_deferred)
    BY <1>1, <2>1, Reversed
  <2>3. ToSet(worklist) = {} /\ ToSet(all_deferred') = {}
    BY <1>1 DEF ToSet
  <2>4. QED
    BY <2>1, <2>2, <2>3
<1>3. ~final_iteration /\ pass = NewPass /\ ~NewPass.progress
  BY <1>1 DEF DeferralInv, PassIsCurrent, NewPass
<1>4. /\ OnlyTheirNames' /\ BoundAsMeant' /\ Names' = Names /\ Names \in [Module -> SUBSET Name]
      /\ \A m \in Module : \A x \in Names[m] : /\ First(m, x, Names)' = First(m, x, Names)
                                               /\ Means(m, x)' <=> Means(m, x)
                                               /\ Bound(m, x)' <=> Bound(m, x)
      /\ \A m \in Module : Untouched(m)' <=> Untouched(m)
  BY <1>1, DriverNames
<1>5. Meaning' = Meaning
  BY <1>1, MeaningStays
<1>6. CompleteHaveAll'
  BY <1>1, <1>2, <1>3, <1>4 DEF NamesInv, CompleteHaveAll
<1>7. FinalHasAll'
  <2>1. ~any_progress => \A m \in Module : \A x \in Name : Means(m, x) => Bound(m, x)
    BY <1>1, <1>3, NothingMoreToBind
  <2>2. QED
    BY <1>1, <1>5, <2>1 DEF FinalHasAll, Means, Bound, Ready
<1>8. IncompleteAreDue'
  BY <1>1, <1>2, NullAssumption DEF NamesInv, IncompleteAreDue
<1>9. PassKnows'
  BY <1>1 DEF PassKnows
<1>10. FirstPassGains'
  <2>1. \A m \in incomplete_namespaces : program[m] # <<>> /\ ~StarFree(m)
    BY <1>1, <1>2, NullAssumption DEF NamesInv, FirstPassGains, NotBegun
  <2>2. QED
    BY <1>1, <2>1 DEF FirstPassGains, StarFree
<1>11. NoProgressNoHope'
  <2> SUFFICES ASSUME any_progress, NEW m \in Module, m \notin ToSet(all_deferred), NEW x \in Names[m]
               PROVE  Bound(m, x)'
    BY <1>1, <1>2, <1>4 DEF NoProgressNoHope
  <2>1. m \notin incomplete_namespaces /\ x \in Name
    BY <1>1, <1>2, <1>4, NullAssumption DEF NamesInv, IncompleteAreDue
  <2>2. names[m][x] # None
    BY <1>3, <2>1 DEF NamesInv, CompleteHaveAll
  <2>3. names[m][x] \notin Placeholders
    <3> SUFFICES ASSUME names[m][x] \in Placeholders
                 PROVE  FALSE
      OBVIOUS
    <3>1. PICK i \in DOMAIN program[m] : Due(m, i)
      BY <2>1 DEF DeferralInv, PlaceholdersAreAwaited, Awaited
    <3>2. QED
      BY <1>1, <1>2, <3>1, NullAssumption DEF Due
  <2>4. Bound(m, x)
    BY <2>2, <2>3 DEF Bound, Ready
  <2>5. QED
    BY <1>4, <2>4
<1>12. QED
  BY <1>4, <1>6, <1>7, <1>8, <1>9, <1>10, <1>11 DEF NamesInv

LEMMA RestNames ==
  ASSUME DeferralInv, Plain, NamesInv, Finish \/ UNCHANGED deferralVars
  PROVE  NamesInv'
<1>1. UNCHANGED <<program, worklist, all_deferred, any_progress, final_iteration, incomplete_namespaces,
                  target, statement, names, pass>>
  BY DEF Finish, deferralVars, driver, analyzer
<1>2. /\ OnlyTheirNames' /\ BoundAsMeant' /\ Names' = Names /\ Names \in [Module -> SUBSET Name]
      /\ \A m \in Module : \A x \in Names[m] : /\ First(m, x, Names)' = First(m, x, Names)
                                               /\ Means(m, x)' <=> Means(m, x)
                                               /\ Bound(m, x)' <=> Bound(m, x)
  BY <1>1, DriverNames
<1>3. Meaning' = Meaning
  BY <1>1, MeaningStays
<1>4. CompleteHaveAll' /\ FinalHasAll' /\ IncompleteAreDue'
  BY <1>1, <1>2, <1>3 DEF NamesInv, CompleteHaveAll, FinalHasAll, IncompleteAreDue, Means, Bound, Ready
<1>5. PassKnows'
  BY <1>1, <1>2 DEF NamesInv, PassKnows, Waits, Bound, Ready, Brings, Binds, StarFree
<1>6. FirstPassGains'
  BY <1>1 DEF NamesInv, FirstPassGains, Untouched, NotBegun, StarFree
<1>7. NoProgressNoHope'
  <2> SUFFICES ASSUME ~final_iteration, ~any_progress, ~pass.progress,
                      NEW m \in Module, m \notin ToSet(worklist), NEW x \in Names[m],
                      m # target \/ First(m, x, Names) < statement, Means(m, x)
               PROVE  Bound(m, x)' \/ Stalled(m, x)'
    BY <1>1, <1>2 DEF NoProgressNoHope
  <2>1. Bound(m, x) \/ Stalled(m, x)
    BY DEF NamesInv, NoProgressNoHope
  <2>2. QED
    BY <1>1, <1>2, <2>1, DriverStalled
<1>8. QED
  BY <1>2, <1>4, <1>5, <1>6, <1>7 DEF NamesInv

LEMMA AlwaysNamesInv == DeferralSpec => [](Plain => NamesInv)
<1>1. DeferralInit => (Plain => NamesInv)
  BY InitNamesInv
<1>2. DeferralInv /\ (Plain => NamesInv) /\ [DeferralNext]_deferralVars => (Plain => NamesInv)'
  <2> SUFFICES ASSUME DeferralInv, Plain => NamesInv, [DeferralNext]_deferralVars, Plain'
               PROVE  NamesInv'
    OBVIOUS
  <2>1. program' = program
    <3>1. AVisit => program' = program
      BY DEF AVisit, VisitFuncDef, VisitClassDef, VisitImportFrom, VisitImportAll, Becomes
    <3>2. QED
      BY <3>1, OnlyVisitsName
  <2>2. Plain /\ NamesInv
    BY <2>1, MeaningStays
  <2>3. CASE AVisit
    BY <2>2, <2>3, VisitNamesInv
  <2>4. CASE BeginTarget
    BY <2>2, <2>4, BeginTargetNames
  <2>5. CASE EndTarget
    BY <2>2, <2>5, EndTargetNames
  <2>6. CASE NextIteration
    BY <2>2, <2>6, NextIterationNames
  <2>7. CASE Finish \/ UNCHANGED deferralVars
    BY <2>2, <2>7, RestNames
  <2>8. QED
    BY <2>3, <2>4, <2>5, <2>6, <2>7 DEF DeferralNext, AVisit
<1>3. QED
  BY <1>1, <1>2, AlwaysDeferralInv, PTL DEF DeferralSpec

\* Every name that means something is bound to what it means when the cycle has been
\* analysed, in whatever order, if what does not exist is looked for where no star import
\* could have brought it: an import that finds no such name leaves one of unknown type.
THEOREM AlwaysNamesAsMeant == DeferralSpec => [](UndefinedWithoutStars => NamesAsMeant)
<1>1. DeferralInv /\ DeferralEnds /\ (Plain => NamesInv) => (UndefinedWithoutStars => NamesAsMeant)
  <2> SUFFICES ASSUME DeferralInv, DeferralEnds, Plain => NamesInv, UndefinedWithoutStars, Settled,
                      NEW m \in Module, NEW x \in Name, Means(m, x)
               PROVE  names[m][x] = Meaning[m][x]
    BY DEF NamesAsMeant, Means
  <2>1. Plain /\ NamesInv /\ outcome = "done"
    BY DEF Settled, Plain, DeferralInv, DeferralTypeOK
  <2>2. x \in Names[m]
    BY <2>1, MeansAre
  <2>3. Bound(m, x)
    <3>1. CASE final_iteration
      BY <2>1, <3>1 DEF NamesInv, FinalHasAll
    <3>2. CASE ~final_iteration
      <4>1. worklist = <<>> /\ all_deferred = <<>> /\ target = Null
        BY <2>1 DEF DeferralInv, PassIsCurrent
      <4>2. m \notin incomplete_namespaces
        BY <2>1, <4>1, NullAssumption DEF NamesInv, IncompleteAreDue, ToSet
      <4>3. names[m][x] # None
        BY <2>1, <2>2, <3>2, <4>2 DEF NamesInv, CompleteHaveAll
      <4>4. names[m][x] \notin Placeholders
        BY <2>1 DEF DeferralEnds, NothingLeftOpen
      <4>5. QED
        BY <4>3, <4>4 DEF Bound, Ready
    <3>3. QED
      BY <3>1, <3>2
  <2>4. QED
    BY <2>1, <2>3 DEF NamesInv, BoundAsMeant
<1>2. QED
  BY <1>1, AlwaysDeferralInv, AlwaysDeferralEnds, AlwaysNamesInv, PTL

(***************************************************************************)
(* What is reported.                                                       *)
(***************************************************************************)
LEMMA AddSymbolReports ==
  ASSUME NEW s \in AnalyzerState, NEW x \in Name, NEW canDefer \in BOOLEAN,
         NEW node \in Symbol, node # None, final_iteration => ~(node \in Placeholders /\ canDefer)
  PROVE  AddSymbol(s, x, node, canDefer).errors =
           s.errors \cup (IF Ready(s.names[x]) /\ Ready(node) /\ node # s.names[x]
                          THEN {<<"defined", target, statement>>} ELSE {})
<1> DEFINE r == IF node \in Placeholders /\ canDefer THEN ProcessPlaceholder(s) ELSE s
           put == [r EXCEPT !.names[x] = node, !.pass.progress = TRUE]
           t == AddSymbol(s, x, node, canDefer)
<1>1. r \in AnalyzerState /\ r.names = s.names /\ r.errors = s.errors
  <2>1. r \in {s, Defer(s)}
    BY DEF ProcessPlaceholder
  <2> HIDE DEF r
  <2>2. Defer(s) \in AnalyzerState /\ Defer(s).names = s.names /\ Defer(s).errors = s.errors
    BY DEF Defer, AnalyzerState, Pass
  <2>3. QED
    BY <2>1, <2>2
<1> HIDE DEF r
<1>2. s.names[x] \in Symbol
  BY DEF AnalyzerState
<1>3. Ready(s.names[x]) /\ Ready(node) => s.names[x] # None /\ ~IsValidReplacement(s.names[x], node)
  BY DEF Ready, IsValidReplacement
<1>4. CASE r.names[x] # None /\ ~IsValidReplacement(r.names[x], node)
  <2>1. t = IF node \in Placeholders \cup {r.names[x]} THEN r ELSE Fail(r, "defined")
    BY <1>4 DEF AddSymbol, r
  <2>2. Fail(r, "defined").errors = r.errors \cup {<<"defined", target, statement>>}
    BY <1>1 DEF Fail, AnalyzerState
  <2>3. Ready(node) => Ready(s.names[x])
    BY <1>1, <1>2, <1>4, NotReplacing
  <2>4. node \in Placeholders \/ Ready(node)
    BY DEF Ready
  <2>5. node \in Placeholders => ~Ready(node)
    BY DEF Ready
  <2>6. QED
    BY <1>1, <2>1, <2>2, <2>3, <2>4, <2>5
<1>5. CASE ~(r.names[x] # None /\ ~IsValidReplacement(r.names[x], node))
  <2>1. t \in {put, r}
    BY <1>5 DEF AddSymbol, r
  <2>2. put.errors = r.errors
    BY <1>1 DEF AnalyzerState
  <2>3. QED
    BY <1>1, <1>3, <1>5, <2>1, <2>2
<1>6. QED
  BY <1>4, <1>5

LEMMA AddImportedReports ==
  ASSUME NEW s \in AnalyzerState, NEW x \in Name, NEW node \in Symbol, node # None,
         final_iteration => Ready(node)
  PROVE  AddImported(s, x, node).errors = s.errors
<1>1. CASE Ready(s.names[x]) /\ Ready(node) /\ node # s.names[x]
  BY <1>1 DEF AddImported
<1>2. CASE ~(Ready(s.names[x]) /\ Ready(node) /\ node # s.names[x])
  <2>1. AddImported(s, x, node) = AddSymbol(s, x, node, TRUE)
    BY <1>2 DEF AddImported
  <2>2. final_iteration => ~(node \in Placeholders /\ TRUE)
    BY DEF Ready
  <2> DEFINE e == IF Ready(s.names[x]) /\ Ready(node) /\ node # s.names[x]
                  THEN {<<"defined", target, statement>>} ELSE {}
  <2>3. AddSymbol(s, x, node, TRUE).errors = s.errors \cup e
    BY <2>2, AddSymbolReports
  <2>4. e = {}
    BY <1>2
  <2>5. QED
    BY <2>1, <2>3, <2>4
<1>3. QED
  BY <1>1, <1>2

LEMMA MarkIncompleteReports ==
  ASSUME Visiting, ~final_iteration, NEW s \in AnalyzerState, Sound(s), NEW x \in Name, NEW placeholder \in Placeholders
  PROVE  MarkIncomplete(s, x, placeholder).errors = s.errors
<1> DEFINE d == Defer(s)
           u == AddSymbol(d, x, placeholder, TRUE)
           t == [u EXCEPT !.pass.missing = u.pass.missing \cup {x}]
<1>1. d \in AnalyzerState /\ Sound(d) /\ d.errors = s.errors
  <2>1. d \in AnalyzerState /\ Sound(d)
    BY DeferFollows DEF Follows
  <2>2. QED
    BY <2>1 DEF Defer, AnalyzerState, Pass
<1> HIDE DEF d
<1>2. placeholder \in Symbol /\ placeholder # None /\ ~Ready(placeholder)
  BY Symbols DEF Placeholders, Ready
<1> DEFINE e == IF Ready(d.names[x]) /\ Ready(placeholder) /\ placeholder # d.names[x]
                THEN {<<"defined", target, statement>>} ELSE {}
<1>3. u.errors = d.errors \cup e
  BY <1>1, <1>2, AddSymbolReports
<1>4. u \in AnalyzerState
  BY <1>1, <1>2, AddSymbolFollows DEF Follows
<1>5. e = {}
  BY <1>2
<1> HIDE DEF u, e
<1>6. t.errors = u.errors
  BY <1>4 DEF AnalyzerState, Pass
<1>7. MarkIncomplete(s, x, placeholder) = t
  BY NullAssumption DEF MarkIncomplete, d, u
<1> HIDE DEF t
<1>8. QED
  BY <1>1, <1>3, <1>5, <1>6, <1>7

LEMMA AddUnknownReports ==
  ASSUME Visiting, NEW s \in AnalyzerState, Sound(s), NEW x \in Name
  PROVE  LET t == AddUnknown(s, x)
         IN  /\ t.errors = s.errors \cup (IF Ready(s.names[x]) /\ s.names[x].kind # "unknown"
                                          THEN {<<"defined", target, statement>>} ELSE {})
             /\ s.pass.deferred => t.pass.deferred
<1> DEFINE t == AddUnknown(s, x)
           node == Node("unknown", Here)
<1>1. s.pass.deferred => t.pass.deferred
  BY AddUnknownFollows DEF Follows
<1>2. CASE s.names[x].kind = "unknown"
  BY <1>1, <1>2 DEF AddUnknown
<1>3. CASE s.names[x].kind # "unknown"
  <2>1. node \in [kind : {"func", "class", "unknown"}, at : Place] /\ node.kind = "unknown"
    BY DEF Visiting, Node, Here, Place
  <2>2. node \in Symbol /\ node # None /\ Ready(node) /\ node # s.names[x]
    BY <1>3, <2>1, Symbols DEF Symbol, Ready
  <2>3. t = AddSymbol(s, x, node, TRUE)
    BY <1>3 DEF AddUnknown
  <2>4. final_iteration => ~(node \in Placeholders /\ TRUE)
    BY <2>2 DEF Ready
  <2> HIDE DEF node
  <2>5. AddSymbol(s, x, node, TRUE).errors =
           s.errors \cup (IF Ready(s.names[x]) /\ Ready(node) /\ node # s.names[x]
                          THEN {<<"defined", target, statement>>} ELSE {})
    BY <2>2, <2>4, AddSymbolReports
  <2> HIDE DEF t
  <2>6. QED
    BY <1>1, <1>3, <2>2, <2>3, <2>5 DEF t
<1>4. QED
  BY <1>2, <1>3

\* Every name that exists means something.
Clear == Plain /\ ~Cyclic

\* What a name means is the first statement in some module that gives it there: its
\* definition, or the import that looks for what does not exist.
LEMMA MeaningAt ==
  ASSUME Plain, NEW m \in Module, NEW x \in Name, Means(m, x)
  PROVE  \E n \in Module : \E kind \in {"func", "class", "unknown"} : Meaning[m][x] = Node(kind, <<n, First(n, x, Names)>>)
<1> DEFINE At(l, y) == \E n \in Module : \E kind \in {"func", "class", "unknown"} :
                         Meaning[l][y] = Node(kind, <<n, First(n, y, Names)>>)
           U == {u \in Module \X Name : Means(u[1], u[2]) /\ ~At(u[1], u[2])}
<1>1. ASSUME U # {}
      PROVE  FALSE
  <2>1. U \in SUBSET (Module \X Name) /\ \A u \in U : Means(u[1], u[2])
    OBVIOUS
  <2>2. PICK u \in U : Succ(u[1], u[2]) \cap U = {}
    BY <1>1, <2>1, Grounded
  <2> DEFINE l == u[1]
             y == u[2]
             i == First(l, y, Names)
             st == program[l][i]
  <2>3. l \in Module /\ y \in Name /\ Means(l, y) /\ ~At(l, y)
    BY <2>1
  <2>4. y \in Names[l]
    BY <2>3, MeansAre
  <2> HIDE DEF l, y
  <2>5. /\ st.kind \in {"func", "class"} => Meaning[l][y] = Node(st.kind, <<l, i>>)
        /\ st.kind \in {"from", "star"} =>
             /\ st.module \in Module
             /\ y \in Names[st.module] => Means(st.module, y) /\ Meaning[l][y] = Meaning[st.module][y]
             /\ y \notin Names[st.module] => Meaning[l][y] = Node("unknown", <<l, i>>)
        /\ st.kind \in {"func", "class", "from", "star"}
    BY <2>3, FirstMeans
  <2>6. st.kind \in {"from", "star"} /\ y \in Names[st.module] => Succ(l, y) = {<<st.module, y>>}
    BY DEF Succ
  <2>7. CASE st.kind \in {"func", "class"}
    BY <2>3, <2>5, <2>7
  <2>8. CASE st.kind \in {"from", "star"} /\ y \in Names[st.module]
    <3>1. <<st.module, y>> \notin U
      BY <2>2, <2>6, <2>8 DEF l, y
    <3>2. At(st.module, y)
      BY <2>3, <2>5, <2>8, <3>1
    <3>3. QED
      BY <2>3, <2>5, <2>8, <3>2
  <2>9. CASE st.kind \in {"from", "star"} /\ y \notin Names[st.module]
    BY <2>3, <2>5, <2>9
  <2>10. QED
    BY <2>5, <2>7, <2>8, <2>9
<1>2. <<m, x>> \notin U
  BY <1>1
<1>3. QED
  BY <1>2

\* Whether a definition is the first one can be told from what its name means.
LEMMA FirstOrNot ==
  ASSUME Clear, NEW m \in Module, NEW i \in DOMAIN program[m], program[m][i].kind \in {"func", "class"}
  PROVE  LET x == program[m][i].name
         IN  Node(program[m][i].kind, <<m, i>>) = Meaning[m][x] <=> First(m, x, Names) = i
<1> DEFINE st == program[m][i]
           x == st.name
<1>1. x \in Name /\ Brings(m, i, x)
  BY PlainStatements DEF Clear, Statements, Brings, Binds
<1>2. x \in Names[m]
  BY <1>1, NamesAre DEF Clear, Plain
<1>3. Means(m, x)
  BY <1>2 DEF Clear, Cyclic, Means
<1>4. PICK n \in Module, kind \in {"func", "class", "unknown"} : Meaning[m][x] = Node(kind, <<n, First(n, x, Names)>>)
  BY <1>1, <1>3, MeaningAt DEF Clear
<1>5. First(m, x, Names) = i => Meaning[m][x] = Node(st.kind, <<m, i>>)
  BY <1>1, <1>3, FirstMeans DEF Clear
<1>6. Node(st.kind, <<m, i>>) = Meaning[m][x] => First(m, x, Names) = i
  BY <1>4 DEF Node
<1>7. QED
  BY <1>5, <1>6

Reporting(kind, m, i) == {<<kind, m, i>>}

\* An import whose name does not exist takes a name that something else gives first.
Conflicts(m, i) == Unavailable(m, i) /\ Meaning[m][program[m][i].name].kind # "unknown"

\* What has to be reported of a statement of such a program.
LEMMA WrongIs ==
  ASSUME Clear, NEW m \in Module, NEW i \in DOMAIN program[m]
  PROVE  LET st == program[m][i]
             again == (st.kind \in {"func", "class"} /\ First(m, st.name, Names) # i) \/ Conflicts(m, i)
             based == st.kind = "class" /\ st.base # Null
         IN  /\ Conflicts(m, i) => st.name \in Name /\ First(m, st.name, Names) # i
             /\ Wrong(m, i) = (IF again THEN Reporting("defined", m, i) ELSE {})
                   \cup (IF based /\ st.base \notin Names[m] THEN Reporting("undefined", m, i)
                         ELSE IF based /\ Meaning[m][st.base].kind = "func" THEN Reporting("base", m, i) ELSE {})
                   \cup (IF Unavailable(m, i) THEN Reporting("attribute", m, i) ELSE {})
<1> DEFINE st == program[m][i]
           again == st.kind # "star" /\ First(m, st.name, Names) # i
           replaces == again /\ (st.kind # "from" \/ (Unavailable(m, i) /\ Meaning[m][st.name].kind # "unknown"))
           based == st.kind = "class" /\ st.base # Null
           base == IF st.kind # "class" \/ st.base = Null THEN "none"
                   ELSE IF st.base \notin Names[m] THEN "undefined"
                   ELSE IF Meaning[m][st.base].kind = "func" THEN "base" ELSE "none"
<1>1. st.kind \in {"func", "class", "from", "star"} /\ st \in Statements
  BY PlainStatements DEF Clear, Statements
<1>2. Wrong(m, i) = {<<k, m, i>> : k \in {IF replaces THEN "defined" ELSE "none", base,
                                         IF Unavailable(m, i) THEN "attribute" ELSE "none"} \ {"none"}}
  BY DEF Wrong
<1>3. ASSUME Unavailable(m, i), First(m, st.name, Names) = i
      PROVE  Meaning[m][st.name] = Node("unknown", <<m, i>>)
  <2>1. st.kind = "from" /\ st.name \in Name /\ st.name \notin Names[st.module] /\ Brings(m, i, st.name)
    BY <1>1, <1>3 DEF Unavailable, Statements, Brings, Binds
  <2>2. st.name \in Names[m]
    BY <2>1, NamesAre DEF Clear, Plain
  <2>3. Means(m, st.name)
    BY <2>2 DEF Clear, Cyclic, Means
  <2>4. QED
    BY <1>3, <2>1, <2>3, FirstMeans DEF Clear
<1>4. Conflicts(m, i) => st.name \in Name /\ First(m, st.name, Names) # i
  BY <1>1, <1>3 DEF Conflicts, Unavailable, Statements, Node
<1>5. replaces <=> (st.kind \in {"func", "class"} /\ First(m, st.name, Names) # i) \/ Conflicts(m, i)
  BY <1>1, <1>4 DEF Conflicts, Unavailable
<1>6. base \in {"undefined", "base", "none"}
  OBVIOUS
<1>7. /\ base = "undefined" <=> based /\ st.base \notin Names[m]
      /\ base = "base" <=> based /\ st.base \in Names[m] /\ Meaning[m][st.base].kind = "func"
  OBVIOUS
<1> HIDE DEF replaces, base
<1>8. {IF replaces THEN "defined" ELSE "none", base, IF Unavailable(m, i) THEN "attribute" ELSE "none"} \ {"none"}
        = (IF replaces THEN {"defined"} ELSE {}) \cup (IF base = "none" THEN {} ELSE {base})
          \cup (IF Unavailable(m, i) THEN {"attribute"} ELSE {})
  BY <1>6
<1>9. Wrong(m, i) = (IF replaces THEN Reporting("defined", m, i) ELSE {})
                    \cup (IF base = "none" THEN {} ELSE Reporting(base, m, i))
                    \cup (IF Unavailable(m, i) THEN Reporting("attribute", m, i) ELSE {})
  BY <1>2, <1>8 DEF Reporting
<1>10. (IF base = "none" THEN {} ELSE Reporting(base, m, i))
         = (IF based /\ st.base \notin Names[m] THEN Reporting("undefined", m, i)
            ELSE IF based /\ Meaning[m][st.base].kind = "func" THEN Reporting("base", m, i) ELSE {})
  BY <1>6, <1>7
<1>11. QED
  BY <1>4, <1>5, <1>9, <1>10

\* What is known when a statement is visited.
ClearInv == DeferralInv /\ Clear /\ NamesInv

\* All that a visit reports is wrong with its statement, and is reported unless the
\* module is deferred.
VisitReports ==
  /\ errors \subseteq errors' /\ errors' \subseteq errors \cup Wrong(target, statement)
  /\ Wrong(target, statement) \subseteq errors' \/ pass'.deferred

LEMMA VisitedIs ==
  ASSUME ClearInv, AVisit
  PROVE  /\ target \in Module /\ statement \in DOMAIN program[target] /\ Visiting
         /\ Visited = program[target][statement] /\ Visited \in Statements
         /\ State \in AnalyzerState /\ Sound(State) /\ State.names = names[target]
         /\ State.errors = errors /\ State.infos = infos /\ State.pass = pass
         /\ names \in Tables /\ final_iteration \in BOOLEAN
         /\ pass.missing # {} => pass.deferred
<1>1. target \in Module /\ statement \in DOMAIN program[target] /\ Visited \in Statements
  BY Visits DEF ClearInv
<1>2. /\ statement \in Nat /\ final_iteration \in BOOLEAN /\ names \in Tables /\ infos \subseteq Place
      /\ errors \subseteq Report /\ pass \in Pass
  BY DEF ClearInv, DeferralInv, DeferralTypeOK, Tables
<1>3. /\ State.names = names[target] /\ State.errors = errors /\ State.infos = infos /\ State.pass = pass
      /\ State \in AnalyzerState
  BY <1>1, <1>2 DEF State, AnalyzerState, Tables
<1>4. (pass.missing # {} => pass.deferred) /\ Sound(State)
  BY <1>3 DEF ClearInv, DeferralInv, PassIsCurrent, Sound
<1>5. QED
  BY <1>1, <1>2, <1>3, <1>4 DEF Visiting, Visited

\* In such a program every name is bound in the end, and to what it means.
LEMMA NamesMean ==
  ASSUME ClearInv, NEW m \in Module, NEW x \in Names[m]
  PROVE  /\ x \in Name /\ Means(m, x)
         /\ Bound(m, x) => names[m][x] = Meaning[m][x]
         /\ final_iteration => Bound(m, x)
<1>1. x \in Name
  BY NamesAre DEF ClearInv, Clear, Plain
<1>2. Means(m, x)
  BY DEF ClearInv, Clear, Cyclic, Means
<1>3. QED
  BY <1>1, <1>2 DEF ClearInv, NamesInv, BoundAsMeant, FinalHasAll

\* The symbol that a statement finds under the name that it binds.
LEMMA FindsFirst ==
  ASSUME ClearInv, AVisit, Visited.kind # "star"
  PROVE  LET x == Visited.name
             again == First(target, x, Names) # statement
         IN  /\ x \in Name
             /\ Bound(target, x) => names[target][x] = Meaning[target][x]
             /\ Bound(target, x) /\ Visited.kind \in {"func", "class"} =>
                  (names[target][x] # Node(Visited.kind, Here) <=> again)
             /\ final_iteration => Bound(target, x)
             /\ ~Bound(target, x) /\ again => pass.deferred
<1> DEFINE x == Visited.name
           i == First(target, x, Names)
           st == program[target][i]
<1>1. /\ target \in Module /\ statement \in DOMAIN program[target] /\ Visited \in Statements
      /\ Visited = program[target][statement] /\ final_iteration \in BOOLEAN
      /\ pass.missing # {} => pass.deferred
  BY VisitedIs
<1>2. x \in Name /\ Binds(Visited, x) /\ Brings(target, statement, x)
  BY <1>1 DEF Statements, Binds, Brings
<1>3. x \in Names[target] /\ Plain
  BY <1>1, <1>2, NamesAre DEF ClearInv, Clear, Plain
<1>4. /\ Bound(target, x) => names[target][x] = Meaning[target][x]
      /\ final_iteration => Bound(target, x)
  BY <1>1, <1>3, NamesMean
<1>5. Visited.kind \in {"func", "class"} => (Node(Visited.kind, Here) = Meaning[target][x] <=> i = statement)
  BY <1>1, FirstOrNot DEF ClearInv, Here
<1>6. i \in DOMAIN program[target] /\ i <= statement /\ Brings(target, i, x) /\ i \in Nat /\ statement \in Nat
  BY <1>1, <1>2, <1>3, FirstIs, PlainStatements DEF Plain
<1> HIDE DEF i
<1>7. ASSUME ~Bound(target, x), i # statement
      PROVE  pass.deferred
  <2>1. ~final_iteration
    BY <1>1, <1>3, <1>7, NamesMean
  <2>2. i < statement
    BY <1>6, <1>7
  <2>3. Waits(i, x)
    BY <1>1, <1>2, <1>6, <2>1, <2>2, NullAssumption DEF ClearInv, NamesInv, PassKnows
  <2>4. ~(st.kind = "star" /\ x \in Names[st.module])
    <3>1. ~Redefines(target)
      BY <1>1, <1>3 DEF Plain
    <3>2. QED
      BY <1>1, <1>2, <1>6, <2>2, <3>1 DEF Redefines, i
  <2>5. st.kind # "star"
    BY <1>6, <2>4 DEF Brings, Binds
  <2>6. QED
    BY <1>1, <1>7, <2>3, <2>5 DEF Waits
<1>8. QED
  BY <1>2, <1>4, <1>5, <1>7 DEF i

LEMMA FuncDefReports ==
  ASSUME ClearInv, VisitFuncDef
  PROVE  VisitReports
<1> DEFINE x == Visited.name
           node == Node("func", Here)
           again == First(target, x, Names) # statement
           t == AddSymbol(State, x, node, TRUE)
<1>1. AVisit /\ Visited.kind = "func" /\ errors' = t.errors /\ pass' = t.pass
  BY DEF AVisit, VisitFuncDef, Visit, Becomes
<1>2. /\ target \in Module /\ statement \in DOMAIN program[target] /\ Visiting
      /\ Visited = program[target][statement] /\ Visited \in Statements
      /\ State \in AnalyzerState /\ Sound(State) /\ State.names = names[target]
      /\ State.errors = errors /\ State.pass = pass
  BY <1>1, VisitedIs
<1>3. /\ x \in Name
      /\ Bound(target, x) => (names[target][x] # node <=> again)
      /\ ~Bound(target, x) /\ again => pass.deferred
  BY <1>1, FindsFirst
<1>4. Wrong(target, statement) = IF again THEN Reporting("defined", target, statement) ELSE {}
  <2>1. ~Unavailable(target, statement) /\ ~Conflicts(target, statement)
    BY <1>1, <1>2 DEF Unavailable, Conflicts
  <2> HIDE DEF again, node, t
  <2>2. QED
    BY <1>1, <1>2, <2>1, WrongIs DEF ClearInv, again
<1>5. node \in Symbol /\ Ready(node) /\ node # None
  <2>1. node \in [kind : {"func", "class", "unknown"}, at : Place]
    BY <1>2 DEF Visiting, Node, Here, Place
  <2>2. QED
    BY <2>1, Symbols DEF Symbol, Ready
<1> HIDE DEF node, again
<1>6. t.errors = errors \cup (IF Ready(names[target][x]) /\ Ready(node) /\ node # names[target][x]
                              THEN {<<"defined", target, statement>>} ELSE {})
  <2>1. final_iteration => ~(node \in Placeholders /\ TRUE)
    BY <1>5 DEF Ready
  <2>2. t.errors = State.errors \cup (IF Ready(State.names[x]) /\ Ready(node) /\ node # State.names[x]
                                      THEN {<<"defined", target, statement>>} ELSE {})
    BY <1>2, <1>3, <1>5, <2>1, AddSymbolReports
  <2>3. QED
    BY <1>2, <2>2
<1>7. pass.deferred => t.pass.deferred
  BY <1>2, <1>3, <1>5, AddSymbolFollows DEF Follows
<1> HIDE DEF t, x
<1>8. QED
  BY <1>1, <1>3, <1>4, <1>5, <1>6, <1>7 DEF VisitReports, Bound, Reporting

LEMMA ClassDefReports ==
  ASSUME ClearInv, VisitClassDef
  PROVE  VisitReports
<1> DEFINE x == Visited.name
           base == Visited.base
           node == Node("class", Here)
           again == First(target, x, Names) # statement
           undefined == base # Null /\ base \notin Names[target]
           func == base # Null /\ base \in Names[target] /\ Meaning[target][base].kind = "func"
           wrong == IF undefined THEN Reporting("undefined", target, statement)
                    ELSE IF func THEN Reporting("base", target, statement) ELSE {}
           t == IF Here \in infos THEN State ELSE AddSymbol(State, x, TypePlaceholder, FALSE)
           sym == IF base = Null THEN Node("class", Nowhere) ELSE t.names[base]
           missing == sym = None
           analyzed == IF missing THEN Fail(t, "undefined")
                       ELSE IF sym \in Placeholders THEN Fail(t, "cyclic")
                       ELSE IF sym.kind = "func" THEN Fail(t, "base") ELSE t
           built == [analyzed EXCEPT !.infos = analyzed.infos \cup {Here}]
           waits == ~final_iteration /\ (sym \in Placeholders \/ (missing /\ target \in incomplete_namespaces))
           u == AnalyzeClass(State, x, base)
<1>1. AVisit /\ Visited.kind = "class" /\ errors' = u.errors /\ pass' = u.pass
  BY DEF AVisit, VisitClassDef, Visit, Becomes
<1>2. /\ target \in Module /\ statement \in DOMAIN program[target] /\ Visiting
      /\ Visited = program[target][statement] /\ Visited \in Statements
      /\ State \in AnalyzerState /\ Sound(State) /\ State.names = names[target]
      /\ State.errors = errors /\ State.pass = pass /\ State.infos = infos
      /\ final_iteration \in BOOLEAN /\ names \in Tables
  BY <1>1, VisitedIs
<1>3. /\ x \in Name
      /\ Bound(target, x) => (names[target][x] # node <=> again)
      /\ ~Bound(target, x) /\ again => pass.deferred
  BY <1>1, FindsFirst
<1>4. Wrong(target, statement) = (IF again THEN Reporting("defined", target, statement) ELSE {})
                                 \cup wrong
  <2>1. ~Unavailable(target, statement)
    BY <1>1, <1>2 DEF Unavailable
  <2>2. QED
    BY <1>1, <1>2, <2>1, WrongIs DEF ClearInv, Conflicts
<1>5. TypePlaceholder \in Symbol /\ TypePlaceholder # None /\ ~Ready(TypePlaceholder) /\ ~Ready(Placeholder)
  BY Symbols DEF Placeholders, Ready
<1>6. /\ t \in AnalyzerState /\ Sound(t) /\ t.errors = errors /\ (pass.deferred => t.pass.deferred)
      /\ \A y \in Name : /\ Ready(t.names[y]) <=> Bound(target, y)
                         /\ Ready(t.names[y]) => t.names[y] = names[target][y]
                         /\ names[target][y] # None => t.names[y] # None
                         /\ y # x => t.names[y] = names[target][y]
  <2>1. Follows(State, t, x, {TypePlaceholder}) /\ t.errors = errors
    <3>1. CASE Here \in infos
      <4>1. Follows(State, State, x, {TypePlaceholder})
        BY <1>2, <1>3, FollowsSelf
      <4>2. QED
        BY <1>2, <3>1, <4>1
    <3>2. CASE Here \notin infos
      <4> DEFINE a == AddSymbol(State, x, TypePlaceholder, FALSE)
      <4>1. Follows(State, a, x, {TypePlaceholder})
        BY <1>2, <1>3, <1>5, AddSymbolFollows
      <4>2. a.errors = State.errors \cup (IF Ready(State.names[x]) /\ Ready(TypePlaceholder)
                                             /\ TypePlaceholder # State.names[x]
                                          THEN {<<"defined", target, statement>>} ELSE {})
        BY <1>2, <1>3, <1>5, AddSymbolReports
      <4>3. QED
        BY <1>2, <1>5, <3>2, <4>1, <4>2
    <3>3. QED
      BY <3>1, <3>2
  <2> HIDE DEF t
  <2>2. /\ t \in AnalyzerState /\ Sound(t) /\ (pass.deferred => t.pass.deferred)
        /\ t.names[x] \in {names[target][x], TypePlaceholder} /\ Improves(names[target][x], t.names[x])
        /\ \A y \in Name : y # x => t.names[y] = names[target][y]
    BY <1>2, <2>1 DEF Follows
  <2>3. names[target][x] \in Symbol /\ t.names[x] \in Symbol
    BY <1>2, <1>3, <2>2 DEF AnalyzerState
  <2>4. Bound(target, x) => t.names[x] = names[target][x]
    BY <2>2, <2>3, ReadyStays DEF Bound
  <2>5. names[target][x] # None => t.names[x] # None
    BY <2>2, <2>3, NoneGoes
  <2>6. QED
    BY <1>5, <2>1, <2>2, <2>4, <2>5 DEF Bound
<1>7. /\ waits => u = MarkIncomplete(t, x, Placeholder)
      /\ ~waits => u = AddSymbol(built, x, node, TRUE)
  BY <1>2 DEF AnalyzeClass
<1>8. node \in Symbol /\ Ready(node) /\ node # None /\ Here \in Place
  <2>1. node \in [kind : {"func", "class", "unknown"}, at : Place] /\ Here \in Place
    BY <1>2 DEF Visiting, Node, Here, Place
  <2>2. QED
    BY <2>1, Symbols DEF Symbol, Ready
<1> HIDE DEF u, t, node
<1>9. CASE waits
  <2>1. ~final_iteration /\ Placeholder \in Placeholders
    BY <1>9 DEF Placeholders
  <2>2. MarkIncomplete(t, x, Placeholder).errors = t.errors
    BY <1>2, <1>3, <1>6, <2>1, MarkIncompleteReports
  <2>3. MarkIncomplete(t, x, Placeholder).pass.deferred
    BY <1>2, <1>3, <1>6, <2>1, MarkIncompleteFollows
  <2>4. QED
    BY <1>1, <1>6, <1>7, <1>9, <2>2, <2>3 DEF VisitReports
<1>10. CASE ~waits
  <2>1. sym \notin Placeholders /\ (missing <=> undefined) /\ (~missing => (sym.kind = "func" <=> func))
    <3>1. CASE base = Null
      <4>1. Node("class", Nowhere).kind = "class" /\ None.kind = "none" /\ Placeholder.kind = "placeholder"
            /\ TypePlaceholder.kind = "type placeholder"
        BY DEF None, Placeholder, TypePlaceholder, Node
      <4>2. QED
        BY <3>1, <4>1 DEF Placeholders
    <3>2. CASE base # Null /\ base \in Names[target]
      <4>1. base \in Names[target]
        BY <3>2
      <4>2. /\ base \in Name
            /\ Bound(target, base) => names[target][base] = Meaning[target][base]
            /\ final_iteration => Bound(target, base)
        BY <1>2, <4>1, NamesMean
      <4>3. ~final_iteration /\ target \notin incomplete_namespaces => names[target][base] # None
        BY <1>2, <4>1 DEF ClearInv, NamesInv, CompleteHaveAll
      <4>4. t.names[base] # None /\ t.names[base] \notin Placeholders
        BY <1>6, <1>10, <3>2, <4>2, <4>3 DEF Ready
      <4>5. t.names[base] = Meaning[target][base]
        BY <1>6, <4>2, <4>4 DEF Ready
      <4>6. QED
        BY <3>2, <4>4, <4>5
    <3>3. CASE base # Null /\ base \notin Names[target]
      <4>1. x \in Names[target]
        BY <1>1, <1>2, <1>3, NamesAre DEF ClearInv, Clear, Plain, Brings, Binds
      <4>2. base \in Name /\ base # x
        BY <1>1, <1>2, <3>3, <4>1 DEF Statements
      <4>3. names[target][base] = None
        BY <1>2, <3>3, <4>2 DEF ClearInv, NamesInv, OnlyTheirNames
      <4>4. sym = None
        BY <1>6, <3>3, <4>2, <4>3
      <4>5. QED
        BY <3>3, <4>4, Symbols
    <3>4. QED
      BY <3>1, <3>2, <3>3
  <2>2. analyzed = IF undefined THEN Fail(t, "undefined") ELSE IF func THEN Fail(t, "base") ELSE t
    BY <2>1
  <2>3. ASSUME NEW kind \in {"undefined", "base"}
        PROVE  /\ Fail(t, kind).errors = t.errors \cup {<<kind, target, statement>>}
               /\ Fail(t, kind) \in AnalyzerState /\ Fail(t, kind).names = t.names
               /\ Fail(t, kind).pass = t.pass
    <3>1. Follows(t, Fail(t, kind), x, {}) /\ Fail(t, kind).names = t.names /\ Fail(t, kind).pass = t.pass
      BY <1>2, <1>3, <1>6, FailFollows
    <3>2. Fail(t, kind).errors = t.errors \cup {<<kind, target, statement>>}
      BY <1>6 DEF Fail, AnalyzerState
    <3>3. QED
      BY <3>1, <3>2 DEF Follows
  <2>4. /\ analyzed \in AnalyzerState /\ analyzed.names = t.names /\ analyzed.pass = t.pass
        /\ analyzed.errors = errors \cup wrong
    BY <1>6, <2>2, <2>3 DEF Reporting
  <2> HIDE DEF analyzed, undefined, func, wrong, sym
  <2>5. /\ built \in AnalyzerState /\ built.names = t.names /\ built.pass = t.pass
        /\ built.errors = errors \cup wrong
    BY <1>8, <2>4 DEF AnalyzerState
  <2> HIDE DEF built
  <2>6. Sound(built)
    BY <1>6, <2>5 DEF Sound
  <2> DEFINE w == AddSymbol(built, x, node, TRUE)
  <2>7. w.errors = built.errors \cup (IF Ready(built.names[x]) /\ Ready(node) /\ node # built.names[x]
                                      THEN {<<"defined", target, statement>>} ELSE {})
    <3>1. final_iteration => ~(node \in Placeholders /\ TRUE)
      BY <1>8 DEF Ready
    <3>2. QED
      BY <1>3, <1>8, <2>5, <3>1, AddSymbolReports
  <2>8. built.pass.deferred => w.pass.deferred
    BY <1>2, <1>3, <1>8, <2>5, <2>6, AddSymbolFollows DEF Follows
  <2>9. Ready(built.names[x]) /\ node # built.names[x] <=> Bound(target, x) /\ node # names[target][x]
    BY <1>3, <1>6, <2>5
  <2>10. u = w
    BY <1>7, <1>10
  <2> HIDE DEF w
  <2>11. pass.deferred => u.pass.deferred
    BY <1>6, <2>5, <2>8, <2>10
  <2>12. u.errors = errors \cup wrong
                    \cup (IF Bound(target, x) /\ node # names[target][x]
                          THEN Reporting("defined", target, statement) ELSE {})
    BY <1>8, <2>5, <2>7, <2>9, <2>10 DEF Reporting
  <2>13. Bound(target, x) => (node # names[target][x] <=> again)
    BY <1>3 DEF node
  <2> HIDE DEF again
  <2>14. QED
    BY <1>1, <1>3, <1>4, <2>11, <2>12, <2>13 DEF VisitReports
<1>11. QED
  BY <1>9, <1>10

LEMMA ImportFromReports ==
  ASSUME ClearInv, VisitImportFrom
  PROVE  VisitReports
<1> DEFINE x == Visited.name
           m == Visited.module
           node == names[m][x]
           d == MarkIncomplete(State, x, TypePlaceholder)
           t == IF node = None \/ (node \in Placeholders /\ final_iteration)
                THEN ReportMissing(State, m, x)
                ELSE IF node \in Placeholders THEN AddImported(d, x, node)
                ELSE AddImported(State, x, node)
<1>1. AVisit /\ Visited.kind = "from" /\ errors' = t.errors /\ pass' = t.pass
  BY DEF AVisit, VisitImportFrom, Visit, Becomes
<1>2. /\ target \in Module /\ statement \in DOMAIN program[target] /\ Visiting
      /\ Visited = program[target][statement] /\ Visited \in Statements
      /\ State \in AnalyzerState /\ Sound(State) /\ State.errors = errors
      /\ State.names = names[target] /\ State.pass = pass
      /\ final_iteration \in BOOLEAN /\ names \in Tables
  BY <1>1, VisitedIs
<1>3. x \in Name /\ m \in Module /\ (Unavailable(target, statement) <=> x \notin Names[m])
  BY <1>1, <1>2 DEF Statements, Unavailable
<1>4. Wrong(target, statement) = (IF Conflicts(target, statement) THEN Reporting("defined", target, statement) ELSE {})
                                 \cup (IF x \notin Names[m] THEN Reporting("attribute", target, statement) ELSE {})
  BY <1>1, <1>2, <1>3, WrongIs DEF ClearInv
<1>5. node \in Symbol
  BY <1>2, <1>3 DEF Tables
<1>6. final_iteration /\ x \in Names[m] => Ready(node)
  BY <1>3, NamesMean DEF Bound
<1>7. /\ node = None /\ x \in Names[m] => m \in incomplete_namespaces
      /\ node # None => x \in Names[m]
      /\ final_iteration => m \notin incomplete_namespaces
  <2>1. node = None /\ x \in Names[m] => m \in incomplete_namespaces
    BY <1>3, <1>6 DEF ClearInv, NamesInv, CompleteHaveAll, Ready
  <2>2. node # None => x \in Names[m]
    BY <1>3 DEF ClearInv, NamesInv, OnlyTheirNames
  <2>3. QED
    BY <2>1, <2>2 DEF ClearInv, DeferralInv, PassIsCurrent
<1>8. x \in Names[m] => Wrong(target, statement) = {}
  BY <1>3, <1>4 DEF Conflicts
<1>9. /\ Bound(target, x) => names[target][x] = Meaning[target][x]
      /\ final_iteration => Bound(target, x)
      /\ ~Bound(target, x) /\ Conflicts(target, statement) => pass.deferred
  <2>1. /\ Bound(target, x) => names[target][x] = Meaning[target][x]
        /\ final_iteration => Bound(target, x)
        /\ ~Bound(target, x) /\ First(target, x, Names) # statement => pass.deferred
    BY <1>1, FindsFirst
  <2>2. Conflicts(target, statement) => First(target, x, Names) # statement
    BY <1>2, WrongIs DEF ClearInv
  <2>3. QED
    BY <2>1, <2>2
<1>10. Conflicts(target, statement) <=> x \notin Names[m] /\ Meaning[target][x].kind # "unknown"
  BY <1>2, <1>3 DEF Conflicts
<1> HIDE DEF x, m, node
<1>11. CASE node = None /\ m \in incomplete_namespaces
  <2> DEFINE w == MarkIncomplete(State, x, Placeholder)
  <2>1. t = w
    BY <1>11 DEF ReportMissing
  <2>2. ~final_iteration /\ Placeholder \in Placeholders
    BY <1>2, <1>7, <1>11 DEF Placeholders
  <2>3. w.errors = errors
    BY <1>2, <1>3, <2>2, MarkIncompleteReports
  <2>4. w.pass.deferred
    BY <1>2, <1>3, <2>2, MarkIncompleteFollows
  <2> HIDE DEF w, t
  <2>5. QED
    BY <1>1, <2>1, <2>3, <2>4 DEF VisitReports
<1>12. CASE node = None /\ m \notin incomplete_namespaces
  <2> DEFINE f == Fail(State, "attribute")
             w == AddUnknown(f, x)
  <2>1. x \notin Names[m]
    BY <1>7, <1>12
  <2>2. t = w
    BY <1>12 DEF ReportMissing
  <2>3. /\ f \in AnalyzerState /\ Sound(f) /\ f.names = names[target] /\ f.pass = pass
        /\ f.errors = errors \cup Reporting("attribute", target, statement)
    <3>1. Follows(State, f, x, {}) /\ f.names = State.names /\ f.pass = State.pass
      BY <1>2, <1>3, FailFollows
    <3>2. f.errors = State.errors \cup {<<"attribute", target, statement>>}
      BY <1>2 DEF Fail, AnalyzerState
    <3>3. QED
      BY <1>2, <3>1, <3>2 DEF Follows, Reporting
  <2> HIDE DEF f
  <2>4. /\ w.errors = f.errors \cup (IF Bound(target, x) /\ names[target][x].kind # "unknown"
                                     THEN Reporting("defined", target, statement) ELSE {})
        /\ pass.deferred => w.pass.deferred
    <3>1. /\ w.errors = f.errors \cup (IF Ready(f.names[x]) /\ f.names[x].kind # "unknown"
                                       THEN {<<"defined", target, statement>>} ELSE {})
          /\ f.pass.deferred => w.pass.deferred
      BY <1>2, <1>3, <2>3, AddUnknownReports
    <3> HIDE DEF w
    <3>2. QED
      BY <2>3, <3>1 DEF Bound, Reporting
  <2> HIDE DEF w, t
  <2>5. Bound(target, x) => (Conflicts(target, statement) <=> names[target][x].kind # "unknown")
    BY <1>9, <1>10, <2>1
  <2>6. Wrong(target, statement) = (IF Conflicts(target, statement) THEN Reporting("defined", target, statement) ELSE {})
                                   \cup Reporting("attribute", target, statement)
    BY <1>4, <2>1
  <2>7. QED
    BY <1>1, <1>9, <2>2, <2>3, <2>4, <2>5, <2>6 DEF VisitReports
<1>13. CASE node \in Placeholders
  <2>1. ~final_iteration /\ TypePlaceholder \in Placeholders /\ node # None /\ x \in Names[m]
    BY <1>6, <1>7, <1>13, Symbols DEF Ready, Placeholders
  <2>2. d.errors = errors
    BY <1>2, <1>3, <2>1, MarkIncompleteReports
  <2>3. d \in AnalyzerState
    BY <1>2, <1>3, <2>1, MarkIncompleteFollows DEF Follows
  <2> HIDE DEF d
  <2>4. AddImported(d, x, node).errors = d.errors
    BY <1>3, <1>5, <2>1, <2>3, AddImportedReports
  <2>5. QED
    BY <1>1, <1>8, <1>13, <2>1, <2>2, <2>4 DEF VisitReports
<1>14. CASE Ready(node)
  <2>1. AddImported(State, x, node).errors = State.errors
    BY <1>2, <1>3, <1>5, <1>14, AddImportedReports DEF Ready
  <2>2. QED
    BY <1>1, <1>2, <1>7, <1>8, <1>14, <2>1 DEF VisitReports, Ready
<1>15. QED
  BY <1>11, <1>12, <1>13, <1>14 DEF Ready

LEMMA ImportAllReports ==
  ASSUME ClearInv, VisitImportAll
  PROVE  VisitReports
<1> DEFINE m == Visited.module
           d == IF m \in incomplete_namespaces THEN MarkIncomplete(State, "*", None) ELSE State
           given == {x \in Name : names[m][x] # None}
           imported(x) == ImportName(d, m, x)
           t == ImportAll(d, m)
           e == [Defer(State) EXCEPT !.pass.incomplete = TRUE]
<1>1. AVisit /\ Visited.kind = "star" /\ errors' = t.errors
  BY DEF AVisit, VisitImportAll, Visit, Becomes
<1>2. /\ target \in Module /\ statement \in DOMAIN program[target] /\ Visiting
      /\ Visited = program[target][statement] /\ Visited \in Statements
      /\ State \in AnalyzerState /\ Sound(State) /\ State.errors = errors
      /\ final_iteration \in BOOLEAN /\ names \in Tables
  BY <1>1, VisitedIs
<1>3. Wrong(target, statement) = {}
  <2>1. ~Unavailable(target, statement)
    BY <1>1, <1>2 DEF Unavailable
  <2>2. QED
    BY <1>1, <1>2, <2>1, WrongIs DEF ClearInv, Conflicts
<1>4. m \in Module
  BY <1>1, <1>2, PlainStatements DEF ClearInv, Clear
<1>5. d \in AnalyzerState /\ d.errors = errors
  <2>1. e \in AnalyzerState /\ e.errors = errors
    BY <1>2 DEF Defer, AnalyzerState, Pass
  <2>2. MarkIncomplete(State, "*", None) = [e EXCEPT !.pass.missing = e.pass.missing \cup {"*"}]
    BY DEF MarkIncomplete
  <2> HIDE DEF e
  <2>3. /\ [e EXCEPT !.pass.missing = e.pass.missing \cup {"*"}] \in AnalyzerState
        /\ [e EXCEPT !.pass.missing = e.pass.missing \cup {"*"}].errors = errors
    BY <2>1 DEF AnalyzerState, Pass
  <2>4. QED
    BY <1>2, <2>2, <2>3
<1> HIDE DEF d, m
<1>6. ASSUME NEW x \in given
      PROVE  imported(x).errors = errors
  <2>1. x \in Name /\ names[m][x] \in Symbol /\ names[m][x] # None
    BY <1>2, <1>4 DEF Tables
  <2>2. x \in Names[m]
    BY <1>4, <2>1 DEF ClearInv, NamesInv, OnlyTheirNames
  <2>3. final_iteration => Ready(names[m][x])
    BY <1>4, <2>2, NamesMean DEF Bound
  <2>4. imported(x) = AddImported(d, x, names[m][x])
    BY <2>3 DEF ImportName, Ready
  <2>5. AddImported(d, x, names[m][x]).errors = d.errors
    BY <1>5, <2>1, <2>3, AddImportedReports
  <2>6. QED
    BY <1>5, <2>4, <2>5
<1>7. t.errors = d.errors \cup UNION {imported(x).errors : x \in given}
  BY DEF ImportAll
<1> HIDE DEF imported, given, t
<1>8. t.errors = errors
  BY <1>5, <1>6, <1>7
<1>9. QED
  BY <1>1, <1>3, <1>8 DEF VisitReports

(***************************************************************************)
(* The reports of a program in which every name means something.           *)
(***************************************************************************)
\* What is wrong with the statements behind the analyzer has been reported, but for
\* the modules that are taken again.
AllReported(m) == \A i \in DOMAIN program[m] : Wrong(m, i) \subseteq errors
Reported ==
  /\ \A m \in Module : m \in ToSet(worklist) \/ m \in ToSet(all_deferred) \/ m = target \/ AllReported(m)
  /\ target # Null => \/ pass.deferred
                      \/ \A i \in DOMAIN program[target] : i < statement => Wrong(target, i) \subseteq errors

ReportsInv == errors \subseteq Mistakes /\ Reported

LEMMA WrongStays ==
  ASSUME program' = program
  PROVE  /\ \A m, i : Wrong(m, i)' = Wrong(m, i)
         /\ Mistakes' = Mistakes /\ (Clear' <=> Clear)
<1>1. Names' = Names /\ Meaning' = Meaning /\ (Plain' <=> Plain)
  BY MeaningStays
<1>2. \A m, x : First(m, x, Names)' = First(m, x, Names)
  BY MeaningStays
<1>3. ASSUME NEW m, NEW i PROVE Wrong(m, i)' = Wrong(m, i)
  <2>1. First(m, program[m][i].name, Names)' = First(m, program[m][i].name, Names)
    BY <1>2
  <2>2. Unavailable(m, i)' <=> Unavailable(m, i)
    BY <1>1 DEF Unavailable
  <2>3. QED
    BY <1>1, <2>1, <2>2 DEF Wrong
<1>4. Mistakes' = Mistakes
  BY <1>3 DEF Mistakes
<1>5. Clear' <=> Clear
  BY <1>1 DEF Clear, Cyclic
<1>6. QED
  BY <1>3, <1>4, <1>5

LEMMA InitReports == DeferralInit => ReportsInv
<1> SUFFICES ASSUME DeferralInit
             PROVE  ReportsInv
  OBVIOUS
<1>1. errors = {} /\ target = Null /\ program \in [Module -> Seq(Statements)]
      /\ ToSet(worklist) = {m \in Module : program[m] # <<>>}
  BY ProgramAssumption DEF DeferralInit
<1>2. ASSUME NEW m \in Module, m \notin ToSet(worklist)
      PROVE  AllReported(m)
  <2>1. program[m] = <<>>
    BY <1>1, <1>2
  <2>2. QED
    BY <2>1 DEF AllReported
<1>3. QED
  BY <1>1, <1>2 DEF ReportsInv, Reported

LEMMA VisitReportsInv ==
  ASSUME ClearInv, ReportsInv, AVisit
  PROVE  ReportsInv'
<1>1. VisitReports
  BY FuncDefReports, ClassDefReports, ImportFromReports, ImportAllReports DEF AVisit
<1>2. /\ target \in Module /\ target # Null /\ statement \in DOMAIN program[target]
      /\ \E t : IsVisit(t)
  BY Visits, NullAssumption DEF ClearInv
<1>3. /\ UNCHANGED <<program, worklist, all_deferred, target>> /\ statement' = statement + 1
      /\ pass.deferred => pass'.deferred
  BY <1>2 DEF IsVisit, VisitFollows, Becomes, driver, State
<1>4. (\A m, i : Wrong(m, i)' = Wrong(m, i)) /\ Mistakes' = Mistakes
  BY <1>3, WrongStays
<1>5. errors' \subseteq Mistakes
  BY <1>1, <1>2 DEF ReportsInv, VisitReports, Mistakes
<1>6. \A m \in Module : AllReported(m) => AllReported(m)'
  BY <1>1, <1>3, <1>4 DEF AllReported, VisitReports
<1>7. ASSUME ~pass'.deferred, NEW i \in DOMAIN program[target], i < statement + 1
      PROVE  Wrong(target, i) \subseteq errors'
  <2>1. i \in Nat /\ statement \in Nat
    BY <1>2, PlainStatements DEF ClearInv, Clear
  <2>2. CASE i = statement
    BY <1>1, <1>7, <2>2 DEF VisitReports
  <2>3. CASE i # statement
    <3>1. i < statement
      BY <1>7, <2>1, <2>3
    <3>2. Wrong(target, i) \subseteq errors
      BY <1>2, <1>3, <1>7, <3>1 DEF ReportsInv, Reported
    <3>3. QED
      BY <1>1, <3>2 DEF VisitReports
  <2>4. QED
    BY <2>2, <2>3
<1>8. (\A m \in Module : m \in ToSet(worklist) \/ m \in ToSet(all_deferred) \/ m = target \/ AllReported(m))'
  BY <1>3, <1>6 DEF ReportsInv, Reported
<1>9. (target # Null => \/ pass.deferred
                        \/ \A i \in DOMAIN program[target] : i < statement => Wrong(target, i) \subseteq errors)'
  BY <1>3, <1>4, <1>7
<1>10. QED
  BY <1>4, <1>5, <1>8, <1>9 DEF ReportsInv, Reported

LEMMA DriverReports ==
  ASSUME UNCHANGED <<program, errors>>, ReportsInv
  PROVE  /\ (errors \subseteq Mistakes)'
         /\ \A m \in Module : AllReported(m)' <=> AllReported(m)
         /\ \A m, i : Wrong(m, i)' = Wrong(m, i)
<1>1. (\A m, i : Wrong(m, i)' = Wrong(m, i)) /\ Mistakes' = Mistakes
  BY WrongStays
<1>2. QED
  BY <1>1 DEF ReportsInv, AllReported

LEMMA BeginTargetReports ==
  ASSUME DeferralInv, Plain, ReportsInv, BeginTarget
  PROVE  ReportsInv'
<1>1. /\ worklist \in Seq(Module) /\ worklist # <<>> /\ target = Null
      /\ target' = worklist[Len(worklist)] /\ worklist' = SubSeq(worklist, 1, Len(worklist) - 1)
      /\ statement' = 1 /\ UNCHANGED <<program, all_deferred, errors>>
  BY DEF DeferralInv, DeferralTypeOK, BeginTarget
<1>2. target' \in Module /\ ToSet(worklist) = ToSet(worklist') \cup {target'}
  BY <1>1, Popped
<1>3. (errors \subseteq Mistakes)' /\ \A m \in Module : AllReported(m)' <=> AllReported(m)
  BY <1>1, DriverReports
<1>4. \A i \in DOMAIN program[target'] : ~(i < 1)
  BY <1>2, PlainStatements
<1>5. (\A m \in Module : m \in ToSet(worklist) \/ m \in ToSet(all_deferred) \/ m = target \/ AllReported(m))'
  BY <1>1, <1>2, <1>3, NullAssumption DEF ReportsInv, Reported
<1>6. QED
  BY <1>1, <1>3, <1>4, <1>5 DEF ReportsInv, Reported

LEMMA EndTargetReports ==
  ASSUME DeferralInv, Plain, ReportsInv, EndTarget
  PROVE  ReportsInv'
<1>1. /\ target # Null /\ statement \notin DOMAIN program[target] /\ target' = Null
      /\ all_deferred' = IF pass.deferred THEN Append(all_deferred, target) ELSE all_deferred
      /\ UNCHANGED <<program, worklist, errors>>
  BY DEF EndTarget
<1>2. target \in Module /\ all_deferred \in Seq(Module) /\ statement \in Nat /\ statement >= 1
  BY <1>1 DEF DeferralInv, DeferralTypeOK, PassIsCurrent
<1>3. ToSet(all_deferred') = ToSet(all_deferred) \cup (IF pass.deferred THEN {target} ELSE {})
  BY <1>1, <1>2, Appended
<1>4. (errors \subseteq Mistakes)' /\ \A m \in Module : AllReported(m)' <=> AllReported(m)
  BY <1>1, DriverReports
<1>5. \A i \in DOMAIN program[target] : i < statement
  BY <1>1, <1>2 DEF Plain
<1>6. pass.deferred \/ AllReported(target)
  BY <1>1, <1>5 DEF ReportsInv, Reported, AllReported
<1>7. (\A m \in Module : m \in ToSet(worklist) \/ m \in ToSet(all_deferred) \/ m = target \/ AllReported(m))'
  BY <1>1, <1>3, <1>4, <1>6 DEF ReportsInv, Reported
<1>8. QED
  BY <1>1, <1>4, <1>7 DEF ReportsInv, Reported

LEMMA RestReports ==
  ASSUME DeferralInv, ReportsInv, NextIteration \/ Finish \/ UNCHANGED deferralVars
  PROVE  ReportsInv'
<1>1. /\ UNCHANGED <<program, target, statement, errors, pass>>
      /\ ToSet(worklist') \cup ToSet(all_deferred') = ToSet(worklist) \cup ToSet(all_deferred)
  <2>1. CASE NextIteration
    <3>1. worklist = <<>> /\ worklist' = Reverse(all_deferred) /\ all_deferred' = <<>>
      BY <2>1 DEF NextIteration
    <3>2. ToSet(worklist') = ToSet(all_deferred)
      BY <3>1, Reversed DEF DeferralInv, DeferralTypeOK
    <3>3. ToSet(worklist) = {} /\ ToSet(all_deferred') = {}
      BY <3>1 DEF ToSet
    <3>4. QED
      BY <2>1, <3>2, <3>3 DEF NextIteration, analyzer
  <2>2. CASE Finish \/ UNCHANGED deferralVars
    BY <2>2 DEF Finish, deferralVars, driver, analyzer
  <2>3. QED
    BY <2>1, <2>2
<1>2. /\ (errors \subseteq Mistakes)' /\ \A m \in Module : AllReported(m)' <=> AllReported(m)
      /\ \A m, i : Wrong(m, i)' = Wrong(m, i)
  BY <1>1, DriverReports
<1>3. (\A m \in Module : m \in ToSet(worklist) \/ m \in ToSet(all_deferred) \/ m = target \/ AllReported(m))'
  BY <1>1, <1>2 DEF ReportsInv, Reported
<1>4. (target # Null => \/ pass.deferred
                        \/ \A i \in DOMAIN program[target] : i < statement => Wrong(target, i) \subseteq errors)'
  BY <1>1, <1>2 DEF ReportsInv, Reported
<1>5. QED
  BY <1>2, <1>3, <1>4 DEF ReportsInv, Reported

LEMMA AlwaysReportsInv == DeferralSpec => [](Clear => ReportsInv)
<1>1. DeferralInit => (Clear => ReportsInv)
  BY InitReports
<1>2. /\ DeferralInv /\ (Plain => NamesInv) /\ (Clear => ReportsInv)
      /\ [DeferralNext]_deferralVars
      => (Clear => ReportsInv)'
  <2> SUFFICES ASSUME DeferralInv, Plain => NamesInv, Clear => ReportsInv,
                      [DeferralNext]_deferralVars, Clear'
               PROVE  ReportsInv'
    OBVIOUS
  <2>1. program' = program
    <3>1. AVisit => program' = program
      BY DEF AVisit, VisitFuncDef, VisitClassDef, VisitImportFrom, VisitImportAll, Becomes
    <3>2. QED
      BY <3>1, OnlyVisitsName
  <2>2. Clear /\ Plain /\ ClearInv /\ ReportsInv
    BY <2>1, WrongStays DEF Clear, ClearInv
  <2>3. CASE AVisit
    BY <2>2, <2>3, VisitReportsInv
  <2>4. CASE BeginTarget
    BY <2>2, <2>4, BeginTargetReports
  <2>5. CASE EndTarget
    BY <2>2, <2>5, EndTargetReports
  <2>6. CASE NextIteration \/ Finish \/ UNCHANGED deferralVars
    BY <2>2, <2>6, RestReports
  <2>7. QED
    BY <2>3, <2>4, <2>5, <2>6 DEF DeferralNext, AVisit
<1>3. QED
  BY <1>1, <1>2, AlwaysDeferralInv, AlwaysNamesInv, PTL DEF DeferralSpec

\* If moreover every name that exists means something, what is reported when the cycle has
\* been analysed is what is wrong, names that do not exist included, neither more nor less.
THEOREM AlwaysErrorsAsMeant == DeferralSpec => [](UndefinedWithoutStars /\ ~Cyclic => ErrorsAsMeant)
<1>1. DeferralInv /\ (Clear => ReportsInv) => (UndefinedWithoutStars /\ ~Cyclic => ErrorsAsMeant)
  <2> SUFFICES ASSUME DeferralInv, Clear => ReportsInv, UndefinedWithoutStars, ~Cyclic, Settled
               PROVE  errors = Mistakes
    BY DEF ErrorsAsMeant
  <2>1. Clear /\ outcome = "done"
    BY DEF Settled, Clear, Plain, DeferralInv, DeferralTypeOK
  <2>2. worklist = <<>> /\ all_deferred = <<>> /\ target = Null
    BY <2>1 DEF DeferralInv, PassIsCurrent
  <2>3. \A m \in Module : AllReported(m)
    BY <2>1, <2>2, NullAssumption DEF ReportsInv, Reported, ToSet
  <2>4. Mistakes \subseteq errors
    BY <2>3 DEF Mistakes, AllReported
  <2>5. QED
    BY <2>1, <2>4 DEF ReportsInv
<1>2. QED
  BY <1>1, AlwaysDeferralInv, AlwaysReportsInv, PTL

\* Nor is anything else reported on the way there: a name that is only not known yet is
\* never taken for one that does not exist.
OnlyMistakes == ~StarChain /\ (\A m \in Module : ~Redefines(m)) => errors \subseteq Mistakes

THEOREM AlwaysOnlyMistakes == DeferralSpec => [](UndefinedWithoutStars /\ ~Cyclic => OnlyMistakes)
<1>1. DeferralInv /\ (Clear => ReportsInv) => (UndefinedWithoutStars /\ ~Cyclic => OnlyMistakes)
  BY DEF DeferralInv, DeferralTypeOK, Clear, Plain, ReportsInv, OnlyMistakes
<1>2. QED
  BY <1>1, AlwaysDeferralInv, AlwaysReportsInv, PTL
=============================================================================
