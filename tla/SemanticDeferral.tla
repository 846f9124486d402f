--------------------------- MODULE SemanticDeferral ---------------------------
(***************************************************************************)
(* How the names of an import cycle are bound: process_top_levels analyses *)
(* the modules of the SCC again and again, each as one target, until       *)
(* nothing had to be deferred, and the semantic analyzer fills the symbol  *)
(* tables, with placeholders for what cannot be bound yet.                 *)
(*                                                                         *)
(* A program gives each module a sequence of statements: a function, a     *)
(* class with at most one base, from m import x, from m import *.          *)
(***************************************************************************)
EXTENDS Naturals, SequencesExt

CONSTANTS
  Module,         \* modules; those that have statements form an SCC
  Name,           \* the names they define, import and refer to
  Programs,       \* programs to analyse
  Orders,         \* orders in which order_ascc may put the modules
  MaxIterations,  \* MAX_ITERATIONS
  Null            \* no module; the base of a class that names none

\* The statements at the top level of a module.
Statements == [kind : {"func"}, name : Name] \cup [kind : {"class"}, name : Name, base : Name \cup {Null}]
              \cup [kind : {"from"}, module : Module, name : Name] \cup [kind : {"star"}, module : Module]

ASSUME ProgramAssumption == \A p \in Programs : p \in [Module -> Seq(Statements)]
ASSUME OrderAssumption == \A o \in Orders : o \in Seq(Module)
ASSUME NullAssumption == Null \notin Module /\ "*" \notin Name
ASSUME DeferralBounds == IsFiniteSet(Module) /\ IsFiniteSet(Name) /\ MaxIterations \in Nat \ {0}

VARIABLES
  program,        \* the trees
  worklist, all_deferred, any_progress, final_iteration, iteration,
  incomplete_namespaces,
  target,         \* the module being analysed, or Null
  statement,      \* number of the statement to visit next
  names,          \* symbol tables
  infos,          \* class definitions that have a TypeInfo
  errors,         \* what was reported, where
  pass,           \* the analyzer's missing_names, deferred, incomplete and progress
  outcome         \* "analysing", "done" or "hung"

driver == <<worklist, all_deferred, any_progress, final_iteration, iteration, incomplete_namespaces>>
analyzer == <<names, infos, errors, pass>>
deferralVars == <<program, driver, target, statement, analyzer, outcome>>

Node(kind, at) == [kind |-> kind, at |-> at]
Nowhere == <<Null, 0>>
None == Node("none", Nowhere)
Placeholder == Node("placeholder", Nowhere)
TypePlaceholder == Node("type placeholder", Nowhere)
Placeholders == {Placeholder, TypePlaceholder}
Ready(node) == node # None /\ node \notin Placeholders
Here == <<target, statement>>
Visited == program[target][statement]

NewPass == [missing |-> {}, deferred |-> FALSE, incomplete |-> FALSE, progress |-> FALSE]

DeferralInit ==
  /\ program \in Programs
  /\ worklist \in Orders /\ ToSet(worklist) = {m \in Module : program[m] # <<>>} /\ all_deferred = <<>> /\ any_progress = FALSE
  /\ final_iteration = FALSE /\ iteration = 1
  /\ incomplete_namespaces = ToSet(worklist)
  /\ target = Null /\ statement = 0
  /\ names = [m \in Module |-> [x \in Name |-> None]]
  /\ infos = {} /\ errors = {} /\ pass = NewPass
  /\ outcome = "analysing"

-----------------------------------------------------------------------------
(* What a visit does to the analyzer, on records of its state.             *)

State == [names |-> names[target], infos |-> infos, errors |-> errors, pass |-> pass]
Fail(s, kind) == [s EXCEPT !.errors = @ \cup {<<kind, target, statement>>}]
Defer(s) == [s EXCEPT !.pass.deferred = TRUE]
ProcessPlaceholder(s) == IF final_iteration THEN Fail(s, "cyclic") ELSE Defer(s)

IsValidReplacement(old, new) ==
  old \in Placeholders /\ (new \in Placeholders => old = Placeholder /\ new = TypePlaceholder)

\* add_symbol_table_node: the first definition stays.
AddSymbol(s, x, node, canDefer) ==
  LET t == IF node \in Placeholders /\ canDefer THEN ProcessPlaceholder(s) ELSE s
      old == t.names[x]
  IN IF old # None /\ ~IsValidReplacement(old, node)
     THEN IF node \in Placeholders \cup {old} THEN t ELSE Fail(t, "defined")
     ELSE IF {x, "*"} \cap t.pass.missing = {}
          THEN [t EXCEPT !.names[x] = node, !.pass.progress = TRUE]
          ELSE t

\* Mutation of MarkIncomplete: what comes later in the file may take the name.
MarkIncompleteOnly(s, x, placeholder) ==
  LET t == Defer(s)
  IN IF x = "*" THEN [t EXCEPT !.pass.incomplete = TRUE] ELSE AddSymbol(t, x, placeholder, TRUE)

MarkIncomplete(s, x, placeholder) ==
  LET t == Defer(s)
      u == IF x = "*" THEN [t EXCEPT !.pass.incomplete = TRUE] ELSE AddSymbol(t, x, placeholder, TRUE)
  IN [u EXCEPT !.pass.missing = @ \cup {x}]

\* An import over a definition of the file is checked as an assignment.
AddImported(s, x, node) ==
  IF Ready(s.names[x]) /\ Ready(node) /\ node # s.names[x] THEN s ELSE AddSymbol(s, x, node, TRUE)

AddUnknown(s, x) ==
  IF s.names[x].kind = "unknown" THEN s ELSE AddSymbol(s, x, Node("unknown", Here), TRUE)

\* Mutation of ReportMissing: that the namespace may be incomplete is forgotten.
ReportMissingAtOnce(s, m, x) == AddUnknown(Fail(s, "attribute"), x)

ReportMissing(s, m, x) ==
  IF m \in incomplete_namespaces THEN MarkIncomplete(s, x, Placeholder) ELSE AddUnknown(Fail(s, "attribute"), x)

-----------------------------------------------------------------------------
(* The statements. *)

Visit(kind) == target # Null /\ statement \in DOMAIN program[target] /\ Visited.kind = kind

Becomes(s) ==
  /\ names' = [names EXCEPT ![target] = s.names]
  /\ infos' = s.infos /\ errors' = s.errors /\ pass' = s.pass
  /\ statement' = statement + 1
  /\ UNCHANGED <<program, driver, target, outcome>>

VisitFuncDef == Visit("func") /\ Becomes(AddSymbol(State, Visited.name, Node("func", Here), TRUE))

\* A base that is not ready defers the class; in the last iteration it becomes Any.
AnalyzeClass(s, x, base) ==
  LET t == IF Here \in s.infos THEN s ELSE AddSymbol(s, x, TypePlaceholder, FALSE)
      sym == IF base = Null THEN Node("class", Nowhere) ELSE t.names[base]
      missing == sym = None
      analyzed == IF missing THEN Fail(t, "undefined")
                  ELSE IF sym \in Placeholders THEN Fail(t, "cyclic")
                  ELSE IF sym.kind = "func" THEN Fail(t, "base") ELSE t
  IN IF ~final_iteration /\ (sym \in Placeholders \/ (missing /\ target \in incomplete_namespaces))
     THEN MarkIncomplete(t, x, Placeholder)
     ELSE AddSymbol([analyzed EXCEPT !.infos = @ \cup {Here}], x, Node("class", Here), TRUE)

VisitClassDef == Visit("class") /\ Becomes(AnalyzeClass(State, Visited.name, Visited.base))

VisitImportFrom ==
  /\ Visit("from")
  /\ LET x == Visited.name
         node == names[Visited.module][x]
     IN Becomes(IF node = None \/ (node \in Placeholders /\ final_iteration)
                THEN ReportMissing(State, Visited.module, x)
                ELSE IF node \in Placeholders
                THEN AddImported(MarkIncomplete(State, x, TypePlaceholder), x, node)
                ELSE AddImported(State, x, node))

ImportName(s, m, x) ==
  LET t == AddImported(s, x, names[m][x])
  IN IF names[m][x] \in Placeholders /\ final_iteration THEN AddUnknown(t, x) ELSE t

\* One name after the other; what is done for one does not matter to the others.
ImportAll(s, m) ==
  LET given == {x \in Name : names[m][x] # None}
      imported(x) == ImportName(s, m, x)
  IN [names  |-> [x \in Name |-> IF x \in given THEN imported(x).names[x] ELSE s.names[x]],
      infos  |-> s.infos,
      errors |-> s.errors \cup UNION {imported(x).errors : x \in given},
      pass   |-> [s.pass EXCEPT !.deferred = @ \/ \E x \in given : imported(x).pass.deferred,
                                !.progress = @ \/ \E x \in given : imported(x).pass.progress]]

VisitImportAll ==
  /\ Visit("star")
  /\ LET m == Visited.module
     IN Becomes(ImportAll(IF m \in incomplete_namespaces THEN MarkIncomplete(State, "*", None) ELSE State, m))

-----------------------------------------------------------------------------
(* process_top_levels *)

BeginTarget ==
  /\ outcome = "analysing" /\ target = Null /\ worklist # <<>>
  /\ target' = worklist[Len(worklist)] /\ worklist' = SubSeq(worklist, 1, Len(worklist) - 1)
  /\ statement' = 1 /\ pass' = NewPass
  /\ UNCHANGED <<program, all_deferred, any_progress, final_iteration, iteration, incomplete_namespaces,
                 names, infos, errors, outcome>>

EndTarget ==
  /\ target # Null /\ statement \notin DOMAIN program[target]
  /\ all_deferred' = IF pass.deferred THEN Append(all_deferred, target) ELSE all_deferred
  /\ any_progress' = (any_progress \/ pass.progress)
  /\ incomplete_namespaces' = IF pass.incomplete THEN incomplete_namespaces ELSE incomplete_namespaces \ {target}
  /\ target' = Null /\ statement' = 0 /\ pass' = NewPass
  /\ UNCHANGED <<program, worklist, final_iteration, iteration, names, infos, errors, outcome>>

\* Mutation of NextIteration: lack of progress is not recognized.
NextIterationAgain ==
  /\ outcome = "analysing" /\ target = Null /\ worklist = <<>> /\ all_deferred # <<>>
  /\ worklist' = Reverse(all_deferred) /\ all_deferred' = <<>>
  /\ any_progress' = FALSE
  /\ IF iteration < MaxIterations THEN iteration' = iteration + 1 /\ UNCHANGED outcome
     ELSE outcome' = "hung" /\ UNCHANGED iteration
  /\ UNCHANGED <<program, incomplete_namespaces, final_iteration, target, statement, analyzer>>

NextIteration ==
  /\ outcome = "analysing" /\ target = Null /\ worklist = <<>> /\ all_deferred # <<>>
  /\ worklist' = Reverse(all_deferred) /\ all_deferred' = <<>>
  /\ final_iteration' = ~any_progress /\ any_progress' = FALSE
  /\ incomplete_namespaces' = IF any_progress THEN incomplete_namespaces ELSE {}
  /\ IF iteration < MaxIterations THEN iteration' = iteration + 1 /\ UNCHANGED outcome
     ELSE outcome' = "hung" /\ UNCHANGED iteration
  /\ UNCHANGED <<program, target, statement, analyzer>>

Finish ==
  /\ outcome = "analysing" /\ target = Null /\ worklist = <<>> /\ all_deferred = <<>>
  /\ outcome' = "done"
  /\ UNCHANGED <<program, driver, target, statement, analyzer>>

DeferralNext ==
  \/ VisitFuncDef \/ VisitClassDef \/ VisitImportFrom \/ VisitImportAll
  \/ BeginTarget \/ EndTarget \/ NextIteration \/ Finish

DeferralSpec == DeferralInit /\ [][DeferralNext]_deferralVars

-----------------------------------------------------------------------------
(* What the names of a program mean, whatever the order of analysis.       *)

Steps == 0..(Cardinality(Module) * Cardinality(Name))
Binds(st, x) == st.kind # "star" /\ st.name = x

\* The names each module has in the end: the least solution.
Names ==
  LET has[k \in Steps] ==
        [m \in Module |-> IF k = 0 THEN {} ELSE
           {x \in Name : \E i \in DOMAIN program[m] :
              LET st == program[m][i]
              IN Binds(st, x) \/ (st.kind = "star" /\ x \in has[k - 1][st.module])}]
  IN has[Cardinality(Module) * Cardinality(Name)]

\* The number of the first statement of m that gives it the name x
First(m, x, has) ==
  CHOOSE i \in DOMAIN program[m] :
    LET gives(j) == Binds(program[m][j], x) \/ (program[m][j].kind = "star" /\ x \in has[program[m][j].module])
    IN gives(i) /\ \A j \in 1..(i - 1) : ~gives(j)

\* The meaning of every name; None for those that only depend on themselves.
Meaning ==
  LET has == Names
      of[k \in Steps] ==
        [m \in Module |-> [x \in Name |->
          IF k = 0 \/ x \notin has[m] THEN None ELSE
          LET i == First(m, x, has)
              st == program[m][i]
          IN CASE st.kind = "func" -> Node("func", <<m, i>>)
               [] st.kind = "class" -> IF st.base \in has[m] /\ of[k - 1][m][st.base] = None
                                       THEN None ELSE Node("class", <<m, i>>)
               [] st.kind = "from" /\ x \notin has[st.module] -> Node("unknown", <<m, i>>)
               [] OTHER -> of[k - 1][st.module][x]]]
  IN of[Cardinality(Module) * Cardinality(Name)]

\* A star import of a module that has one itself
StarChain ==
  \E m \in Module : \E i \in DOMAIN program[m] :
    /\ program[m][i].kind = "star"
    /\ \E j \in DOMAIN program[program[m][i].module] : program[program[m][i].module][j].kind = "star"

\* Something that gives a name again that a star import brings first, from another module
Redefines(m) ==
  \E i, j \in DOMAIN program[m] :
    LET from == program[m][i]
        st == program[m][j]
    IN /\ i < j /\ from.kind = "star"
       /\ \E x \in Names[from.module] :
            /\ First(m, x, Names) = i
            /\ Binds(st, x) \/ (st.kind = "star" /\ st.module # from.module /\ x \in Names[st.module])

Settled == outcome = "done" /\ ~StarChain /\ \A m \in Module : ~Redefines(m)

Unavailable(m, i) == program[m][i].kind = "from" /\ program[m][i].name \notin Names[program[m][i].module]

\* What has to be reported of a statement, in a program without cyclic definitions
Wrong(m, i) ==
  LET st == program[m][i]
      again == st.kind # "star" /\ First(m, st.name, Names) # i
      replaces == again /\ (st.kind # "from" \/ (Unavailable(m, i) /\ Meaning[m][st.name].kind # "unknown"))
      base == IF st.kind # "class" \/ st.base = Null THEN "none"
              ELSE IF st.base \notin Names[m] THEN "undefined"
              ELSE IF Meaning[m][st.base].kind = "func" THEN "base" ELSE "none"
  IN {<<k, m, i>> : k \in {IF replaces THEN "defined" ELSE "none", base,
                            IF Unavailable(m, i) THEN "attribute" ELSE "none"} \ {"none"}}
Mistakes == UNION {UNION {Wrong(m, i) : i \in DOMAIN program[m]} : m \in Module}
Cyclic == \E m \in Module : \E x \in Names[m] : Meaning[m][x] = None

-----------------------------------------------------------------------------
(* Properties. *)

\* Every variable keeps its type.
Place == Module \X Nat
Symbol == {None, Placeholder, TypePlaceholder} \cup [kind : {"func", "class", "unknown"}, at : Place]
Pass == [missing : SUBSET (Name \cup {"*"}), deferred : BOOLEAN, incomplete : BOOLEAN, progress : BOOLEAN]
Report == {"cyclic", "defined", "attribute", "undefined", "base"} \X Module \X Nat
DeferralTypeOK ==
  /\ program \in [Module -> Seq(Statements)] /\ outcome \in {"analysing", "done", "hung"}
  /\ worklist \in Seq(Module) /\ all_deferred \in Seq(Module) /\ incomplete_namespaces \subseteq Module
  /\ iteration \in 1..MaxIterations /\ final_iteration \in BOOLEAN /\ any_progress \in BOOLEAN
  /\ target \in Module \cup {Null} /\ statement \in Nat /\ pass \in Pass
  /\ names \in [Module -> [Name -> Symbol]] /\ infos \subseteq Place /\ errors \subseteq Report

\* Once the modules of a cycle are analysed, every name that means something is
\* bound to what it means, the first definition in the file, in whatever order the
\* modules were taken and however often they were deferred.  A star import of a module
\* that has one itself, and a name that a star import brings first and something else gives
\* again, another star import for instance, are the exceptions: a placeholder that a star
\* import has brought gives way to what comes next.
NamesAsMeant ==
  Settled => \A m \in Module : \A x \in Name :
    Meaning[m][x] # None => names[m][x] = Meaning[m][x]

\* A program without a mistake gets no error from a name that was only not known
\* yet, and each mistake is reported, in the last iteration at the latest.
ErrorsAsMeant ==
  Settled => IF Mistakes = {} /\ ~Cyclic THEN errors = {} ELSE errors # {} /\ Mistakes \subseteq errors

\* "Give up. It's impossible to bind all names": a program in which all names can
\* be bound gets no report of a cyclic definition, whatever its star imports.
CyclesAreReal ==
  outcome = "done" /\ Mistakes = {} /\ ~Cyclic => \A e \in errors : e[1] # "cyclic"

\* How far a symbol has come; every step is progress, and there are three at most.
Strength(node) ==
  CASE node = None -> 0 [] node = Placeholder -> 1 [] node = TypePlaceholder -> 2 [] OTHER -> 3
Gains == {g \in Module \X Name \X (1..3) : g[3] <= Strength(names[g[1]][g[2]])}

\* The loop ends by itself: nothing is deferred in the final iteration ("Must not
\* defer during final iteration"), each of the others but one has bound a name or
\* come nearer to it, so that MAX_ITERATIONS is only reached by as many names, and
\* when it has ended no placeholder is left.
NothingDeferred == final_iteration => ~pass.deferred /\ all_deferred = <<>>
EveryRoundGains == iteration + (IF outcome = "hung" THEN 1 ELSE 0) <= Cardinality(Gains) + 2
NothingLeftOpen == outcome = "done" => \A m \in Module : \A x \in Name : names[m][x] \notin Placeholders
DeferralEnds == NothingDeferred /\ EveryRoundGains /\ NothingLeftOpen
=============================================================================
