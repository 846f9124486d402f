------------------------------- MODULE Binder --------------------------------
(***************************************************************************)
(* How the type checker narrows the types of variables along the control   *)
(* flow of a function: ConditionalTypeBinder keeps a stack of frames, and  *)
(* for each frame but the last the states in which control may return to   *)
(* it; the visits of statements push and pop frames.                       *)
(*                                                                         *)
(* A class stands for a type, a set of classes for their union.  An        *)
(* expression (a key) is a variable or an attribute; assigning to one may   *)
(* give others a new value.                                                *)
(***************************************************************************)
EXTENDS Naturals, SequencesExt, Statements

CONSTANTS
  Key,          \* the variables and attributes that are narrowed
  Class,        \* the classes of their values
  Declared,     \* their declared types
  Attributes,   \* for each key the keys that start with it
  Functions     \* function bodies to check

VARIABLES
  function,     \* its body, a sequence of statements
  types,        \* for each statement, what the types were when it was visited
  checked       \* whether it has been checked

vars == <<function, types, checked>>

-----------------------------------------------------------------------------
(* The binder: frames and options_on_return, the levels of the frames that *)
(* break, continue and exceptions go to, and what has been seen so far.    *)

Unknown == [type |-> {}, assigned |-> FALSE]
EmptyFrame == [types |-> [k \in Key |-> Unknown], unreachable |-> FALSE]
Top(b) == b.frames[Len(b.frames)]

\* _get, on the frames up to level i
Known(b, k, i) ==
  LET levels == {j \in 1..i : b.frames[j].types[k] # Unknown}
  IN IF levels = {} THEN Unknown ELSE b.frames[Max(levels)].types[k]
TypeOf(b, k) ==
  LET known == Known(b, k, Len(b.frames)) IN IF known = Unknown THEN Declared[k] ELSE known.type

Unreachable(b) == [b EXCEPT !.frames[Len(b.frames)].unreachable = TRUE]
IsUnreachable(b) == \E i \in DOMAIN b.frames : b.frames[i].unreachable

Put(b, k, type, assigned) ==
  [b EXCEPT !.frames[Len(b.frames)].types[k] = [type |-> type, assigned |-> assigned]]

\* allow_jump: control may go from here to the frame at level i.
AllowJump(b, i) ==
  LET above == (i + 1)..Len(b.frames)
      last(k) == {j \in above : b.frames[j].types[k] # Unknown}
  IN [b EXCEPT !.options[i] = Append(@,
       [types |-> [k \in Key |-> IF last(k) = {} THEN Unknown ELSE b.frames[Max(last(k))].types[k]],
        unreachable |-> \E j \in above : b.frames[j].unreachable])]

\* Mutation of AssignType: an exception between two assignments is forgotten.
AssignTypeQuietly(b, k, type) ==
  LET forget(f) == [f EXCEPT !.types = [a \in Key |-> IF a \in Attributes[k] THEN Unknown ELSE @[a]]]
      invalidated == [b EXCEPT !.frames = [i \in DOMAIN @ |-> forget(@[i])]]
  IN Put(invalidated, k, type, TRUE)

\* assign_type: what starts with k is forgotten, and an exception may follow.
AssignType(b, k, type) ==
  LET forget(f) == [f EXCEPT !.types = [a \in Key |-> IF a \in Attributes[k] THEN Unknown ELSE @[a]]]
      invalidated == [b EXCEPT !.frames = [i \in DOMAIN @ |-> forget(@[i])]]
  IN FoldSet(LAMBDA i, s : AllowJump(s, i), Put(invalidated, k, type, TRUE), b.tries)

\* What update_from_options makes of k, given the states control may come from;
\* Unknown when the frame is left as it is.
Merged(k, current, options, allReachable) ==
  LET values == {IF o.types[k] = Unknown THEN current ELSE o.types[k] : o \in options}
  IN IF \/ \A o \in options : o.types[k] = Unknown
        \/ Unknown \in values
        \/ allReachable /\ \A v \in values : ~v.assigned
     THEN Unknown ELSE [type |-> UNION {v.type : v \in values}, assigned |-> TRUE]

\* A key that was not known counts as changed if it is an attribute, whose
\* declaration the binder does not know, or differs from its declaration.
UpdateFromOptions(b, options) ==
  LET reachable == {o \in ToSet(options) : ~o.unreachable}
      current(k) == Known(b, k, Len(b.frames))
      new == [k \in Key |-> Merged(k, current(k), reachable, reachable = ToSet(options))]
      updated == {k \in Key : new[k] # Unknown /\ new[k].type # current(k).type}
      isAttribute(k) == \E o \in Key : k \in Attributes[o]
  IN [b EXCEPT
       !.frames[Len(b.frames)] =
         [types |-> [k \in Key |-> IF k \in updated THEN new[k] ELSE @.types[k]],
          unreachable |-> reachable = {}],
       !.changed = \E k \in updated :
         current(k) # Unknown \/ isAttribute(k) \/ new[k].type # Declared[k]]

PushFrame(b) == [b EXCEPT !.frames = Append(@, EmptyFrame), !.options = Append(@, <<>>)]

PopFrame(b, canSkip, fallThrough) ==
  LET n == Len(b.frames)
      jumped == IF fallThrough > 0 THEN AllowJump(b, n - fallThrough) ELSE b
      popped == [jumped EXCEPT !.frames = Front(@), !.options = Front(@)]
      options == jumped.options[n - 1]
  IN UpdateFromOptions(popped, IF canSkip THEN <<Top(popped)>> \o options ELSE options)

(***************************************************************************)
(* frame_context(): Visit(_) is done in a frame of its own.                *)
(***************************************************************************)
Within(b, canSkip, fallThrough, Visit(_)) == PopFrame(Visit(PushFrame(b)), canSkip, fallThrough)

\* with try_frame: an exception may occur immediately, and after any assignment.
WithinTry(b, canSkip, fallThrough, Visit(_)) ==
  LET n == Len(b.frames)
      pushed == PushFrame([b EXCEPT !.tries = @ \cup {n}])
  IN [PopFrame(Visit(AllowJump(pushed, n)), canSkip, fallThrough) EXCEPT !.tries = b.tries]

\* with break_frame = 2, continue_frame = 1
WithinLoop(b, Visit(_)) ==
  LET n == Len(b.frames)
  IN [Within([b EXCEPT !.breaks = Append(@, n - 1), !.continues = Append(@, n)], TRUE, 1, Visit)
        EXCEPT !.breaks = b.breaks, !.continues = b.continues]

-----------------------------------------------------------------------------
(* The visits of the checker, in a binder b, of statements at a place `at`. *)

\* find_isinstance_check and push_type_map: the type where the condition holds, or
\* does not; `from` is the type the expression had when it was visited.  Nothing is
\* learnt of what can only be of one class.
Narrow(b, test, from, holds, assigned) ==
  LET narrowed == IF holds THEN from \cap {test.class} ELSE from \ {test.class}
  IN CASE test.kind = "isinstance" /\ narrowed # {} /\ Cardinality(from) > 1 -> Put(b, test.key, narrowed, assigned)
       [] test.kind = "isinstance" /\ narrowed = {} -> Unreachable(b)
       [] test.kind = "true" /\ ~holds -> Unreachable(b)
       [] OTHER -> b
TestedType(b, test) == IF test.kind = "isinstance" THEN TypeOf(b, test.key) ELSE {}

RECURSIVE Accept(_, _, _), AcceptAll(_, _, _, _), Iterate(_, _, _, _)

\* visit_block: nothing is visited after the point where the rest is unreachable.
AcceptAll(b, stmts, at, i) ==
  IF i > Len(stmts) \/ IsUnreachable(b) THEN b
  ELSE AcceptAll(Accept(b, stmts[i], Append(at, i)), stmts, at, i + 1)
Block(b, stmts, at) == AcceptAll(b, stmts, at, 1)

VisitIf(b, test, then, else, at) ==
  Within(b, FALSE, 0, LAMBDA c :
    LET from == TestedType(c, test)
        taken == Within(c, TRUE, 2, LAMBDA d : Block(Narrow(d, test, from, TRUE, FALSE), then, Append(at, 1)))
    IN Within(Narrow([taken EXCEPT !.tested = from], test, from, FALSE, FALSE), FALSE, 2,
              LAMBDA d : Block(d, else, Append(at, 2))))

\* The body of a loop; a while statement is checked as an if statement in a loop.
VisitRound(b, s, at) ==
  IF s.kind = "for" THEN Block(b, s.body, Append(at, 1)) ELSE VisitIf(b, s.test, s.body, <<>>, at)

\* accept_loop: the body again while its types change, at most four times
Iterate(b, s, at, n) ==
  LET c == WithinLoop(b, LAMBDA d : VisitRound(d, s, at))
  IN IF c.changed /\ n <= 3 THEN Iterate(c, s, at, n + 1) ELSE c

VisitLoop(b, s, at) ==
  Within(b, FALSE, 1, LAMBDA c :
    LET looped == Iterate(c, s, at, 1)
        left == IF s.kind = "for" THEN looped ELSE Narrow(looped, s.test, looped.tested, FALSE, TRUE)
    IN Block(left, s.orelse, Append(at, 2)))

VisitTryWithoutFinally(b, s, at) ==
  LET handler(c, i) == Within(c, TRUE, 4, LAMBDA d : Block(d, s.handlers[i], at \o <<2, i>>))
      handled(c) == FoldLeftDomain(LAMBDA d, i : handler(d, i), c, s.handlers)
      Visit(c) ==
        Block(Within(c, FALSE, 2, LAMBDA d :
                handled(WithinTry(d, FALSE, 2, LAMBDA e : Block(e, s.body, Append(at, 1))))),
              s.orelse, Append(at, 3))
  IN IF s.finally = <<>> THEN Within(b, FALSE, 2, Visit) ELSE WithinTry(b, FALSE, 2, Visit)

\* The finally clause is checked twice: for every way out of the rest, and for those
\* that go on behind the statement.
VisitTry(b, s, at) ==
  LET c == Within(b, FALSE, 0, LAMBDA d :
             Block(VisitTryWithoutFinally(d, s, at), s.finally, Append(at, 4)))
  IN Block(c, s.finally, Append(at, 4))

\* An exception in a with statement may be swallowed.
VisitWith(b, s, at) == WithinTry(b, TRUE, 1, LAMBDA c : Block(c, s.body, Append(at, 1)))

Accept(b, s, at) ==
  LET c == [b EXCEPT !.seen = @ \cup {[at |-> at, types |-> [k \in Key |-> TypeOf(b, k)]]}]
  IN CASE s.kind = "assign"   -> AssignType(c, s.key, {s.class})
       [] s.kind = "copy"     -> AssignType(c, s.key, TypeOf(c, s.from))
       [] s.kind = "break"    -> Unreachable(AllowJump(c, Last(c.breaks)))
       [] s.kind = "continue" -> Unreachable(AllowJump(c, Last(c.continues)))
       [] s.kind \in {"raise", "return"} -> Unreachable(c)
       [] s.kind = "if"       -> VisitIf(c, s.test, s.body, s.orelse, at)
       [] s.kind \in {"while", "for"} -> VisitLoop(c, s, at)
       [] s.kind = "try"      -> VisitTry(c, s, at)
       [] s.kind = "with"     -> VisitWith(c, s, at)
       [] OTHER               -> c

Start ==
  [frames |-> <<EmptyFrame, EmptyFrame>>, options |-> <<<<>>>>, tries |-> {}, breaks |-> <<>>,
   continues |-> <<>>, changed |-> FALSE, tested |-> {}, seen |-> {}]

Init == function \in Functions /\ types = {} /\ checked = FALSE

CheckFunction ==
  /\ ~checked /\ checked' = TRUE
  /\ types' = Block(Start, function, <<>>).seen
  /\ UNCHANGED function

Next == CheckFunction
Spec == Init /\ [][Next]_vars

-----------------------------------------------------------------------------
(* What happens when the function runs: where the values V may get to.     *)

Value == {v \in [Key -> Class] : \A k \in Key : v[k] \in Declared[k]}
Ways == {"next", "break", "continue", "return", "raise"}
Nowhere == [w \in Ways \cup {"seen"} |-> {}]
And(o, p) == [w \in DOMAIN o |-> o[w] \cup p[w]]
To(way, V) == [Nowhere EXCEPT ![way] = V]
Without(o, way) == [o EXCEPT ![way] = {}]

Holding(V, test, holds) ==
  CASE test.kind = "isinstance" -> {v \in V : (v[test.key] = test.class) = holds}
    [] test.kind = "true" -> IF holds THEN V ELSE {}
    [] OTHER -> V

\* A new value has attributes of any value.
Assigned(v, k, c) == {w \in Value : w[k] = c /\ \A o \in Key \ ({k} \cup Attributes[k]) : w[o] = v[o]}

RECURSIVE Run(_, _, _), RunAll(_, _, _, _), Rounds(_, _, _, _)

RunAll(V, stmts, at, i) ==
  IF i > Len(stmts) THEN To("next", V)
  ELSE LET o == Run(V, stmts[i], Append(at, i)) IN And(Without(o, "next"), RunAll(o["next"], stmts, at, i + 1))
RunBlock(V, stmts, at) == RunAll(V, stmts, at, 1)

\* All rounds of a loop; "next" are the values at its head.
Rounds(V, test, stmts, at) ==
  LET o == RunBlock(Holding(V, test, TRUE), stmts, at)
      heads == V \cup o["next"] \cup o["continue"]
  IN IF heads = V THEN [o EXCEPT !["next"] = V, !["continue"] = {}] ELSE Rounds(heads, test, stmts, at)

RunLoop(V, test, s, at) ==
  LET o == Rounds(V, test, s.body, Append(at, 1))
      else == RunBlock(Holding(o["next"], test, FALSE), s.orelse, Append(at, 2))
  IN And([o EXCEPT !["next"] = o["break"], !["break"] = {}], else)

\* Any handler may catch an exception, or none of them.
RunTry(V, s, at) ==
  LET o == RunBlock(V, s.body, Append(at, 1))
      else == RunBlock(o["next"], s.orelse, Append(at, 3))
      handlers == {RunBlock(o["raise"], s.handlers[i], at \o <<2, i>>) : i \in DOMAIN s.handlers}
  IN FoldSet(And, And(Without(o, "next"), else), handlers)

RunFinally(o, finally, at) ==
  LET after(w) == LET p == RunBlock(o[w], finally, at) IN And(Without(p, "next"), To(w, p["next"]))
  IN FoldSet(LAMBDA w, p : And(p, after(w)), To("seen", o["seen"]), Ways)

\* An exception may occur before every statement.
Run(V, s, at) ==
  LET here == And(To("seen", {[at |-> at, value |-> v] : v \in V}), To("raise", V))
      o == CASE s.kind = "assign" -> To("next", UNION {Assigned(v, s.key, s.class) : v \in V})
             [] s.kind = "copy"  -> To("next", UNION {Assigned(v, s.key, v[s.from]) : v \in V})
             [] s.kind \in Ways  -> To(s.kind, V)
             [] s.kind = "if"    -> And(RunBlock(Holding(V, s.test, TRUE), s.body, Append(at, 1)),
                                        RunBlock(Holding(V, s.test, FALSE), s.orelse, Append(at, 2)))
             [] s.kind = "while" -> RunLoop(V, s.test, s, at)
             [] s.kind = "for"   -> RunLoop(V, Maybe, s, at)
             [] s.kind = "try"   -> RunFinally(RunTry(V, s, at), s.finally, Append(at, 4))
             [] s.kind = "with"  -> LET p == RunBlock(V, s.body, Append(at, 1)) IN And(p, To("next", p["raise"]))
             [] OTHER            -> To("next", V)
  IN And(here, o)

-----------------------------------------------------------------------------
(* Properties. *)

\* Wherever the function gets to when it runs, the statement there has been checked
\* (it is not taken for unreachable), and with types that its values have.
NarrowingIsSound ==
  checked =>
    \A r \in RunBlock(Value, function, <<>>)["seen"] :
      \E t \in types : t.at = r.at /\ \A k \in Key : r.value[k] \in t.types[k]
=============================================================================
