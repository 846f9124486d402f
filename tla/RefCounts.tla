----------------------------- MODULE RefCounts ------------------------------
(***************************************************************************)
(* How mypyc makes a function manage its references (src/mypyc/transform): *)
(* checks for variables without a value, jumps for errors and, from what   *)
(* the data-flow analyses say, increments and decrements of reference      *)
(* counts.  Then the function that came out of it is run once.             *)
(*                                                                         *)
(* Loading an error value is one operation with the assignment, or the     *)
(* return, of that value.  The order of the new blocks, and of decrements  *)
(* that follow each other, is left open.                                   *)
(***************************************************************************)
EXTENDS DataFlow, FiniteSetsExt, TLC

CONSTANTS
  Functions,   \* the bodies of the functions to compile, as they are built
  Arg,         \* the register of the argument
  Named,       \* the registers that are variables of the source, Arg among them
  Unnamed,     \* other registers
  MaxObjects   \* bound: objects told apart at a time, besides their attributes

Register == Named \cup Unnamed

VARIABLES
  phase,  \* what comes next: "uninit", "exceptions", "refcount", "run", or nothing: "returned"
  ir,     \* the body of the function
  at,     \* the block and the position of the next operation
  value,  \* what registers and results hold
  held    \* how many references to each object belong to this call

vars == <<phase, ir, at, value, held>>

-----------------------------------------------------------------------------
(* Changing the code. *)

Block(ops, handler) == [ops |-> ops, handler |-> handler]
Blocks(code) == SelectSeq([b \in 1 .. Max(DOMAIN code) |-> b], LAMBDA b : b \in DOMAIN code)
Positions(s) == [i \in 1 .. Len(s) |-> i]
NewId(code) == Max(DOMAIN code) + 1
Results(code, kinds) == {o.dest : o \in {p \in Operations(code) : p.op \in kinds}}

\* Build a body anew: every operation of every block is emitted in turn into the
\* current block, which Visit may end to go on in another one.
Rebuild(code, start, Visit(_, _, _)) ==
  LET Enter(acc, b) == [acc EXCEPT !.cur = b, !.ir[b].ops = <<>>]
      Walk(acc, b) == FoldLeft(LAMBDA a, i : Visit(a, b, i), Enter(acc, b), Positions(code[b].ops))
  IN  FoldLeft(Walk, start, Blocks(code))
Emit(acc, o) == [acc EXCEPT !.ir[acc.cur].ops = Append(@, o)]
GoOnIn(acc, b, handler) == [acc EXCEPT !.cur = b, !.ir = (b :> Block(<<>>, handler)) @@ @]

-----------------------------------------------------------------------------
(* insert_uninit_checks() *)

\* The registers that an operation reads and that may be without a value.
Unchecked(o, defined) ==
  IF o.op = "branch" /\ o.on = "error" THEN {} ELSE {v \in ToSet(o.src) : v \in Register} \ defined

CheckOf(acc, x) ==
  LET e == NewId(acc.ir)
      h == acc.ir[acc.cur].handler
      raise == [Op("raise", "raise " \o x, <<>>) EXCEPT !.err = "false"]
      noted == [acc EXCEPT !.init = @ \cup {x}]
      branched == [Emit(noted, Branch(x, "error", e, e + 1))
                   EXCEPT !.ir = (e :> Block(<<raise, Op("unreachable", Void, <<>>)>>, h)) @@ @]
  IN  IF x \in Named THEN GoOnIn(branched, e + 1, h) ELSE noted

WithUninitChecks(code) ==
  LET defined == MustDefined(code, {Arg}, FALSE).before
      Visit(acc, b, i) ==
        LET o == code[b].ops[i]
        IN  Emit(FoldSet(LAMBDA x, a : CheckOf(a, x), acc, Unchecked(o, defined[b][i])), o)
      built == Rebuild(code, [ir |-> code, cur |-> 1, init |-> {}], Visit)
      undefined == FoldSet(LAMBDA x, s : Append(s, Op("undefine", x, <<>>)), <<>>, built.init)
  IN  [built.ir EXCEPT ![1].ops = undefined \o @]

-----------------------------------------------------------------------------
(* insert_exception_handling() *)

ReturnError == Op("return", Void, <<>>)

WithErrorBranches(code) ==
  LET default == NewId(code)
      Raising(b) == \E i \in DOMAIN code[b].ops : code[b].ops[i].err # "never"
      all == [b \in DOMAIN code |-> Block(code[b].ops, 0)] @@ (default :> Block(<<ReturnError>>, 0))
      Visit(acc, b, i) ==
        LET o == all[b].ops[i]
            handler == IF b = default \/ code[b].handler = 0 THEN default ELSE code[b].handler
            on == IF o.err = "magic" THEN "error" ELSE "false"
            next == NewId(acc.ir)
        IN  IF o.err = "never" THEN Emit(acc, o)
            ELSE GoOnIn(Emit(Emit(acc, o), Branch(o.dest, on, handler, next)), next, 0)
  IN  IF \E b \in DOMAIN code : Raising(b) THEN Rebuild(all, [ir |-> all, cur |-> 1], Visit).ir ELSE code

-----------------------------------------------------------------------------
(* insert_ref_count_opcodes() *)

Lent(code) == {Arg} \cup Results(code, {"borrow_attr"})

\* What the analyses say of the code, the values that are counted, and those that
\* may be null.
Flow(code) ==
  [live |-> Live(code), borrow |-> BorrowedValues(code, Lent(code)), defined |-> MustDefined(code, {Arg}, TRUE),
   lent |-> Lent(code), nullable |-> Results(code, {"next"}),
   counted |-> Register \cup Results(code, {"call", "next", "tuple", "borrow_attr", "unborrow"})]

MaybeUndefined(flow, v, b, i) == v \in (Register \ flow.defined.after[b][i]) \cup flow.nullable
DecRefs(flow, S, b, i) ==
  LET s == SetToSeq(S \cap flow.counted) IN [j \in DOMAIN s |-> DecRef(s[j], MaybeUndefined(flow, s[j], b, i))]
IncRefs(flow, S) == LET s == SetToSeq(S \cap flow.counted) IN [j \in DOMAIN s |-> IncRef(s[j])]

\* transform_block(): what comes before and after operation o at position i of block b.
BeforeOp(flow, o, b, i) ==
  LET stays(j) == o.stolen[j] \in flow.live.after[b][i] \cup flow.borrow.before[b][i]
                                  \cup {o.stolen[k] : k \in 1 .. j - 1}
      overwritten == {o.dest} \cap (flow.live.before[b][i] \ flow.borrow.before[b][i])
      for(j) == IF stays(j) THEN IncRefs(flow, {o.stolen[j]}) \o DecRefs(flow, overwritten, b, i) ELSE <<>>
  IN  FlattenSeq([j \in DOMAIN o.stolen |-> for(j)])

AfterOp(flow, o, b, i) ==
  LET sources == ToSet(o.src) \ (flow.live.after[b][i] \cup flow.borrow.before[b][i] \cup ToSet(o.stolen))
      result == {o.dest} \ (flow.live.after[b][i] \cup (IF Assigns(o) THEN {} ELSE flow.lent))
  IN  IF IsControl(o) THEN <<>> ELSE DecRefs(flow, sources, b, i) \o DecRefs(flow, result, b, i)

TransformBlock(flow, ops, b) ==
  LET itself(o) == IF o.op = "keep_alive" THEN <<>> ELSE <<o>>
  IN  Block(FlattenSeq([i \in DOMAIN ops |->
              BeforeOp(flow, ops[i], b, i) \o itself(ops[i]) \o AfterOp(flow, ops[i], b, i)]), 0)

\* insert_branch_inc_and_decrefs(): what comes on the way from the last operation of
\* b, o at position n, to its i-th target t; a branch on an error omits what is one.
OnTheWay(flow, o, b, n, i, t) ==
  LET omitted == IF o.op = "branch" /\ o.on = "error" /\ i = 1 THEN ToSet(o.src) ELSE {}
      dead == (flow.live.before[b][n] \ flow.live.before[t][1]) \ (flow.borrow.after[b][n] \cup omitted)
      unborrowed == (flow.borrow.after[b][n] \ flow.borrow.before[t][1]) \cap flow.live.before[t][1]
  IN  DecRefs(flow, dead, b, n) \o IncRefs(flow, unborrowed)

\* add_block(): one block for all the ways that need the same.
AddBlock(acc, extra, code, b, i) ==
  LET new == Block(Append(extra, Goto(Last(code[b].ops).targets[i])), 0)
      same == {c \in DOMAIN acc \ DOMAIN code : acc[c] = new}
      c == IF same = {} THEN NewId(acc) ELSE CHOOSE c \in same : TRUE
  IN  IF extra = <<>> THEN acc ELSE (c :> new) @@ [acc EXCEPT ![b].ops[Len(acc[b].ops)].targets[i] = c]

WithRefCounts(code) ==
  LET flow == Flow(code)
      transformed == [b \in DOMAIN code |-> TransformBlock(flow, code[b].ops, b)]
      Way(acc, b, i) ==
        LET o == Last(code[b].ops)
        IN  AddBlock(acc, OnTheWay(flow, o, b, Len(code[b].ops), i, o.targets[i]), code, b, i)
      Ways(acc, b) == FoldLeft(LAMBDA a, i : Way(a, b, i), acc, Positions(Last(code[b].ops).targets))
  IN  Cleanup(FoldLeft(Ways, transformed, Blocks(code)))

-----------------------------------------------------------------------------
(* The passes, in the order of compile_scc_to_ir(). *)

Idle == UNCHANGED <<at, value, held>>

Init == /\ ir \in Functions /\ phase = "uninit"
        /\ at = <<1, 1>> /\ value = << >> /\ held = << >>

InsertUninitChecks ==
  /\ phase = "uninit" /\ phase' = "exceptions"
  /\ ir' = WithUninitChecks(Cleanup(ir)) /\ Idle

InsertExceptionHandling ==
  /\ phase = "exceptions" /\ phase' = "refcount"
  /\ ir' = WithErrorBranches(ir) /\ Idle

-----------------------------------------------------------------------------
(* Running the function. *)

\* A value is no object (also: false), true, what happens to be in the memory of a
\* variable, or an object.  Object 1 is the caller's; each has an attribute.
Null == 0
True == -1
Garbage == -2
IsObject(o) == o > 0
Attribute(o) == IF o > MaxObjects THEN o ELSE o + MaxObjects

InsertRefCounts ==
  /\ phase = "refcount" /\ phase' = "run"
  /\ ir' = WithRefCounts(ir)
  /\ value' = [v \in AllValues(ir, Register) |-> IF v = Arg THEN 1 ELSE Garbage]
  /\ held' = [o \in 1 .. 2 * MaxObjects |-> 0]
  /\ UNCHANGED at

Here == ir[at[1]].ops[at[2]]
Do(kinds) == /\ phase = "run" /\ Here.op \in kinds
             /\ UNCHANGED <<phase, ir>>
GoOn == at' = <<at[1], at[2] + 1>>
GoTo(b) == at' = <<b, 1>>

\* The references that an operation takes over from the call.
Stolen(o, obj) == Cardinality({i \in DOMAIN o.stolen : value[o.stolen[i]] = obj})
Without(o) == [obj \in DOMAIN held |-> held[obj] - Stolen(o, obj)]

\* An object that nothing refers to.
Unused == CHOOSE o \in 2 .. MaxObjects : /\ held[o] = 0 /\ held[Attribute(o)] = 0
                                         /\ \A v \in DOMAIN value : value[v] \notin {o, Attribute(o)}

Sets(v) == value' = [value EXCEPT ![Here.dest] = v]

\* An operation with a new object as its result.
Create ==
  /\ Do({"call", "next", "tuple"}) /\ GoOn
  /\ Sets(Unused) /\ held' = [Without(Here) EXCEPT ![Unused] = 1]

\* An operation that fails, or an iterator at its end.
Fail ==
  /\ Do({"call", "next", "set_attr", "check", "raise"})
  /\ Here.op = "call" => Here.err # "never"
  /\ GoOn /\ Sets(Null) /\ held' = Without(Here)

\* An operation with a truth value as its result, or that only may fail.
Succeed ==
  /\ Do({"set_attr", "check"}) /\ GoOn
  /\ Sets(True) /\ held' = Without(Here)

BorrowAttr ==
  /\ Do({"borrow_attr"}) /\ GoOn
  /\ Sets(Attribute(value[Here.src[1]])) /\ UNCHANGED held

\* The reference that a tuple, kept alive and stolen before, had to its item.
Unborrow ==
  /\ Do({"unborrow"}) /\ GoOn
  /\ LET item == value[Here.src[1]]
     IN  Sets(item) /\ held' = [held EXCEPT ![item - MaxObjects] = @ - 1, ![item] = @ + 1]

Store ==
  /\ Do({"assign"}) /\ GoOn
  /\ Sets(value[Here.src[1]]) /\ UNCHANGED held

StoreError ==
  /\ Do({"undefine", "load_error"}) /\ GoOn
  /\ Sets(Null) /\ UNCHANGED held

Count ==
  /\ Do({"inc_ref", "dec_ref", "xdec_ref"}) /\ GoOn
  /\ LET obj == value[Here.src[1]]
         change == IF Here.op = "inc_ref" THEN 1 ELSE -1
     IN  held' = IF IsObject(obj) THEN [held EXCEPT ![obj] = @ + change] ELSE held
  /\ UNCHANGED value

Jump ==
  /\ Do({"goto", "branch"})
  /\ LET v == IF Here.src = <<>> THEN Null ELSE value[Here.src[1]]
         first == CASE Here.on = "always" -> TRUE
                    [] Here.on \in {"error", "false"} -> v = Null
                    [] Here.on = "true" -> v # Null
     IN  GoTo(Here.targets[IF first THEN 1 ELSE 2])
  /\ UNCHANGED <<value, held>>

Return ==
  /\ phase = "run" /\ Here.op = "return" /\ phase' = "returned"
  /\ held' = Without(Here)
  /\ UNCHANGED <<ir, at, value>>

Run == \/ Create \/ Fail \/ Succeed \/ BorrowAttr \/ Unborrow \/ Store \/ StoreError \/ Count \/ Jump \/ Return
Next == InsertUninitChecks \/ InsertExceptionHandling \/ InsertRefCounts \/ Run

Spec == Init /\ [][Next]_vars

-----------------------------------------------------------------------------
(* Properties. *)

\* An operation that may find no object in what it reads.
MayBeNull(o) == o.op = "xdec_ref" \/ o.op = "branch"

\* No operation reads a variable that has no value: the code that is run checks
\* every variable that may have none and raises UnboundLocalError.
UndefinedIsCaught ==
  phase = "run" => \A v \in ToSet(Here.src) : /\ value[v] # Garbage
                                              /\ value[v] = Null => MayBeNull(Here)

\* The caller keeps its argument alive; an attribute lives as long as its object.
Alive(obj) == \/ held[obj] > 0 \/ obj = 1
              \/ obj > MaxObjects /\ (held[obj - MaxObjects] > 0 \/ obj = 1 + MaxObjects)

\* The function uses no object after its last reference was given up, gives up only
\* references that it has, and has none left when it returns.
ReferencesBalance ==
  /\ phase = "run" =>
       /\ \A v \in ToSet(Here.src) : IsObject(value[v]) =>
            IF Here.op \in {"dec_ref", "xdec_ref"} THEN held[value[v]] > 0 ELSE Alive(value[v])
       /\ Here.op # "unreachable"
  /\ phase \in {"run", "returned"} => \A obj \in DOMAIN held : held[obj] >= 0
  /\ phase = "returned" => \A obj \in DOMAIN held : held[obj] = 0
=============================================================================
