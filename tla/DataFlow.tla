------------------------------ MODULE DataFlow ------------------------------
(***************************************************************************)
(* mypyc's intermediate code and the analyses over it                      *)
(* (src/mypyc/ir/ops.py, src/mypyc/analysis/dataflow.py).                  *)
(*                                                                         *)
(* A function body is a set of basic blocks, a mapping from numbers to     *)
(* records with a sequence of operations and the number of the block that  *)
(* handles the errors of this one (0 if there is none); block 1 is where   *)
(* it starts.  The results of an operation and the local variables         *)
(* (registers) are named by strings.                                       *)
(***************************************************************************)
EXTENDS Integers, SequencesExt

Void == ""

\* An operation: its result or the register it assigns, what it reads, what of
\* that it takes over ("steals") the reference of, how it signals an error, where
\* it may jump to and, for a branch, when it takes the first way.
Op(kind, dest, src) == [op |-> kind, dest |-> dest, src |-> src, stolen |-> <<>>, err |-> "never",
                        targets |-> <<>>, on |-> "always"]

Goto(b) == [Op("goto", Void, <<>>) EXCEPT !.targets = <<b>>]
Branch(v, on, yes, no) == [Op("branch", Void, <<v>>) EXCEPT !.targets = <<yes, no>>, !.on = on]
Assign(x, v) == [Op("assign", x, <<v>>) EXCEPT !.stolen = <<v>>]
IncRef(v) == Op("inc_ref", Void, <<v>>)
DecRef(v, x) == Op(IF x THEN "xdec_ref" ELSE "dec_ref", Void, <<v>>)

Assigns(o) == o.op \in {"assign", "undefine", "load_error"}
IsControl(o) == o.op \in {"goto", "branch", "return", "unreachable"}
Targets(block) == ToSet(Last(block.ops).targets)

-----------------------------------------------------------------------------
(* The control-flow graph. *)

\* get_cfg(): an error may occur anywhere in a block, so the handlers of a block
\* and of its successors are successors of it too.
Succ(ir, b) == LET next == Targets(ir[b])
               IN  next \cup ({ir[c].handler : c \in next \cup {b}} \ {0})
Pred(ir, b) == {c \in DOMAIN ir : b \in Succ(ir, c)}

RealTarget(ir, b) == LET o == Head(ir[b].ops) IN IF o.op = "goto" THEN o.targets[1] ELSE b

\* cleanup_cfg(): jumps to a block that only jumps on go to its target, and blocks
\* that nothing leads to are deleted, until there are none.
RECURSIVE Cleanup(_)
Cleanup(ir) ==
  LET direct == [b \in DOMAIN ir |->
        LET ops == ir[b].ops  o == Last(ops)
        IN  [ir[b] EXCEPT !.ops = Append(Front(ops),
               [o EXCEPT !.targets = [i \in DOMAIN @ |-> RealTarget(ir, @[i])]])]]
      kept == {b \in DOMAIN ir : b = 1 \/ Pred(direct, b) # {}}
  IN  IF kept = DOMAIN ir THEN direct ELSE Cleanup([b \in kept |-> direct[b]])

-----------------------------------------------------------------------------
(* The work list algorithm; in which order the blocks are taken from the   *)
(* list is left open.                                                      *)

Operations(ir) == UNION {ToSet(ir[b].ops) : b \in DOMAIN ir}

\* What the sets of operations amount to for a sequence of them.
BlockGenAndKill(ops, gen, kill) ==
  FoldLeft(LAMBDA acc, o : [gen |-> (acc.gen \ kill[o]) \cup gen[o], kill |-> (acc.kill \ gen[o]) \cup kill[o]],
           [gen |-> {}, kill |-> {}], ops)

\* Mutation of Affected: only those that come later.
AffectedLater(b, succ) == {c \in succ[b] : c > b}

\* The blocks that have to be looked at again when the result for b has changed.
Affected(b, succ) == succ[b]

\* What an analysis starts from: its direction is in pred, succ and the order of the
\* operations.
Problem(ir, must, backward, gen, kill, initial, universe) ==
  LET ops == [b \in DOMAIN ir |-> IF backward THEN Reverse(ir[b].ops) ELSE ir[b].ops]
  IN  [blocks |-> DOMAIN ir, ops |-> ops, must |-> must, initial |-> initial, universe |-> universe,
       gen |-> gen, kill |-> kill, summary |-> [b \in DOMAIN ir |-> BlockGenAndKill(ops[b], gen, kill)],
       pred |-> [b \in DOMAIN ir |-> IF backward THEN Succ(ir, b) ELSE Pred(ir, b)],
       succ |-> [b \in DOMAIN ir |-> IF backward THEN Pred(ir, b) ELSE Succ(ir, b)]]

\* What holds where the ways with the sets of came meet.
Meet(p, came) ==
  IF came = {} THEN p.initial ELSE IF p.must THEN {v \in p.universe : \A s \in came : v \in s} ELSE UNION came

\* run_analysis(): the sets before the first operation of every block, in the
\* direction of the analysis.
RECURSIVE RunBlocks(_, _, _, _)
RunBlocks(p, worklist, before, after) ==
  IF worklist = {} THEN before
  ELSE LET b == CHOOSE b \in worklist : TRUE
           new == Meet(p, {after[c] : c \in p.pred[b]})
           out == (new \ p.summary[b].kill) \cup p.summary[b].gen
           rest == worklist \ {b}
       IN  RunBlocks(p, IF out = after[b] THEN rest ELSE rest \cup Affected(b, p.succ),
                     [before EXCEPT ![b] = new], [after EXCEPT ![b] = out])

\* The sets around the operations of a block, from the one it starts with.
Around(p, ops, start) == FoldLeft(LAMBDA acc, o : Append(acc, (Last(acc) \ p.kill[o]) \cup p.gen[o]), <<start>>, ops)

\* The sets around every operation: before[b][i] and after[b][i].
Result(ir, backward, p, entry) ==
  LET around(b) == IF backward THEN Reverse(Around(p, p.ops[b], entry[b])) ELSE Around(p, p.ops[b], entry[b])
  IN  [before |-> [b \in DOMAIN ir |-> Front(around(b))], after |-> [b \in DOMAIN ir |-> Tail(around(b))]]

Solved(ir, backward, p) ==
  LET start == [b \in p.blocks |-> IF p.must THEN p.universe ELSE {}]
  IN  Result(ir, backward, p, RunBlocks(p, p.blocks, start, start))

RunAnalysis(ir, must, backward, gen, kill, initial, universe) ==
  Solved(ir, backward, Problem(ir, must, backward, gen, kill, initial, universe))

-----------------------------------------------------------------------------
(* The analyses. *)

\* all_values(): what operations define, and the arguments.
AllValues(ir, args) == args \cup ({o.dest : o \in Operations(ir)} \ {Void})

\* Mutation of MustDefined: the registers that have a value on some way.
MaybeDefined(ir, args, strict) ==
  LET gen == [o \in Operations(ir) |-> IF o.op = "assign" THEN {o.dest} ELSE {}]
      kill == [o \in Operations(ir) |-> IF Assigns(o) /\ o.op # "assign" THEN {o.dest} ELSE {}]
  IN  RunAnalysis(ir, FALSE, FALSE, gen, kill, args, {})

\* analyze_must_defined_regs(): the registers that have a value whatever way led
\* here.  Loading an error value undefines a register if it is meant to (del), or
\* in any case if the analysis is strict.
MustDefined(ir, args, strict) ==
  LET Undefines(o) == o.op \in (IF strict THEN {"undefine", "load_error"} ELSE {"undefine"})
      gen == [o \in Operations(ir) |-> IF Assigns(o) /\ ~Undefines(o) THEN {o.dest} ELSE {}]
      kill == [o \in Operations(ir) |-> IF Undefines(o) THEN {o.dest} ELSE {}]
  IN  RunAnalysis(ir, TRUE, FALSE, gen, kill, args, AllValues(ir, args))

\* analyze_borrowed_arguments(): the values whose reference belongs to somebody
\* else; an argument that is assigned to is no longer one of them.
BorrowedValues(ir, borrowed) ==
  LET gen == [o \in Operations(ir) |-> {}]
      kill == [o \in Operations(ir) |-> IF Assigns(o) THEN {o.dest} \cap borrowed ELSE {}]
  IN  RunAnalysis(ir, TRUE, FALSE, gen, kill, borrowed, borrowed)

\* analyze_live_regs(): the values that are read on some way from here.
Live(ir) ==
  LET gen == [o \in Operations(ir) |-> ToSet(o.src)]
      kill == [o \in Operations(ir) |-> {o.dest} \ {Void}]
  IN  RunAnalysis(ir, FALSE, TRUE, gen, kill, {}, {})
=============================================================================
