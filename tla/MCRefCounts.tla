---------------------------- MODULE MCRefCounts -----------------------------
(***************************************************************************)
(* Functions for RefCounts: every combination of some statements in the    *)
(* places of a few shapes of control flow, with an argument a, variables x *)
(* and y, and results of operations whose names end in the number of the   *)
(* place.                                                                  *)
(***************************************************************************)
EXTENDS RefCounts

CONSTANTS Shapes,      \* of control flow
          RenewInTry   \* whether a try body deletes a variable and gives it a new value

Registers == {"a", "x", "y"}

Try(o, err) == [o EXCEPT !.err = err]
Steal(o, v) == [o EXCEPT !.stolen = v]

\* f(v), where the result is not used.
Use(v, n) == <<Try(Op("check", "c" \o n, <<v>>), "false")>>

Statements(n) ==
  LET r == "r" \o n  u == "u" \o n  w == "w" \o n IN
  [ nothing |-> <<>>,
    new     |-> <<Try(Op("call", r, <<>>), "magic"), Assign("x", r)>>,
    copy    |-> <<Assign("x", "a")>>,
    self    |-> <<Assign("x", "x")>>,
    both    |-> <<Assign("y", "x")>> \o Use("x", n),
    replace |-> <<Try(Op("call", r, <<"a">>), "magic"), Assign("a", r)>>,
    back    |-> <<Assign("a", "x")>>,
    use     |-> Use("x", n),
    drop    |-> <<Try(Op("call", r, <<>>), "magic")>>,
    give    |-> <<Try(Steal(Op("set_attr", r, <<"a", "x">>), <<"x">>), "false")>>,
    pair    |-> <<Steal(Op("tuple", r, <<"x", "x">>), <<"x", "x">>)>>,
    borrow  |-> <<Op("borrow_attr", r, <<"x">>)>> \o Use(r, n) \o <<Op("keep_alive", Void, <<"x">>)>>,
    take    |-> <<Op("borrow_attr", r, <<"x">>), Assign("y", r), Op("keep_alive", Void, <<"x">>)>> \o Use("y", n),
    unpack  |-> <<Try(Op("call", r, <<>>), "magic"), Op("borrow_attr", u, <<r>>),
                  Steal(Op("keep_alive", Void, <<r>>), <<r>>), Op("unborrow", w, <<u>>), Assign("x", w)>>,
    delete  |-> <<Op("undefine", "x", <<>>)>>,
    renew   |-> <<Op("undefine", "x", <<>>), Try(Op("call", r, <<>>), "magic"), Assign("x", r)>> ]

\* What transform_try_except() makes the handler of a handler.
Propagate == <<Try(Op("raise", "propagate", <<>>), "false"), Op("unreachable", Void, <<>>)>>

Return1(v) == [Op("return", Void, <<v>>) EXCEPT !.stolen = <<v>>]
Test == Op("check", "t", <<>>)
Next1(none, some) == <<Op("next", "r", <<"a">>), Branch("r", "error", none, some)>>

\* What transform_try_finally_stmt() makes of
\*   before; try: {body; if t: return v} finally: {end}; return a
\* The value to return is kept in ret_reg, and an exception to raise again in old_exc.
Finally(before, body, end, v) ==
  << Block(before \o <<Goto(2)>>, 0),
     Block(body \o <<Test, Branch("t", "true", 3, 4)>>, 5),
     Block(<<Assign("ret_reg", v), Goto(6)>>, 5),
     Block(<<Op("load_error", "ret_reg", <<>>), Goto(6)>>, 0),
     Block(<<Op("load_error", "ret_reg", <<>>), Op("call", "e", <<>>), Assign("old_exc", "e"), Goto(7)>>, 0),
     Block(<<Op("load_error", "old_exc", <<>>), Goto(7)>>, 0),
     Block(end \o <<Branch("old_exc", "error", 9, 8)>>, 12),
     Block(Propagate, 12),
     Block(<<Branch("ret_reg", "error", 11, 10)>>, 0),
     Block(<<Return1("ret_reg")>>, 0),
     Block(<<Return1("a")>>, 0),
     Block(<<Branch("old_exc", "error", 14, 13)>>, 0),
     Block(<<Op("check", "restored", <<"old_exc">>), Goto(14)>>, 0),
     Block(Propagate, 0) >>

\* Three statements: one after the other, the second on one of two ways; the second
\* repeated; the second once for every item; the second tried, and the third handling
\* its errors.
Body(shape, first, second, third, v) ==
  LET s1 == Statements("1")[first]
      s2 == Statements("2")[second]
      s3 == Statements("3")[third]
      If(yes, no) == <<Test, Branch("t", "true", yes, no)>>
      end == Block(s3 \o <<Return1(v)>>, 0)
  IN  CASE shape = "if"   -> <<Block(s1 \o If(2, 3), 0), Block(s2 \o <<Goto(3)>>, 0), end>>
        [] shape = "loop" -> <<Block(s1 \o <<Goto(2)>>, 0), Block(If(3, 4), 0), Block(s2 \o <<Goto(2)>>, 0), end>>
        [] shape = "for"  -> <<Block(s1 \o <<Goto(2)>>, 0), Block(Next1(4, 3), 0),
                               Block(<<Assign("x", "r")>> \o s2 \o <<Goto(2)>>, 0), end>>
        [] shape = "try"  -> <<Block(s1 \o <<Goto(2)>>, 0), Block(s2 \o <<Goto(3)>>, 4), Block(<<Return1("x")>>, 0),
                               [end EXCEPT !.handler = 5], Block(Propagate, 0)>>
        [] shape = "finally" -> Finally(s1, s2, s3, v)

AllFunctions ==
  LET S == DOMAIN Statements("")
  IN {Body(shape, i, j, k, v) : shape \in Shapes, i \in S, j \in IF RenewInTry THEN S ELSE S \ {"renew"},
                                k \in {"nothing", "use", "back", "replace", "both", "new"}, v \in {"a", "x"}}
=============================================================================
