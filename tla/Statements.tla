----------------------------- MODULE Statements ------------------------------
(***************************************************************************)
(* The statements a function body is made of, as far as control flow and   *)
(* the types of variables go.  A body is a sequence of them, a condition   *)
(* is an isinstance() check, a call that may return anything, or True.     *)
(***************************************************************************)
Assign(k, c) == [kind |-> "assign", key |-> k, class |-> c]
Copy(k, o) == [kind |-> "copy", key |-> k, from |-> o]
Jump(kind) == [kind |-> kind]
IsInstance(k, c) == [kind |-> "isinstance", key |-> k, class |-> c]
Maybe == [kind |-> "call"]
Always == [kind |-> "true"]
If(test, then, else) == [kind |-> "if", test |-> test, body |-> then, orelse |-> else]
While(test, do, else) == [kind |-> "while", test |-> test, body |-> do, orelse |-> else]
For(do, else) == [kind |-> "for", body |-> do, orelse |-> else]
Try(do, handlers, else, finally) ==
  [kind |-> "try", body |-> do, handlers |-> handlers, orelse |-> else, finally |-> finally]
With(do) == [kind |-> "with", body |-> do]
=============================================================================
