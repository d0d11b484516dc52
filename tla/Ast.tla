-------------------------------- MODULE Ast --------------------------------
(***************************************************************************)
(* The syntax tree of a RouteLang route, as the parser leaves it (ast.h):  *)
(* untyped expressions with names still unresolved, statements in source   *)
(* order, functions, and the decorators in front of a route.  A terminator *)
(* statement is the terminator record of Hir.                              *)
(***************************************************************************)
EXTENDS Hir

CONSTANT
    Functions       \* function name -> [params (sequence of [name, type]), ret (type), body]

Node(kind, args) == [kind |-> kind, args |-> args, int |-> 0, str |-> "", name |-> "",
                     msg |-> "", struct |-> "", names |-> <<>>]

BoolOf(b) == [Node("BoolLit", <<>>) EXCEPT !.int = IF b THEN 1 ELSE 0]
IntOf(n) == [Node("IntLit", <<>>) EXCEPT !.int = n]
StrOf(s) == [Node("StrLit", <<>>) EXCEPT !.str = s]
MethodOf(m) == [Node("LitMethod", <<>>) EXCEPT !.int = m]
Id(x) == [Node("Ident", <<>>) EXCEPT !.name = x]
NilOf == Node("Nil", <<>>)
TupleLit(es) == Node("Tuple", es)
ArrayLit(es) == Node("ArrayLit", es)
StructOf(s, fields, es) == [Node("StructInit", es) EXCEPT !.name = s, !.names = fields]
\* A variant case; the unnamed form `.c` has v = "".  In a pattern the argument is the
\* identifier bound to the payload.
CaseOf(v, c, es) == [Node("VariantCase", es) EXCEPT !.name = v, !.str = c]
FieldOf(e, f) == [Node("Field", <<e>>) EXCEPT !.name = f]
\* A part of the request: the accessor's kind and, where it takes one, the name looked up.
Req(kind, name) == [Node(kind, <<>>) EXCEPT !.str = name]
Call(f, es) == [Node("Call", es) EXCEPT !.name = f]
MethodCall(m, es) == [Node("MethodCall", es) EXCEPT !.name = m]
Matches(e, regex) == [MethodCall("matches", <<e>>) EXCEPT !.str = regex]
Hole(slot) == [Node("Placeholder", <<>>) EXCEPT !.int = slot]
Pipe(l, r) == Node("Pipe", <<l, r>>)
OrElse(l, r) == Node("Or", <<l, r>>)
Equals(l, r) == Node("Eq", <<l, r>>)
Less(l, r) == Node("Lt", <<l, r>>)
Greater(l, r) == Node("Gt", <<l, r>>)
\* error(<code>), error(.c), error(V.c): the argument says which.
ErrorOf(what, msg) == [Node("Error", <<what>>) EXCEPT !.msg = msg]
\* A custom error struct with its extra fields after the argument.
CustomError(s, what, msg, fields, es) ==
    [ErrorOf(what, msg) EXCEPT !.struct = s, !.names = fields, !.args = <<what>> \o es]

\* What a wait waits for.
TimerOp(ms) == [op |-> "timer", ms |-> ms, upstream |-> ""]
RecvOp == [op |-> "downstream.recv", ms |-> 0, upstream |-> ""]
UpstreamOp(op, u) == [op |-> op, ms |-> 0, upstream |-> u]
WaitOn(ops) == [kind |-> "Wait", any |-> FALSE, ops |-> ops]
WaitOnAny(ops) == [kind |-> "Wait", any |-> TRUE, ops |-> ops]

----------------------------------------------------------------------------
Undeclared == Prim("Undeclared")
LetAs(x, t, e) == [kind |-> "Let", name |-> x, type |-> t, expr |-> e]
Let(x, e) == LetAs(x, Undeclared, e)
\* A guard that binds (x # "") or only tests, failing into a statement or into arms.
GuardLet(x, e, s) == [kind |-> "Guard", name |-> x, expr |-> e, arms |-> <<>>, else |-> s]
GuardElse(e, s) == GuardLet("", e, s)
GuardMatch(x, e, arms) == [kind |-> "Guard", name |-> x, expr |-> e, arms |-> arms,
                           else |-> ReturnStatus(0)]
IfStmt(c, t, e) == [kind |-> "If", is_const |-> FALSE, expr |-> c, then |-> t, else |-> e]
IfConst(c, t, e) == [IfStmt(c, t, e) EXCEPT !.is_const = TRUE]
MatchStmt(s, arms) == [kind |-> "Match", is_const |-> FALSE, expr |-> s, arms |-> arms]
MatchConst(s, arms) == [MatchStmt(s, arms) EXCEPT !.is_const = TRUE]
Block(ss) == [kind |-> "Block", stmts |-> ss]
For(x, e, ss) == [kind |-> "For", name |-> x, expr |-> e, body |-> ss]
WaitStmt(spec) == [kind |-> "Wait", spec |-> spec]
WaitAny(ms, t, r) == [kind |-> "WaitAny", ms |-> ms, timer |-> t, recv |-> r]
Result(e) == [kind |-> "Expr", expr |-> e]

OnIf(p, g, s) == [is_wildcard |-> FALSE, pattern |-> p, guard |-> g, stmt |-> s]
On(p, s) == OnIf(p, <<>>, s)
Otherwise(s) == [is_wildcard |-> TRUE, pattern |-> NilOf, guard |-> <<>>, stmt |-> s]

IsTerm(s) == s.kind \in {"ReturnStatus", "ForwardUpstream"}

Route(decorators, stmts) == [decorators |-> decorators, statements |-> stmts]
=============================================================================
