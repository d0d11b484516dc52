---------------------------- MODULE RouteMeaning ----------------------------
(***************************************************************************)
(* What a route means, read off its syntax tree: statements run in the     *)
(* order they are written, an expression has a value, nil and errors are   *)
(* values, a wait takes the next event.  Nothing here knows of types,      *)
(* blocks, slots or numbering; this is what the compiled handler is        *)
(* compared with.                                                          *)
(***************************************************************************)
EXTENDS Ast, SequencesExt

\* Values.
Num(n) == [v |-> "num", num |-> n]
Truth(b) == [v |-> "truth", truth |-> b]
Text(s) == [v |-> "text", text |-> s]
Many(vs) == [v |-> "many", many |-> vs]
Rec(f) == [v |-> "rec", rec |-> f]
Tagged(c, payload) == [v |-> "case", case |-> c, payload |-> payload]
Nothing == [v |-> "nil"]
Failure(code, name, msg, fields) == [v |-> "error", code |-> code, name |-> name, msg |-> msg, rec |-> fields]
Happened(event, result) == [v |-> "event", event |-> event, result |-> result]
Missing(x) == x.v \in {"nil", "error"}

\* The order of numbers, of strings by their bytes, of tuples from the left, and of the
\* payloads of one case.
Rank(s) == CHOOSE i \in DOMAIN StrOrder : StrOrder[i] = s
RECURSIVE Before(_, _)
Before(a, b) ==
    CASE a.v = "num" -> a.num < b.num
      [] a.v = "text" -> Rank(a.text) < Rank(b.text)
      [] a.v = "many" -> \E i \in DOMAIN a.many :
                            /\ Before(a.many[i], b.many[i])
                            /\ \A j \in 1 .. i - 1 : a.many[j] = b.many[j]
      [] a.v = "case" /\ a.case = b.case -> Before(Many(a.payload), Many(b.payload))
Compared(op, a, b) ==
    Truth(CASE op \in {"Eq", "eq"} -> a = b
            [] op = "ne" -> a # b
            [] op \in {"Lt", "lt"} -> Before(a, b)
            [] op \in {"Gt", "gt"} -> Before(b, a)
            [] op = "le" -> ~Before(b, a)
            [] op = "ge" -> ~Before(a, b))

\* The codes under which a program sees events.
EventNumber == [Timer |-> 3, Recv |-> 5, Send |-> 6, UpstreamConnect |-> 7, UpstreamRecv |-> 8,
                UpstreamSend |-> 9]
EventField(x, f) ==
    CASE f = "kind" -> Num(EventNumber[x.event])
      [] f = "result" -> Num(x.result)
      [] f = "ok" -> Truth(x.result >= 0)
      [] f = "eof" -> Truth(x.event \in {"Recv", "UpstreamRecv"} /\ x.result = 0)
      [] f = "timer" -> Truth(x.event = "Timer")
      [] f = "recv" -> Truth(x.event = "Recv")
      [] f = "upstream_connect" -> Truth(x.event = "UpstreamConnect")
      [] f = "upstream_recv" -> Truth(x.event = "UpstreamRecv")
      [] f = "upstream_send" -> Truth(x.event = "UpstreamSend")
FieldValue(x, f) ==
    CASE x.v = "event" -> EventField(x, f)
      [] x.v = "error" /\ f = "code" -> Num(x.code)
      [] x.v = "error" /\ f = "msg" -> Text(x.msg)
      [] OTHER -> x.rec[f]

\* A run: the names in scope, the request, the events so far and how many of them the
\* waits have taken, and how the run ended.
Run(req, events) == [scope |-> <<>>, req |-> req, events |-> events, taken |-> 0, out |-> <<>>]
Hold(x, val, st) == [st EXCEPT !.scope = (x :> val) @@ @]

RECURSIVE Eval(_, _), Exec(_, _)

Piped == "|"
CallValue(f, vals, st) ==
    LET params == Functions[f].params
        scope == [x \in {params[i].name : i \in DOMAIN params} |->
                     vals[CHOOSE i \in DOMAIN params : params[i].name = x]]
    IN Exec(Functions[f].body, [st EXCEPT !.scope = scope]).out[1]
Labelled(names, vals) ==
    [x \in Range(names) |-> vals[CHOOSE i \in DOMAIN names : names[i] = x]]

Eval(e, st) ==
    LET vals == [i \in DOMAIN e.args |-> Eval(e.args[i], st)]
        what == e.args[1]
        piped == st.scope[Piped]
    IN CASE e.kind = "BoolLit" -> Truth(e.int = 1)
         [] e.kind \in {"IntLit", "LitMethod"} -> Num(e.int)
         [] e.kind = "StrLit" -> Text(e.str)
         [] e.kind = "Nil" -> Nothing
         [] e.kind = "Ident" -> st.scope[e.name]
         [] e.kind \in ReqKinds -> st.req[<<e.kind, e.str>>]
         [] e.kind \in {"Tuple", "ArrayLit"} -> Many(vals)
         [] e.kind = "StructInit" -> Rec(Labelled(e.names, vals))
         [] e.kind = "VariantCase" -> Tagged(e.str, vals)
         [] e.kind = "Error" ->
               Failure(what.int, what.str, e.msg,
                       Labelled(e.names, [i \in DOMAIN e.names |-> vals[i + 1]]))
         [] e.kind = "Or" -> IF Missing(vals[1]) THEN vals[2] ELSE vals[1]
         [] e.kind \in {"Eq", "Lt", "Gt"} -> Compared(e.kind, vals[1], vals[2])
         [] e.kind = "MethodCall" ->
               IF e.name = "matches" THEN Truth(<<e.str, vals[1].text>> \in st.req[<<"regex", "">>])
               ELSE Compared(e.name, vals[1], vals[2])
         [] e.kind = "Field" -> FieldValue(vals[1], e.name)
         [] e.kind = "Call" -> CallValue(e.name, vals, st)
         [] e.kind = "Placeholder" -> IF piped.v = "many" THEN piped.many[e.int] ELSE piped
         [] e.kind = "Pipe" -> IF Missing(vals[1]) THEN vals[1] ELSE Eval(Rhs(e), Hold(Piped, vals[1], st))

\* The first arm the value fits, with what its pattern binds.
Fitting(arm, x, st) ==
    LET p == arm.pattern
        bound == IF p.args # <<>> THEN Hold(p.args[1].name, x.payload[1], st) ELSE st
        hit == CASE arm.is_wildcard -> TRUE
                 [] ~arm.is_wildcard /\ x.v = "case" -> p.str = x.case
                 [] ~arm.is_wildcard /\ x.v = "error" -> p.str = x.name
                 [] OTHER -> Eval(p, st) = x
    IN IF hit /\ (arm.guard # <<>> => Eval(arm.guard[1], bound).truth) THEN <<bound>> ELSE <<>>
ExecArms(arms, x, st) ==
    LET i == CHOOSE i \in DOMAIN arms : /\ Fitting(arms[i], x, st) # <<>>
                                        /\ \A j \in 1 .. i - 1 : Fitting(arms[j], x, st) = <<>>
    IN Exec(arms[i].stmt, Fitting(arms[i], x, st)[1])

\* A guard lets pass what is neither an error nor false.
ExecGuard(s, st) ==
    LET x == Eval(s.expr, st)
    IN CASE x.v # "error" /\ x # Truth(FALSE) -> IF s.name = "" THEN st ELSE Hold(s.name, x, st)
         [] s.arms # <<>> -> ExecArms(s.arms, x, st)
         [] OTHER -> Exec(s.else, st)

\* A wait takes the next event; without one the run is left waiting.
Awaiting(events, ms, upstream) == [kind |-> "Wait", events |-> events, ms |-> ms, upstream |-> upstream]
OpEvent(op) == CASE op = "timer" -> "Timer"
                 [] op = "downstream.recv" -> "Recv"
                 [] op = "connect" -> "UpstreamConnect"
                 [] op = "recv" -> "UpstreamRecv"
                 [] op = "send" -> "UpstreamSend"
ExecWait(ops, st) ==
    LET timers == {op.ms : op \in {o \in Range(ops) : o.op = "timer"}}
    IN IF st.taken < Len(st.events) THEN [st EXCEPT !.taken = @ + 1]
       ELSE [st EXCEPT !.out = <<Awaiting({OpEvent(op.op) : op \in Range(ops)},
                                          IF timers = {} THEN 0 ELSE Max(timers), ops[1].upstream)>>]
Latest(st) == Happened(st.events[st.taken].event, st.events[st.taken].result)

RECURSIVE ExecAll(_, _), ExecLoop(_, _, _, _)
ExecAll(ss, st) == IF ss = <<>> \/ st.out # <<>> THEN st ELSE ExecAll(Tail(ss), Exec(Head(ss), st))
ExecLoop(x, vals, body, st) ==
    IF vals = <<>> \/ st.out # <<>> THEN st
    ELSE LET once == ExecAll(body, Hold(x, Head(vals), st))
         IN ExecLoop(x, Tail(vals), body, [once EXCEPT !.scope = st.scope])

Exec(s, st) ==
    LET waited == ExecWait(s.expr.ops, st)
        raced == ExecWait(<<TimerOp(s.ms), RecvOp>>, st)
    IN CASE s.kind = "Let" ->
               (CASE s.expr.kind # "Wait" -> Hold(s.name, Eval(s.expr, st), st)
                  [] OTHER -> IF waited.out # <<>> THEN waited ELSE Hold(s.name, Latest(waited), waited))
         [] s.kind = "Wait" -> ExecWait(s.spec.ops, st)
         [] s.kind = "WaitAny" ->
               (CASE raced.out # <<>> -> raced
                  [] OTHER -> Exec(IF Latest(raced).event = "Timer" THEN s.timer ELSE s.recv, raced))
         [] s.kind = "Guard" -> ExecGuard(s, st)
         [] s.kind = "If" -> Exec(IF Eval(s.expr, st).truth THEN s.then ELSE s.else, st)
         [] s.kind = "Match" -> ExecArms(s.arms, Eval(s.expr, st), st)
         [] s.kind = "Block" -> ExecAll(s.stmts, st)
         [] s.kind = "For" -> ExecLoop(s.name, Eval(s.expr, st).many, s.body, st)
         [] s.kind = "Expr" -> [st EXCEPT !.out = <<Eval(s.expr, st)>>]
         [] OTHER -> [st EXCEPT !.out = <<s>>]

\* Decorators come first; one that is not zero is the status of the answer.
RECURSIVE ExecDecorators(_, _)
ExecDecorators(fs, st) ==
    IF fs = <<>> THEN st
    ELSE LET code == CallValue(Head(fs), <<Num(0)>>, st).num
         IN IF code # 0 THEN [st EXCEPT !.out = <<ReturnStatus(code)>>] ELSE ExecDecorators(Tail(fs), st)

\* How a route ends, or what it waits for, after these events.
Meaning(route, req, events) ==
    LET entered == ExecDecorators(route.decorators, Run(req, events))
    IN ExecAll(route.statements, entered).out[1]
=============================================================================
