---------------------------- MODULE AnalyzeExpr ----------------------------
(***************************************************************************)
(* Typing of expressions (analyze.cc): names are resolved, every           *)
(* expression gets a type shape and the two flags may_nil and may_error,   *)
(* what is known at compile time is folded, and calls are replaced by the  *)
(* body of the function.  Bad stands for a frontend error.  Generics,      *)
(* protocols and imports are not modelled.                                 *)
(***************************************************************************)
EXTENDS Ast, SequencesExt

Bad == Expr("Bad", UnknownT, <<>>)
Good(es) == \A i \in DOMAIN es : es[i].kind # "Bad"
Allowed(ok, e) == IF ok THEN e ELSE Bad

\* What an expression is analysed in: the locals in scope, the payload a match arm binds,
\* whether an array may appear, and whether a local stands for its initializer (in the
\* body of a function, where locals other than parameters are substituted away).
NoBinding == [name |-> "", subject |-> Bad, case |-> 0, type |-> UnknownT]
Env(locals, binding) == [locals |-> locals, binding |-> binding, arrays |-> FALSE, inline |-> FALSE]

next_local_ref_index(locals) == Max({l.ref + 1 : l \in Range(locals)} \cup {0})

LocalRefTo(l) ==
    [Expr("LocalRef", l.type, <<>>) EXCEPT
        !.ref = l.ref, !.may_nil = l.may_nil, !.may_error = l.may_error,
        !.estruct = l.estruct, !.evar = l.evar, !.wait = l.init.wait, !.event = l.init.event]

----------------------------------------------------------------------------
(* What is known before the route runs *)

\* The expression a chain of local references ends in; the loop variable refers to itself.
RECURSIVE Chase(_, _, _)
Chase(e, locals, fuel) ==
    LET targets == SelectSeq(locals, LAMBDA l : l.ref = e.ref)
    IN IF e.kind # "LocalRef" \/ targets = <<>> \/ fuel = 0 THEN e
       ELSE Chase(targets[1].init, locals, fuel - 1)
Origin(e, locals) == Chase(e, locals, Len(locals) + 1)

known_value_state(e, locals) ==
    LET o == Origin(e, locals)
    IN CASE o.kind = "Nil" -> "Nil"
         [] o.kind = "Error" -> "Error"
         [] o.kind \notin {"Nil", "Error"} /\ ~Fallible(o) -> "Available"
         [] OTHER -> "Unknown"
known_error_name(e, locals) ==
    LET o == Origin(e, locals) IN IF o.kind = "Error" THEN o.name ELSE ""

\* The value of a constant expression, as a literal without payload.
RECURSIVE const_eval_expr(_, _)
const_eval_expr(e, locals) ==
    LET o == Origin(e, locals) IN
    CASE o.kind \in {"BoolLit", "IntLit", "StrLit", "ConstMethod", "VariantCase"} ->
            [o EXCEPT !.args = <<>>]
      [] o.kind \in {"Eq", "Lt", "Gt"} ->
            LET l == const_eval_expr(Lhs(o), locals)
                r == const_eval_expr(Rhs(o), locals)
            IN CASE ~Good(<<l, r>>) \/ l.type # r.type -> Bad
                 [] o.kind = "Eq" -> BoolLit(l.int = r.int /\ l.str = r.str)
                 [] o.kind # "Eq" /\ l.type = I32T ->
                       BoolLit(IF o.kind = "Lt" THEN l.int < r.int ELSE l.int > r.int)
                 [] OTHER -> Bad
      [] OTHER -> Bad
ConstTrue(v) == v.kind = "BoolLit" /\ v.int = 1
PatternHits(p, v) == p.kind = v.kind /\ p.type = v.type /\ p.int = v.int /\ p.str = v.str

----------------------------------------------------------------------------
(* Types *)

\* Whether the values of a shape can be compared (base: the primitive kinds that can be);
\* a named type met again on the way down counts as comparable.
RECURSIVE Comparable(_, _, _)
Comparable(t, base, visiting) ==
    CASE t.k = "Tuple" -> \A i \in DOMAIN t.elems : Comparable(t.elems[i], base, visiting)
      [] t.k = "Struct" ->
            \/ t.name \in visiting
            \/ \A i \in DOMAIN Structs[t.name] :
                  Comparable(Structs[t.name][i].type, base, visiting \cup {t.name})
      [] t.k = "Variant" ->
            \/ t.name \in visiting
            \/ \A i \in DOMAIN Variants[t.name] :
                  \/ ~HasPayload(Variants[t.name][i])
                  \/ Comparable(Variants[t.name][i].payload, base, visiting \cup {t.name})
      [] OTHER -> t.k \in base
satisfies_eq_constraint(t) ==
    Comparable(t, {"Bool", "I32", "Str", "Method", "ByteSize", "IP"}, {})
satisfies_ord_constraint(t) == Comparable(t, {"I32", "Str"}, {})

\* A nil or an error without a type takes the declared one; then the types must agree.
WithType(e, t) ==
    LET typed == IF e.type = UnknownT /\ Fallible(e) THEN [e EXCEPT !.type = t] ELSE e
    IN Allowed(e.kind # "Bad" /\ typed.type = t, typed)
apply_declared_type_to_expr(e, t) == IF t = Undeclared THEN e ELSE WithType(e, t)

----------------------------------------------------------------------------
(* Expressions *)

RECURSIVE analyze_expr(_, _), analyze_function_body_stmt(_, _), CasesOf(_)

Analyzed(es, env) == [i \in DOMAIN es |-> analyze_expr(es[i], env)]
Plain(es) == Good(es) /\ \A i \in DOMAIN es : ~Fallible(es[i])

AnalyzeLiteral(e) ==
    CASE e.kind = "BoolLit" -> BoolLit(e.int = 1)
      [] e.kind = "IntLit" -> IntLit(e.int)
      [] e.kind = "StrLit" -> StrLit(e.str)
      [] e.kind = "LitMethod" -> [Expr("ConstMethod", MethodT, <<>>) EXCEPT !.int = e.int]
      [] e.kind = "Nil" -> [Expr("Nil", UnknownT, <<>>) EXCEPT !.may_nil = TRUE]

\* A field of the request, or a lookup in it by name.
AnalyzeRequest(e) ==
    [Expr(e.kind, ReqType[e.kind], <<>>) EXCEPT !.str = e.str, !.may_nil = e.kind \in ReqMayNil]

\* Each declared field is given once, in any order.
FieldsGiven(fields, names, vals) ==
    /\ Len(names) = Len(fields)
    /\ IsInjective(names)
    /\ \A i \in DOMAIN names : \E f \in Range(fields) :
          f.name = names[i] /\ f.type = vals[i].type

AnalyzeStructInit(e, env) ==
    LET vals == Analyzed(e.args, env)
    IN Allowed(e.name \in DOMAIN Structs /\ Plain(vals) /\ FieldsGiven(Structs[e.name], e.names, vals),
               [Expr("StructInit", StructT(e.name), vals) EXCEPT !.names = e.names])

CaseIndex(v, c) == {i \in DOMAIN CasesOf(v) : CasesOf(v)[i].name = c}
CaseExpr(v, i, args) == [Expr("VariantCase", VariantT(v), args) EXCEPT !.int = i - 1]
\* The payload is given exactly when the case declares one.
AnalyzeVariantCase(e, env) ==
    LET at == IF e.name \in DOMAIN Variants THEN CaseIndex(e.name, e.str) ELSE {}
        i == CHOOSE i \in at : TRUE
        c == Variants[e.name][i]
        vals == Analyzed(e.args, env)
    IN Allowed(/\ at # {}
               /\ Len(e.args) = (IF HasPayload(c) THEN 1 ELSE 0)
               /\ Plain(vals)
               /\ \A k \in DOMAIN vals : vals[k].type = c.payload,
               CaseExpr(e.name, i, vals))

Types(vals) == [i \in DOMAIN vals |-> vals[i].type]
AnalyzeTuple(e, env) ==
    LET vals == Analyzed(e.args, env)
    IN Allowed(/\ Len(vals) >= 2 /\ Plain(vals)
               /\ \A i \in DOMAIN vals : vals[i].type.k \notin {"Unknown", "Tuple"},
               Expr("Tuple", TupleT(Types(vals)), vals))
\* An array only where a loop will run over it; its elements have one type.
AnalyzeArray(e, env) ==
    LET vals == Analyzed(e.args, env)
    IN Allowed(/\ env.arrays /\ vals # <<>> /\ Plain(vals)
               /\ \A i \in DOMAIN vals : vals[i].type = vals[1].type /\ vals[i].type # UnknownT,
               Expr("ArrayLit", ArrayT, vals))

\* error(code), error(.name) (numbered later), error(V.case), or a custom error struct.
AnalyzeError(e, env) ==
    LET what == e.args[1]
        kind == IF what.kind = "VariantCase" THEN AnalyzeVariantCase(what, env) ELSE Bad
        vals == Analyzed(Tail(e.args), env)
        base == [Expr("Error", UnknownT, vals) EXCEPT
                    !.may_error = TRUE, !.str = e.msg, !.names = e.names, !.estruct = e.struct]
        extra == SelectSeq(Structs[e.struct], LAMBDA f : f.type.k # "Error")
        fields_ok == e.struct # "" => Plain(vals) /\ FieldsGiven(extra, e.names, vals)
    IN CASE ~fields_ok -> Bad
         [] what.kind = "IntLit" -> [base EXCEPT !.int = what.int]
         [] what.kind = "VariantCase" /\ what.name = "" -> [base EXCEPT !.name = what.str]
         [] kind.kind = "VariantCase" /\ kind.args = <<>> ->
               [base EXCEPT !.int = kind.int, !.name = what.str, !.evar = what.name]
         [] OTHER -> Bad

\* `or`: the right side must have a value; a left side whose state is known is folded.
AnalyzeOr(e, env) ==
    LET l == analyze_expr(Lhs(e), env)
        r == analyze_expr(Rhs(e), env)
        state == known_value_state(l, env.locals)
    IN CASE ~(Good(<<l>>) /\ Plain(<<r>>)) -> Bad
         [] l.type # UnknownT /\ l.type # r.type -> Bad
         [] state \in {"Nil", "Error"} -> r
         [] state = "Available" -> l
         [] OTHER -> Expr("Or", IF l.type = UnknownT THEN r.type ELSE l.type, <<l, r>>)

AnalyzeCompare(e, env) ==
    LET l == analyze_expr(Lhs(e), env)
        r == analyze_expr(Rhs(e), env)
    IN Allowed(/\ Plain(<<l, r>>) /\ l.type.k = r.type.k
               /\ e.kind # "Eq" => satisfies_ord_constraint(l.type),
               Expr(e.kind, BoolT, <<l, r>>))

\* Comparisons and regular expressions in method form; ne, le and ge negate.
analyze_method_call_expr(e, env) ==
    LET recv == analyze_expr(e.args[1], env)
        arg == analyze_expr(e.args[2], env)
        comparable == /\ Plain(<<arg>>) /\ arg.type = recv.type
                      /\ IF e.name \in {"eq", "ne"} THEN satisfies_eq_constraint(recv.type)
                         ELSE satisfies_ord_constraint(recv.type)
        cmp(k) == Expr(k, BoolT, <<recv, arg>>)
        negated(k) == Expr("Eq", BoolT, <<cmp(k), BoolLit(FALSE)>>)
    IN CASE ~Plain(<<recv>>) -> Bad
         [] e.name = "matches" -> Allowed(recv.type = StrT,
                                     [Expr("RegexMatch", BoolT, <<recv>>) EXCEPT !.str = e.str])
         [] OTHER -> Allowed(comparable,
                        CASE e.name = "eq" -> cmp("Eq")
                          [] e.name = "ne" -> negated("Eq")
                          [] e.name = "lt" -> cmp("Lt")
                          [] e.name = "gt" -> cmp("Gt")
                          [] e.name = "le" -> negated("Gt")
                          [] e.name = "ge" -> negated("Lt"))

WaitFields == [f \in {"kind", "result"} |-> I32T]
              @@ [f \in {"ok", "eof", "timer", "recv", "send", "upstream_connect",
                         "upstream_recv", "upstream_send"} |-> BoolT]
ErrorFields == [f \in {"code", "line"} |-> I32T] @@ [f \in {"msg", "file", "func"} |-> StrT]

\* A field of an error that is known: its code, its message or an extra field, as written.
analyze_known_error_field(err, f) ==
    CASE f = "code" -> IntLit(err.int)
      [] f = "msg" -> StrLit(err.str)
      [] OTHER -> IF \E i \in DOMAIN err.names : err.names[i] = f
                  THEN err.args[CHOOSE i \in DOMAIN err.names : err.names[i] = f] ELSE Bad

\* Of a wait's result, of a known error, of a struct, or of something that may be an error.
AnalyzeField(e, env) ==
    LET base == analyze_expr(Lhs(e), env)
        f == e.name
        field(t) == [Expr("Field", t, <<base>>) EXCEPT !.str = f]
        declared(s) == \E x \in Range(Structs[s]) : x.name = f
    IN CASE ~Good(<<base>>) -> Bad
         [] IsWaitResult(base) ->
               Allowed(base.kind = "LocalRef" /\ f \in DOMAIN WaitFields,
                       [Expr("WaitField", WaitFields[f], <<base>>) EXCEPT !.str = f])
         [] known_value_state(base, env.locals) = "Error" /\ f \notin {"file", "func"} ->
               analyze_known_error_field(Origin(base, env.locals), f)
         [] base.type.k = "Struct" /\ ~base.may_error ->
               Allowed(declared(base.type.name), field(FieldType(base.type.name, f)))
         [] ~base.may_error -> Bad
         [] f \in DOMAIN ErrorFields -> field(ErrorFields[f])
         [] OTHER -> Allowed(base.estruct # "" /\ declared(base.estruct),
                        [field(FieldType(base.estruct, f)) EXCEPT !.estruct = base.estruct])

\* A name is a local, the first one so called, or the payload the match arm binds.
AnalyzeIdent(e, env) ==
    LET ls == SelectSeq(env.locals, LAMBDA l : l.name = e.name)
        b == env.binding
    IN CASE ls # <<>> ->
               (CASE ls[1].type.k = "Tuple" \/ env.inline -> ls[1].init
                  [] ls[1].type.k = "Array" /\ ~env.arrays -> Bad
                  [] OTHER -> LocalRefTo(ls[1]))
         [] ls = <<>> /\ b.name # "" /\ b.name = e.name ->
               [Expr("MatchPayload", b.type, <<b.subject>>) EXCEPT !.int = b.case]
         [] OTHER -> Bad

----------------------------------------------------------------------------
(* Calls *)

\* The body of a function with its parameters replaced.
RECURSIVE instantiate_function_expr(_, _)
instantiate_function_expr(e, args) ==
    LET sub == [i \in DOMAIN e.args |-> instantiate_function_expr(e.args[i], args)]
    IN CASE e.kind = "LocalRef" -> args[e.ref + 1]
         [] e.kind = "TupleSlot" /\ sub[1].kind = "Tuple" -> sub[1].args[e.int + 1]
         [] e.kind = "Or" /\ ~Fallible(sub[1]) -> sub[1]
         [] OTHER -> [e EXCEPT !.args = sub]

placeholder_slot_expr(l, slot) ==
    CASE l.type.k # "Tuple" -> Allowed(slot = 1, l)
      [] slot \notin DOMAIN l.type.elems -> Bad
      [] l.kind = "Tuple" -> l.args[slot]
      [] OTHER -> [Expr("TupleSlot", l.type.elems[slot], <<l>>) EXCEPT !.int = slot - 1]

\* Two results of one expression: a type and the ways it may fail.
MergeType(l, r) == IF l.type = UnknownT THEN r.type ELSE l.type
Mergeable(l, r) ==
    /\ Good(<<l, r>>)
    /\ UnknownT \in {l.type, r.type} \/ l.type = r.type
    /\ (l.estruct # "" /\ r.estruct # "") => l.estruct = r.estruct /\ l.evar = r.evar
IfElse(c, t, e) ==
    Allowed(c.kind # "Bad" /\ Mergeable(t, e),
        [Expr("IfElse", MergeType(t, e), <<c, t, e>>) EXCEPT
            !.may_nil = t.may_nil \/ e.may_nil,
            !.may_error = t.may_error \/ e.may_error,
            !.estruct = IF t.estruct = "" THEN e.estruct ELSE t.estruct,
            !.evar = IF t.estruct = "" THEN e.evar ELSE t.evar])

ValueOf(e) == [Expr("ValueOf", e.type, <<e>>) EXCEPT !.estruct = e.estruct, !.evar = e.evar]

\* A value piped into a call that may turn out to be missing: the call, or what was missing.
PipeOrMissing(l, then, ret) ==
    LET failing == [Expr("MissingOf", ret, <<l>>) EXCEPT
                       !.may_nil = l.may_nil \/ then.may_nil,
                       !.may_error = l.may_error \/ then.may_error,
                       !.estruct = IF then.may_error THEN then.estruct ELSE l.estruct,
                       !.evar = IF then.may_error THEN then.evar ELSE l.evar]
    IN Allowed(/\ Good(<<then>>)
               /\ l.may_error /\ then.may_error => l.estruct = then.estruct /\ l.evar = then.evar,
               [failing EXCEPT !.kind = "IfElse",
                               !.args = <<Expr("HasValue", BoolT, <<l>>), then, failing>>])

FunctionBody(f) ==
    LET params == Functions[f].params
        self(i) == [Expr("LocalRef", params[i].type, <<>>) EXCEPT !.ref = i - 1]
        scope == [i \in DOMAIN params |-> Local(i - 1, params[i].name, self(i))]
    IN analyze_function_body_stmt(Functions[f].body, [Env(scope, NoBinding) EXCEPT !.inline = TRUE])

\* The errors an expression names without a variant, in order of appearance; the pattern of
\* such an error is a case of no variant yet.
Unnumbered(e) == \/ e.kind = "Error" /\ e.evar = "" /\ e.name # ""
                 \/ e.kind = "VariantCase" /\ e.type = VariantT("")
RECURSIVE collect_named_error_cases(_)
collect_named_error_cases(e) ==
    (IF Unnumbered(e) THEN <<e.name>> ELSE <<>>)
    \o FlattenSeq([i \in DOMAIN e.args |-> collect_named_error_cases(e.args[i])])
RECURSIVE FirstOccurrences(_)
FirstOccurrences(names) ==
    IF names = <<>> THEN <<>>
    ELSE LET rest == FirstOccurrences(Front(names))
         IN IF Last(names) \in Range(rest) THEN rest ELSE Append(rest, Last(names))

\* Named errors become cases of one variant, and everything that may be an error refers to it.
RECURSIVE patch_named_error_variant(_, _, _)
patch_named_error_variant(e, v, cases) ==
    LET number == (CHOOSE i \in DOMAIN cases : cases[i] = e.name) - 1
    IN [e EXCEPT !.int = IF Unnumbered(e) THEN number ELSE @,
                 !.type = IF @ = VariantT("") THEN VariantT(v) ELSE @,
                 !.evar = IF @ = "" /\ e.may_error /\ e.type.k # "Variant" THEN v ELSE @,
                 !.args = [i \in DOMAIN @ |-> patch_named_error_variant(@[i], v, cases)]]

\* The variant of a function's own named errors goes by the function's name.
FunctionErrors(f) == FirstOccurrences(collect_named_error_cases(FunctionBody(f)))
CasesOf(v) ==
    IF v \in DOMAIN Variants THEN Variants[v]
    ELSE LET names == FunctionErrors(v)
         IN [i \in DOMAIN names |-> [name |-> names[i], payload |-> NoPayload]]
AnalyzedFunction(f) ==
    LET names == FunctionErrors(f)
        body == FunctionBody(f)
    IN WithType(IF names = <<>> THEN body ELSE patch_named_error_variant(body, f, names),
                Functions[f].ret)

Holes(e) == {i \in DOMAIN e.args : e.args[i].kind = "Placeholder"}
\* The function's body for arguments of the types it declares.
Called(e, args) ==
    LET fn == Functions[e.name]
        body == AnalyzedFunction(e.name)
    IN Allowed(Plain(args) /\ Good(<<body>>) /\ \A i \in DOMAIN args : args[i].type = fn.params[i].type,
               WithType(instantiate_function_expr(body, args), fn.ret))

\* A value known to be missing is what the call gives, under the type of the call.
FoldedPipe(l, ret, locals) ==
    IF known_value_state(l, locals) = "Nil" THEN [Expr("Nil", ret, <<>>) EXCEPT !.may_nil = TRUE]
    ELSE [Origin(l, locals) EXCEPT !.type = ret, !.may_nil = FALSE]
\* A value that may be missing fills one hole, as the value it has when it is there.
ConditionalPipe(e, l, env) ==
    LET ret == Functions[e.name].ret
        args == [i \in DOMAIN e.args |-> IF i \in Holes(e) THEN Allowed(e.args[i].int = 1, ValueOf(l))
                                         ELSE analyze_expr(e.args[i], env)]
    IN Allowed(Cardinality(Holes(e)) = 1 /\ ret.k \in {"I32", "Str", "Variant"},
               PipeOrMissing(l, Called(e, args), ret))

\* A call, by itself (lhs = <<>>) or with a value piped into it.
analyze_call_expr(e, env, lhs) ==
    LET fn == Functions[e.name]
        l == lhs[1]
        state == IF lhs = <<>> THEN "None" ELSE known_value_state(l, env.locals)
        args == [i \in DOMAIN e.args |-> IF i \in Holes(e) THEN placeholder_slot_expr(l, e.args[i].int)
                                         ELSE analyze_expr(e.args[i], env)]
    IN CASE ~(e.name \in DOMAIN Functions /\ Good(lhs)) -> Bad
         [] Len(e.args) # Len(fn.params) -> Bad
         [] state \in {"Nil", "Error"} -> FoldedPipe(l, fn.ret, env.locals)
         [] state = "Unknown" -> ConditionalPipe(e, l, env)
         [] OTHER -> Allowed((lhs = <<>>) = (Holes(e) = {}), Called(e, args))

analyze_expr(e, env) ==
    CASE e.kind \in {"BoolLit", "IntLit", "StrLit", "LitMethod", "Nil"} -> AnalyzeLiteral(e)
      [] e.kind \in ReqKinds -> AnalyzeRequest(e)
      [] e.kind = "StructInit" -> AnalyzeStructInit(e, env)
      [] e.kind = "VariantCase" -> AnalyzeVariantCase(e, env)
      [] e.kind = "Tuple" -> AnalyzeTuple(e, env)
      [] e.kind = "ArrayLit" -> AnalyzeArray(e, env)
      [] e.kind = "Error" -> AnalyzeError(e, env)
      [] e.kind = "Or" -> AnalyzeOr(e, env)
      [] e.kind \in {"Eq", "Lt", "Gt"} -> AnalyzeCompare(e, env)
      [] e.kind = "MethodCall" -> analyze_method_call_expr(e, env)
      [] e.kind = "Field" -> AnalyzeField(e, env)
      [] e.kind = "Ident" -> AnalyzeIdent(e, env)
      [] e.kind = "Call" -> analyze_call_expr(e, env, <<>>)
      [] e.kind = "Pipe" -> Allowed(Rhs(e).kind = "Call",
                               analyze_call_expr(Rhs(e), env, <<analyze_expr(Lhs(e), env)>>))
      [] OTHER -> Bad

----------------------------------------------------------------------------
(* Patterns and guards *)

\* A case is looked up in the variant of the subject or, when the subject may be an error,
\* in the variant of its errors.
analyze_match_pattern(p, subject, env) ==
    LET of_error == subject.type.k # "Variant" /\ subject.may_error /\ subject.evar # ""
        v == CASE of_error -> subject.evar
               [] ~of_error /\ subject.type.k = "Variant" -> subject.type.name
               [] OTHER -> ""
        at == IF v = "" THEN {} ELSE CaseIndex(v, p.str)
        i == CHOOSE i \in at : TRUE
        binds_ok == /\ p.args # <<>> => HasPayload(CasesOf(v)[i]) /\ p.args[1].kind = "Ident"
    IN IF p.kind # "VariantCase" THEN analyze_expr(p, [env EXCEPT !.binding = NoBinding])
       ELSE Allowed(p.name \in {"", v} /\ at # {} /\ binds_ok, CaseExpr(v, i, <<>>))

IsPattern(p, subject) ==
    p.kind \in {"BoolLit", "IntLit", "StrLit", "VariantCase"} /\ p.type = subject.type

\* Whether the subject is the pattern: by its case, or by its value.
MatchTest(subject, p) ==
    IF p.kind = "VariantCase"
    THEN Expr("Eq", BoolT, <<Expr("VariantTag", I32T, <<subject>>), IntLit(p.int)>>)
    ELSE Expr("Eq", BoolT, <<subject, p>>)

\* The payload an arm binds, seen by its guard and its body.
bind_match_payload(arm, p, subject, outer) ==
    IF p.kind = "VariantCase" /\ arm.pattern.args # <<>>
    THEN [name |-> arm.pattern.args[1].name, subject |-> subject, case |-> p.int,
          type |-> CasesOf(p.type.name)[p.int + 1].payload]
    ELSE outer

\* The pattern of every arm; a wildcard has none.
Patterns(arms, subject, env) ==
    [i \in DOMAIN arms |-> IF arms[i].is_wildcard THEN Bad
                           ELSE analyze_match_pattern(arms[i].pattern, subject, env)]
\* Without a wildcard both Booleans, or every case of the variant, must appear.
Exhausts(type, seen) ==
    \/ type = BoolT /\ {p.int : p \in seen} = {0, 1}
    \/ type.k = "Variant" /\ {p.int : p \in seen} = 0 .. Len(CasesOf(type.name)) - 1

\* The arm a constant subject selects: the first whose pattern it is, else the last wildcard.
SelectedArm(arms, pats, value) ==
    LET hits == {i \in DOMAIN arms : ~arms[i].is_wildcard /\ PatternHits(pats[i], value)}
        wild == {i \in DOMAIN arms : arms[i].is_wildcard}
    IN CASE hits # {} -> Min(hits)
         [] hits = {} /\ wild # {} -> Max(wild)
         [] OTHER -> 0
\* Arms behind the selected one are not looked at.
ConstArm(arms, subject, env) ==
    LET value == const_eval_expr(subject, env.locals)
        pats == Patterns(arms, subject, env)
        n == SelectedArm(arms, pats, value)
        looked == IF n # 0 /\ ~arms[n].is_wildcard THEN 1 .. n ELSE DOMAIN arms
    IN IF /\ value.kind # "Bad" /\ n # 0
          /\ \A i \in looked : arms[i].guard = <<>> /\ (arms[i].is_wildcard \/ pats[i].kind # "Bad")
       THEN n ELSE 0

\* What a guard tests.  Without a possible error only a Boolean can fail it.
analyze_guard_cond(e, env) ==
    LET a == analyze_expr(e, env)
        state == known_value_state(a, env.locals)
    IN CASE ~Good(<<a>>) -> Bad
         [] ~a.may_error -> IF a.type = BoolT /\ ~a.may_nil THEN a ELSE BoolLit(TRUE)
         [] state = "Error" -> BoolLit(FALSE)
         [] state \in {"Available", "Nil"} -> BoolLit(TRUE)
         [] OTHER -> Expr("NoError", BoolT, <<a>>)
\* What a guard binds: the value, which is no error any more.
make_guard_bound_init(bound) ==
    IF ~bound.may_error THEN bound
    ELSE [ValueOf(bound) EXCEPT !.may_nil = bound.may_nil, !.evar = ""]
\* An error that is known cannot be bound.
Bindable(bound, env) == Good(<<bound>>) /\ known_value_state(bound, env.locals) # "Error"

----------------------------------------------------------------------------
(* The body of a function, as one expression *)

NoResult == Expr("None", UnknownT, <<>>)

\* Arms are folded from the last; a wildcard replaces what follows it.
RECURSIVE FoldArms(_, _, _, _)
FoldArms(arms, i, subject, env) ==
    LET arm == arms[i]
        pat == analyze_match_pattern(arm.pattern, subject, env)
        inner == [env EXCEPT !.binding = bind_match_payload(arm, pat, subject, @)]
        rest == FoldArms(arms, i + 1, subject, env)
        later == {j \in i + 1 .. Len(arms) : ~arms[j].is_wildcard}
        repeated == \E j \in later :
                       /\ pat.type.k \in {"Variant", "Bool"}
                       /\ analyze_match_pattern(arms[j].pattern, subject, env) = pat
        test == MatchTest(subject, pat)
        body == analyze_function_body_stmt(arm.stmt, inner)
        guard == analyze_expr(arm.guard[1], inner)
    IN CASE i > Len(arms) -> NoResult
         [] i <= Len(arms) /\ arm.is_wildcard ->
               Allowed(/\ arm.guard = <<>> /\ \A j \in i + 1 .. Len(arms) : ~arms[j].is_wildcard
                       /\ rest.kind # "Bad",
                       analyze_function_body_stmt(arm.stmt, env))
         [] OTHER ->
               (CASE ~(IsPattern(pat, subject) /\ Good(<<rest, body>>)) -> Bad
                  [] arm.guard # <<>> ->
                        Allowed(rest # NoResult /\ Plain(<<guard>>) /\ guard.type = BoolT,
                                IfElse(test, IfElse(guard, body, rest), rest))
                  [] repeated -> Bad
                  [] rest = NoResult -> body
                  [] OTHER -> IfElse(test, body, rest))
FunctionMatch(stmt, env) ==
    LET subject == analyze_expr(stmt.expr, [env EXCEPT !.binding = NoBinding])
        arms == stmt.arms
        pats == Patterns(arms, subject, env)
        result == FoldArms(arms, 1, subject, env)
    IN Allowed(/\ Plain(<<subject>>) /\ result # NoResult
               /\ result.type # UnknownT \/ Fallible(result)
               /\ \/ \E a \in Range(arms) : a.is_wildcard
                  \/ (\A a \in Range(arms) : a.guard = <<>>) /\ Exhausts(subject.type, Range(pats)),
               result)

FunctionMatchConst(stmt, env) ==
    LET subject == analyze_expr(stmt.expr, [env EXCEPT !.binding = NoBinding])
        n == IF Good(<<subject>>) THEN ConstArm(stmt.arms, subject, env) ELSE 0
        arm == stmt.arms[n]
        bound == IF arm.is_wildcard THEN env.binding
                 ELSE bind_match_payload(arm, analyze_match_pattern(arm.pattern, subject, env), subject,
                                         env.binding)
    IN IF n = 0 THEN Bad ELSE analyze_function_body_stmt(arm.stmt, [env EXCEPT !.binding = bound])

\* The arms of a failed guard compare the error's code; one of them is a wildcard.
RECURSIVE FoldErrorArms(_, _, _, _)
FoldErrorArms(arms, i, subject, env) ==
    LET arm == arms[i]
        pat == analyze_match_pattern(arm.pattern, subject, env)
        rest == FoldErrorArms(arms, i + 1, subject, env)
        body == analyze_function_body_stmt(arm.stmt, env)
        code == [Expr("Field", I32T, <<subject>>) EXCEPT !.str = "code"]
        repeated == \E j \in i + 1 .. Len(arms) :
                       ~arms[j].is_wildcard /\ analyze_match_pattern(arms[j].pattern, subject, env) = pat
    IN CASE i > Len(arms) -> NoResult
         [] i <= Len(arms) /\ arm.is_wildcard -> Allowed(rest.kind # "Bad", body)
         [] OTHER ->
               (CASE ~(/\ pat.kind = "VariantCase" /\ ~repeated /\ Good(<<rest, body>>)
                       /\ pat.type = VariantT(subject.evar)) -> Bad
                  [] rest = NoResult -> body
                  [] OTHER -> IfElse(Expr("Eq", BoolT, <<code, IntLit(pat.int)>>), body, rest))
FunctionGuardMatch(arms, subject, env) ==
    Allowed(subject.may_error /\ Cardinality({i \in DOMAIN arms : arms[i].is_wildcard}) = 1,
            FoldErrorArms(arms, 1, subject, env))

\* A block: lets and guards, then the statement whose value it has.
RECURSIVE FunctionBlock(_, _, _)
FunctionBlock(ss, i, env) ==
    LET s == ss[i]
        unbound == [env EXCEPT !.binding = NoBinding]
        init == analyze_expr(s.expr, unbound)
        typed == apply_declared_type_to_expr(init, s.type)
        with(e) == [env EXCEPT !.locals = Append(@, Local(next_local_ref_index(@), s.name, e))]
        cond == analyze_guard_cond(s.expr, unbound)
        then == FunctionBlock(ss, i + 1, IF s.name = "" THEN env ELSE with(make_guard_bound_init(init)))
        else == IF s.arms # <<>> THEN FunctionGuardMatch(s.arms, init, env)
                ELSE analyze_function_body_stmt(s.else, env)
    IN CASE i > Len(ss) -> Bad
         [] i = Len(ss) -> analyze_function_body_stmt(s, env)
         [] i < Len(ss) /\ s.kind = "Let" ->
               Allowed(Good(<<init, typed>>) /\ Len(env.locals) < kMaxLocals,
                       FunctionBlock(ss, i + 1, with(typed)))
         [] i < Len(ss) /\ s.kind = "Guard" ->
               Allowed(Good(<<init, cond>>) /\ (s.name # "" => Bindable(init, env)),
                       IfElse(cond, then, else))
         [] OTHER -> Bad

analyze_function_body_stmt(stmt, env) ==
    LET cond == analyze_expr(stmt.expr, env)
    IN CASE stmt.kind = "Expr" -> analyze_expr(stmt.expr, env)
         [] stmt.kind = "If" ->
               Allowed(Plain(<<cond>>) /\ cond.type = BoolT,
                       IfElse(cond, analyze_function_body_stmt(stmt.then, env),
                                    analyze_function_body_stmt(stmt.else, env)))
         [] stmt.kind = "Match" ->
               IF stmt.is_const THEN FunctionMatchConst(stmt, env) ELSE FunctionMatch(stmt, env)
         [] stmt.kind = "Block" -> FunctionBlock(stmt.stmts, 1, env)
         [] OTHER -> Bad
=============================================================================
